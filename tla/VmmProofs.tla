------------------------------ MODULE VmmProofs ------------------------------
(***************************************************************************)
(* Vmm for every number of levels, tables, pages and address spaces.       *)
(***************************************************************************)
EXTENDS Vmm, NatFacts, TLAPS

-----------------------------------------------------------------------------
(* Induction down a stretch of numbers. *)
LEMMA Downwards ==
    ASSUME NEW a \in Nat, NEW b \in Nat, NEW S, b \in S,
           \A l \in a .. b - 1 : l + 1 \in S => l \in S
    PROVE  \A l \in a .. b : l \in S
<1> DEFINE T == {k \in 0 .. b - a : b - k \notin S}
<1> SUFFICES ASSUME NEW l \in a .. b, l \notin S PROVE FALSE
  OBVIOUS
<1>1. b - l \in T
  <2>1. b - l \in 0 .. b - a /\ b - (b - l) = l
    OBVIOUS
  <2> QED BY <2>1
<1>2. PICK m \in T : \A n \in T : m <= n
  <2>1. T \in SUBSET Nat
    OBVIOUS
  <2> QED BY <1>1, <2>1, LeastNat
<1>3. m # 0 /\ m \in 0 .. b - a /\ b - m \notin S
  OBVIOUS
<1>4. m - 1 \in 0 .. b - a /\ m - 1 \notin T
  BY <1>2, <1>3
<1>5. b - m \in a .. b - 1 /\ b - m + 1 = b - (m - 1)
  BY <1>3
<1>6. b - m + 1 \in S
  BY <1>4, <1>5
<1> QED BY <1>3, <1>5, <1>6

-----------------------------------------------------------------------------
(* The processor's walk through tables m, whatever they are. *)
Below(m, t, i) == IF t \notin Tables \/ m[t][i] = None THEN None ELSE m[t][i].frame

WalkOf(m, root, v) ==
    LET r[l \in 1 .. Depth] ==
            IF l = 1 THEN root
            ELSE IF r[l - 1] \notin Tables \/ m[r[l - 1]][v[l - 1]] = None THEN None
                 ELSE m[r[l - 1]][v[l - 1]].frame
    IN r

FoundIn(m, root, v) ==
    LET t == WalkOf(m, root, v)[Depth] IN IF t \in Tables THEN m[t][v[Depth]] ELSE None

LEMMA TranslateIsFound ==
    \A root, v : Reached(root, v) = WalkOf(mem, root, v) /\ Translate(root, v) = FoundIn(mem, root, v)
BY DEF Reached, Translate, WalkOf, FoundIn

LEMMA WalkSteps ==
    ASSUME NEW m, NEW root, NEW v
    PROVE  /\ WalkOf(m, root, v)[1] = root
           /\ \A l \in 1 .. Depth - 1 :
                 WalkOf(m, root, v)[l + 1] = Below(m, WalkOf(m, root, v)[l], v[l])
<1> DEFINE G(f, l) == IF l = 1 THEN root
                      ELSE IF f[l - 1] \notin Tables \/ m[f[l - 1]][v[l - 1]] = None THEN None
                           ELSE m[f[l - 1]][v[l - 1]].frame
           S == {n \in 1 .. Depth : \E f : f = [l \in 1 .. n |-> G(f, l)]}
<1>1. Depth \in Nat \ {0, 1}
  BY PagesAssumption
<1>2. 1 \in S
  <2> DEFINE f == [l \in 1 .. 1 |-> root]
  <2>1. f = [l \in 1 .. 1 |-> G(f, l)]
    OBVIOUS
  <2> HIDE DEF f, G
  <2>2. \E g : g = [l \in 1 .. 1 |-> G(g, l)]
    BY <2>1
  <2> QED BY <1>1, <2>2
<1>3. ASSUME NEW n \in 1 .. Depth - 1, n \in S PROVE n + 1 \in S
  <2>1. PICK f : f = [l \in 1 .. n |-> G(f, l)]
    BY <1>3
  <2> DEFINE g == [l \in 1 .. n + 1 |-> IF l <= n THEN f[l] ELSE G(f, l)]
  <2>2. ASSUME NEW l \in 1 .. n + 1 PROVE g[l] = G(g, l)
    <3>1. l = 1 \/ (l - 1 \in 1 .. n /\ g[l - 1] = f[l - 1])
      BY <1>1, <1>3
    <3>2. g[l] = G(f, l)
      <4>1. CASE l = n + 1
        <5> HIDE DEF G
        <5> QED BY <4>1, <1>1, <1>3
      <4>2. CASE l # n + 1
        <5>1. l \in 1 .. n
          BY <4>2, <1>3
        <5> HIDE DEF G
        <5>2. g[l] = f[l]
          BY <5>1, <1>1, <1>3
        <5>3. f[l] = G(f, l)
          BY <2>1, <5>1
        <5> QED BY <5>2, <5>3
      <4> QED BY <4>1, <4>2
    <3>3. G(g, l) = G(f, l)
      <4> HIDE DEF g
      <4> QED BY <3>1
    <3> QED BY <3>2, <3>3
  <2> HIDE DEF G
  <2>3. g = [l \in 1 .. n + 1 |-> g[l]]
    OBVIOUS
  <2> HIDE DEF g
  <2>4. g = [l \in 1 .. n + 1 |-> G(g, l)]
    BY <2>2, <2>3
  <2>5. n + 1 \in 1 .. Depth
    BY <1>1, <1>3
  <2> QED BY <2>4, <2>5
<1>4. PICK f : f = [l \in 1 .. Depth |-> G(f, l)]
  <2> HIDE DEF S
  <2>1. \A l \in 1 .. Depth : l \in S
    BY <1>1, <1>2, <1>3, Upwards
  <2>2. Depth \in S
    BY <1>1, <2>1
  <2> QED BY <2>2 DEF S
<1> DEFINE r == WalkOf(m, root, v)
<1>5. r = [l \in 1 .. Depth |-> G(r, l)]
  BY <1>4 DEF WalkOf
<1> HIDE DEF r
<1>6. \A l \in 1 .. Depth : r[l] = G(r, l)
  <2> HIDE DEF G
  <2> QED BY <1>5
<1>7. r[1] = root
  BY <1>1, <1>6
<1>8. ASSUME NEW l \in 1 .. Depth - 1 PROVE r[l + 1] = Below(m, r[l], v[l])
  <2>1. l + 1 \in 1 .. Depth /\ l + 1 # 1 /\ (l + 1) - 1 = l
    BY <1>1
  <2> QED BY <1>6, <2>1 DEF Below
<1> QED BY <1>7, <1>8 DEF r

(* A walk that has come to nothing finds nothing further down. *)
LEMMA WalkEnds ==
    ASSUME NEW m, NEW root, NEW v, NEW l \in 1 .. Depth, WalkOf(m, root, v)[l] = None
    PROVE  \A k \in l .. Depth : WalkOf(m, root, v)[k] = None
<1> DEFINE r == WalkOf(m, root, v)
           S == {k \in l .. Depth : r[k] = None}
<1>1. Depth \in Nat /\ l \in Nat
  BY PagesAssumption
<1>2. l \in S
  OBVIOUS
<1>3. ASSUME NEW k \in l .. Depth - 1, k \in S PROVE k + 1 \in S
  <2>1. r[k + 1] = Below(m, r[k], v[k])
    BY <1>1, WalkSteps
  <2>2. r[k + 1] = None
    BY <2>1, <1>3, DataAssumption DEF Below
  <2> QED BY <2>2, <1>1
<1> HIDE DEF S
<1>4. \A k \in l .. Depth : k \in S
  BY <1>1, <1>2, <1>3, Upwards
<1> QED BY <1>4 DEF S

(* Two walks that meet stay together, as long as the second finds what the first does. *)
LEMMA WalksJoin ==
    ASSUME NEW m, NEW n, NEW r, NEW q, NEW v, NEW a \in 1 .. Depth, NEW b \in 1 .. Depth,
           WalkOf(n, q, v)[a] = WalkOf(m, r, v)[a],
           \A l \in a .. b - 1 : Below(n, WalkOf(m, r, v)[l], v[l]) = Below(m, WalkOf(m, r, v)[l], v[l])
    PROVE  \A l \in a .. b : WalkOf(n, q, v)[l] = WalkOf(m, r, v)[l]
<1> DEFINE S == {l \in a .. b : WalkOf(n, q, v)[l] = WalkOf(m, r, v)[l]}
<1>1. Depth \in Nat /\ a \in Nat /\ b \in Nat
  BY PagesAssumption
<1> SUFFICES ASSUME a <= b PROVE \A l \in a .. b : l \in S
  BY <1>1
<1>2. a \in S
  BY <1>1
<1>3. ASSUME NEW l \in a .. b - 1, l \in S PROVE l + 1 \in S
  <2>1. l \in 1 .. Depth - 1 /\ l + 1 \in a .. b
    BY <1>1
  <2>2. WalkOf(n, q, v)[l + 1] = Below(n, WalkOf(n, q, v)[l], v[l])
    BY <2>1, WalkSteps
  <2>3. WalkOf(m, r, v)[l + 1] = Below(m, WalkOf(m, r, v)[l], v[l])
    BY <2>1, WalkSteps
  <2> QED BY <2>1, <2>2, <2>3, <1>3
<1> HIDE DEF S
<1> QED BY <1>1, <1>2, <1>3, Upwards

LEMMA WalkKept ==
    ASSUME NEW m, NEW n, NEW s, NEW v, NEW b \in 1 .. Depth,
           \A l \in 1 .. b - 1 : Below(n, WalkOf(m, s, v)[l], v[l]) = Below(m, WalkOf(m, s, v)[l], v[l])
    PROVE  \A l \in 1 .. b : WalkOf(n, s, v)[l] = WalkOf(m, s, v)[l]
<1>1. WalkOf(n, s, v)[1] = WalkOf(m, s, v)[1]
  BY WalkSteps
<1>2. 1 \in 1 .. Depth
  BY PagesAssumption
<1> QED BY <1>1, <1>2, WalksJoin

LEMMA WalksMeet ==
    ASSUME NEW m, NEW n, NEW r, NEW q, NEW v, WalkOf(n, q, v)[2] = WalkOf(m, r, v)[2],
           \A l \in 2 .. Depth - 1 : Below(n, WalkOf(m, r, v)[l], v[l]) = Below(m, WalkOf(m, r, v)[l], v[l])
    PROVE  \A l \in 2 .. Depth : WalkOf(n, q, v)[l] = WalkOf(m, r, v)[l]
<1> DEFINE a == 2
           b == Depth
<1>1. a \in 1 .. Depth /\ b \in 1 .. Depth
  BY PagesAssumption
<1>2. WalkOf(n, q, v)[a] = WalkOf(m, r, v)[a]
  OBVIOUS
<1>3. \A l \in a .. b - 1 : Below(n, WalkOf(m, r, v)[l], v[l]) = Below(m, WalkOf(m, r, v)[l], v[l])
  OBVIOUS
<1> HIDE DEF a, b
<1>4. \A l \in a .. b : WalkOf(n, q, v)[l] = WalkOf(m, r, v)[l]
  BY <1>1, <1>2, <1>3, WalksJoin, SMTT(60)
<1> QED BY <1>4 DEF a, b

-----------------------------------------------------------------------------
(* What is true of tables m, of which some are used and some of these are on top:
   each has a level, an entry leads one level down or, on the last, to data;
   low are the tables below the lower half, and their entries are for user mode. *)
Lower(lev, low, t, i) == IF lev[t] = 1 THEN i \notin KernelIndex ELSE t \in low

EntryFits(used, lev, low, t, i, e) ==
    /\ lev[t] # Depth => /\ e.frame \in used /\ lev[e.frame] = lev[t] + 1
                         /\ e.frame \in low <=> Lower(lev, low, t, i)
    /\ lev[t] = Depth => e.frame \in Data /\ (~Lower(lev, low, t, i) => "U" \notin e.flags)
    /\ Lower(lev, low, t, i) => "U" \in e.flags /\ "G" \notin e.flags

Forest(m, used, tops, lev, low) ==
    /\ used \subseteq Tables /\ tops \subseteq used
    /\ lev \in [Tables -> 1 .. Depth]
    /\ \A s \in tops : lev[s] = 1
    /\ \A t \in used, i \in Index : m[t][i] # None => EntryFits(used, lev, low, t, i, m[t][i])

(* A table has one entry that leads to it, or is shared by the tops. *)
SingleParent(m, used, tops) ==
    \A t, u \in used, i, j \in Index :
        m[t][i] # None /\ m[u][j] # None /\ m[t][i].frame = m[u][j].frame /\ m[t][i].frame \in Tables
        => (t = u /\ i = j) \/ (i = j /\ i \in KernelIndex /\ t \in tops /\ u \in tops)

(* The kernel's half is the same, and complete, under all tops. *)
Sharing(m, tops) ==
    \A s \in tops, v \in Pages : Upper(v) => m[s][v[1]] # None /\ m[s][v[1]] = m[Boot][v[1]]

(* The walk from a top stays in the used tables, one level after the other. *)
OnWay(used, lev, low, v, l, t) ==
    t # None => t \in used /\ lev[t] = l /\ (Lower(lev, low, t, v[l]) <=> ~Upper(v))

LEMMA WalkLevels ==
    ASSUME NEW m, NEW used, NEW tops, NEW lev, NEW low, Forest(m, used, tops, lev, low),
           NEW s \in tops, NEW v \in Pages
    PROVE  \A l \in 1 .. Depth : OnWay(used, lev, low, v, l, WalkOf(m, s, v)[l])
<1> DEFINE r == WalkOf(m, s, v)
           S == {l \in 1 .. Depth : OnWay(used, lev, low, v, l, r[l])}
<1>1. Depth \in Nat \ {0, 1} /\ v \in [1 .. Depth -> Index]
  BY PagesAssumption
<1>2. 1 \in S
  <2>1. r[1] = s
    BY WalkSteps
  <2>2. lev[s] = 1 /\ s \in used
    BY DEF Forest
  <2>3. OnWay(used, lev, low, v, 1, s)
    BY <2>2 DEF OnWay, Lower, Upper
  <2> QED BY <1>1, <2>1, <2>3
<1>3. ASSUME NEW l \in 1 .. Depth - 1, l \in S PROVE l + 1 \in S
  <2>1. r[l + 1] = Below(m, r[l], v[l]) /\ l + 1 \in 1 .. Depth /\ v[l] \in Index /\ l # Depth /\ l + 1 # 1
    BY <1>1, WalkSteps
  <2>2. CASE r[l + 1] = None
    BY <2>1, <2>2 DEF OnWay
  <2>3. CASE r[l + 1] # None
    <3>1. r[l] \in Tables /\ m[r[l]][v[l]] # None /\ r[l + 1] = m[r[l]][v[l]].frame
      BY <2>1, <2>3 DEF Below
    <3>2. r[l] \in used /\ lev[r[l]] = l /\ (Lower(lev, low, r[l], v[l]) <=> ~Upper(v))
      BY <3>1, <1>3, DataAssumption DEF OnWay
    <3>3. EntryFits(used, lev, low, r[l], v[l], m[r[l]][v[l]])
      BY <3>1, <3>2, <2>1 DEF Forest
    <3>4. r[l + 1] \in used /\ lev[r[l + 1]] = l + 1 /\ (r[l + 1] \in low <=> ~Upper(v))
      BY <3>1, <3>2, <3>3, <2>1 DEF EntryFits
    <3>5. OnWay(used, lev, low, v, l + 1, r[l + 1])
      BY <3>4, <2>1 DEF OnWay, Lower
    <3> QED BY <3>5, <2>1
  <2> QED BY <2>2, <2>3
<1> HIDE DEF S
<1>4. \A l \in 1 .. Depth : l \in S
  BY <1>1, <1>2, <1>3, Upwards
<1> QED BY <1>4 DEF S

(* A table is reached in one way: by the same indices, and but for the kernel's
   half from the same top. *)
LEMMA OneWay ==
    ASSUME NEW m, NEW used, NEW tops, NEW lev, NEW low,
           Forest(m, used, tops, lev, low), SingleParent(m, used, tops),
           NEW s \in tops, NEW u \in tops, NEW v \in Pages, NEW w \in Pages, NEW n \in 1 .. Depth,
           WalkOf(m, s, v)[n] = WalkOf(m, u, w)[n], WalkOf(m, s, v)[n] # None
    PROVE  /\ \A k \in 1 .. n - 1 : v[k] = w[k]
           /\ n # 1 /\ ~Upper(v) => s = u
<1> DEFINE r == WalkOf(m, s, v)
           q == WalkOf(m, u, w)
           Same(k) == k # 1 => r[k] = q[k] /\ r[k] # None
           S == {k \in 1 .. n : Same(k)}
<1>1. Depth \in Nat \ {0, 1} /\ v \in [1 .. Depth -> Index] /\ w \in [1 .. Depth -> Index]
  BY PagesAssumption
<1>2. ASSUME NEW k \in 1 .. n - 1, k + 1 \in S
      PROVE  v[k] = w[k] /\ Same(k) /\ (k = 1 /\ ~Upper(v) => s = u)
  <2>1. k \in 1 .. Depth - 1 /\ k \in 1 .. Depth /\ v[k] \in Index /\ w[k] \in Index /\ k + 1 # 1
    BY <1>1
  <2>2. r[k + 1] = q[k + 1] /\ r[k + 1] # None
    BY <1>2, <2>1
  <2>3. r[k + 1] = Below(m, r[k], v[k]) /\ q[k + 1] = Below(m, q[k], w[k]) /\ r[1] = s /\ q[1] = u
    BY <2>1, WalkSteps
  <2>4. /\ r[k] \in Tables /\ m[r[k]][v[k]] # None /\ r[k + 1] = m[r[k]][v[k]].frame
        /\ q[k] \in Tables /\ m[q[k]][w[k]] # None /\ q[k + 1] = m[q[k]][w[k]].frame
    BY <2>2, <2>3 DEF Below
  <2>5. OnWay(used, lev, low, v, k, r[k]) /\ OnWay(used, lev, low, w, k, q[k])
        /\ OnWay(used, lev, low, v, k + 1, r[k + 1])
    <3>1. \A l \in 1 .. Depth : OnWay(used, lev, low, v, l, r[l])
      BY WalkLevels
    <3>2. \A l \in 1 .. Depth : OnWay(used, lev, low, w, l, q[l])
      BY WalkLevels
    <3>3. k + 1 \in 1 .. Depth
      BY <1>1
    <3> HIDE DEF r, q
    <3> QED BY <2>1, <3>1, <3>2, <3>3
  <2>6. r[k] # None /\ q[k] # None
    BY <2>4, DataAssumption
  <2>7. r[k] \in used /\ q[k] \in used /\ r[k + 1] \in Tables /\ lev[r[k]] = k
    BY <2>2, <2>5, <2>6 DEF OnWay, Forest
  <2>8. \/ r[k] = q[k] /\ v[k] = w[k]
        \/ v[k] = w[k] /\ v[k] \in KernelIndex /\ r[k] \in tops
    <3> HIDE DEF r, q
    <3>1. m[r[k]][v[k]].frame = m[q[k]][w[k]].frame /\ m[r[k]][v[k]].frame \in Tables
      BY <2>2, <2>4, <2>7
    <3> QED BY <2>1, <2>4, <2>7, <3>1 DEF SingleParent
  <2>9. CASE r[k] = q[k] /\ v[k] = w[k]
    BY <2>9, <2>3, <2>6
  <2>10. CASE v[k] = w[k] /\ v[k] \in KernelIndex /\ r[k] \in tops
    <3>1. k = 1
      BY <2>10, <2>7 DEF Forest
    <3> QED BY <3>1, <2>10 DEF Upper
  <2> QED BY <2>8, <2>9, <2>10
<1>3. \A k \in 1 .. n : k \in S
  <2>1. n \in S /\ n \in Nat
    BY <1>1
  <2>2. \A k \in 1 .. n - 1 : k + 1 \in S => k \in S
    BY <1>1, <1>2
  <2> HIDE DEF S
  <2> QED BY <2>1, <2>2, Downwards
<1>4. \A k \in 1 .. n - 1 : k + 1 \in S
  <2> HIDE DEF S
  <2> QED BY <1>1, <1>3
<1>5. \A k \in 1 .. n - 1 : v[k] = w[k] /\ (k = 1 /\ ~Upper(v) => s = u)
  <2> HIDE DEF S
  <2> QED BY <1>2, <1>4
<1> QED BY <1>1, <1>5

(* In the kernel's half all tops find the same. *)
LEMMA SharedWalks ==
    ASSUME NEW m, NEW used, NEW tops, NEW lev, NEW low, Forest(m, used, tops, lev, low), Sharing(m, tops),
           NEW s \in tops, NEW u \in tops, NEW v \in Pages, Upper(v)
    PROVE  /\ \A l \in 2 .. Depth : WalkOf(m, s, v)[l] = WalkOf(m, u, v)[l]
           /\ FoundIn(m, s, v) = FoundIn(m, u, v)
<1>1. Depth \in Nat \ {0, 1} /\ 1 \in 1 .. Depth - 1 /\ 2 \in 1 .. Depth /\ Depth \in 1 .. Depth
  BY PagesAssumption
<1>2. WalkOf(m, s, v)[2] = Below(m, s, v[1]) /\ WalkOf(m, u, v)[2] = Below(m, u, v[1])
  <2>1. 1 + 1 = 2
    OBVIOUS
  <2> QED BY <1>1, <2>1, WalkSteps
<1>3. WalkOf(m, s, v)[2] = WalkOf(m, u, v)[2]
  BY <1>2 DEF Sharing, Below, Forest
<1>4. \A l \in 2 .. Depth : WalkOf(m, s, v)[l] = WalkOf(m, u, v)[l]
  BY <1>1, <1>3, WalksJoin
<1>5. Depth \in 2 .. Depth
  BY <1>1
<1> QED BY <1>4, <1>5 DEF FoundIn

-----------------------------------------------------------------------------
(* How a change of the tables shows in the walks from the tops. *)

(* An entry of the last level. *)
Rewritten(m, n, t, i, e) == n = [m EXCEPT ![t][i] = e]

LEMMA LeafChange ==
    ASSUME NEW m \in [Tables -> Table], NEW used, NEW tops, NEW lev, NEW low,
           Forest(m, used, tops, lev, low),
           NEW t \in used, NEW i \in Index, NEW e, lev[t] = Depth,
           NEW n, Rewritten(m, n, t, i, e),
           NEW s \in tops, NEW v \in Pages
    PROVE  /\ \A l \in 1 .. Depth : WalkOf(n, s, v)[l] = WalkOf(m, s, v)[l]
           /\ FoundIn(n, s, v) = IF WalkOf(m, s, v)[Depth] = t /\ v[Depth] = i THEN e ELSE FoundIn(m, s, v)
<1>1. Depth \in Nat \ {0, 1} /\ v \in [1 .. Depth -> Index] /\ Depth \in 1 .. Depth /\ 1 \in 1 .. Depth
  BY PagesAssumption
<1>2. \A a \in Tables : a # t => n[a] = m[a]
  BY DEF Forest, Rewritten
<1>3. \A l \in 1 .. Depth - 1 :
         Below(n, WalkOf(m, s, v)[l], v[l]) = Below(m, WalkOf(m, s, v)[l], v[l])
  <2> TAKE l \in 1 .. Depth - 1
  <2>1. OnWay(used, lev, low, v, l, WalkOf(m, s, v)[l]) /\ l # Depth
    BY <1>1, WalkLevels
  <2>2. WalkOf(m, s, v)[l] # t
    BY <2>1, DataAssumption DEF OnWay, Forest
  <2> QED BY <1>2, <2>2 DEF Below
<1>4. \A l \in 1 .. Depth : WalkOf(n, s, v)[l] = WalkOf(m, s, v)[l]
  <2> QED BY <1>1, <1>3, WalkKept
<1>5. WalkOf(n, s, v)[Depth] = WalkOf(m, s, v)[Depth]
  BY <1>1, <1>4
<1>6. t \in Tables /\ m[t] \in [Index -> Entry \cup {None}] /\ n[t] = [m[t] EXCEPT ![i] = e]
  BY DEF Forest, Table, Rewritten
<1>7. n[t][i] = e /\ \A j \in Index : j # i => n[t][j] = m[t][j]
  BY <1>6
<1>8. v[Depth] \in Index
  BY <1>1
<1>9. FoundIn(n, s, v) = IF WalkOf(m, s, v)[Depth] \in Tables THEN n[WalkOf(m, s, v)[Depth]][v[Depth]] ELSE None
  BY <1>5 DEF FoundIn
<1>10. CASE WalkOf(m, s, v)[Depth] = t /\ v[Depth] = i
  BY <1>4, <1>6, <1>7, <1>9, <1>10
<1>11. CASE ~(WalkOf(m, s, v)[Depth] = t /\ v[Depth] = i)
  BY <1>2, <1>4, <1>6, <1>7, <1>8, <1>9, <1>11 DEF FoundIn
<1> QED BY <1>10, <1>11

(* A new table, empty, below an entry that was not there. *)
Grown(m, n, t, i, e, f) == n = [m EXCEPT ![f] = Zero, ![t][i] = e]

LEMMA Growth ==
    ASSUME NEW m \in [Tables -> Table], NEW used, NEW tops, NEW lev, NEW low,
           Forest(m, used, tops, lev, low),
           NEW t \in used, NEW i \in Index, lev[t] # Depth, m[t][i] = None,
           NEW f \in Tables \ used, NEW e, e # None, e.frame = f,
           NEW n, Grown(m, n, t, i, e, f),
           NEW s \in tops, NEW v \in Pages
    PROVE  /\ \A l \in 1 .. lev[t] : WalkOf(n, s, v)[l] = WalkOf(m, s, v)[l]
           /\ FoundIn(n, s, v) = FoundIn(m, s, v)
<1> DEFINE k == lev[t]
           r == WalkOf(m, s, v)
           q == WalkOf(n, s, v)
<1>1. Depth \in Nat \ {0, 1} /\ v \in [1 .. Depth -> Index] /\ Depth \in 1 .. Depth /\ 1 \in 1 .. Depth
  BY PagesAssumption
<1>2. t \in Tables /\ f \in Tables /\ t # f /\ k \in 1 .. Depth - 1 /\ k \in 1 .. Depth
  BY <1>1 DEF Forest
<1>3. /\ \A a \in Tables : a # t /\ a # f => n[a] = m[a]
      /\ n[f] = Zero /\ n[t] = [m[t] EXCEPT ![i] = e] /\ m[t] \in [Index -> Entry \cup {None}]
  BY <1>2 DEF Table, Grown
<1>4. n[t][i] = e /\ \A j \in Index : j # i => n[t][j] = m[t][j]
  BY <1>3
<1>5. ASSUME NEW l \in 1 .. Depth - 1, ~(r[l] = t /\ v[l] = i)
      PROVE  Below(n, r[l], v[l]) = Below(m, r[l], v[l])
  <2>1. OnWay(used, lev, low, v, l, r[l]) /\ v[l] \in Index
    BY <1>1, WalkLevels
  <2>2. r[l] # f
    BY <2>1, DataAssumption, <1>2 DEF OnWay
  <2> QED BY <1>3, <1>4, <1>5, <2>1, <2>2 DEF Below
<1>6. \A l \in 1 .. Depth - 1 : r[l] = t => l = k
  <2> TAKE l \in 1 .. Depth - 1
  <2>1. OnWay(used, lev, low, v, l, r[l])
    BY <1>1, WalkLevels
  <2> QED BY <2>1, <1>2, DataAssumption DEF OnWay
<1>7. q[1] = r[1]
  BY WalkSteps
<1>8. \A l \in 1 .. k : q[l] = r[l]
  <2>1. \A l \in 1 .. k - 1 : l \in 1 .. Depth - 1 /\ l # k
    BY <1>1, <1>2
  <2>2. \A l \in 1 .. k - 1 : Below(n, r[l], v[l]) = Below(m, r[l], v[l])
    BY <2>1, <1>5, <1>6
  <2> HIDE DEF k
  <2> QED BY <1>2, <2>2, WalkKept
<1>9. CASE r[k] = t /\ v[k] = i
  <2>1. r[k + 1] = None /\ q[k + 1] = f
    <3>1. r[k + 1] = Below(m, r[k], v[k]) /\ q[k + 1] = Below(n, q[k], v[k])
      <4> HIDE DEF k
      <4> QED BY <1>2, WalkSteps
    <3>2. q[k] = r[k]
      <4> HIDE DEF r, q
      <4> QED BY <1>2, <1>8
    <3> QED BY <3>1, <3>2, <1>2, <1>4, <1>9 DEF Below
  <2>2. k + 1 \in 1 .. Depth /\ Depth \in k + 1 .. Depth
    BY <1>1, <1>2
  <2>3. r[Depth] = None
    BY <2>1, <2>2, WalkEnds
  <2>4. FoundIn(m, s, v) = None
    BY <2>3, DataAssumption DEF FoundIn
  <2>5. FoundIn(n, s, v) = None
    <3>1. CASE k + 1 = Depth
      BY <3>1, <2>1, <1>1, <1>2, <1>3 DEF FoundIn, Zero
    <3>2. CASE k + 1 # Depth
      <4>1. k + 1 \in 1 .. Depth - 1 /\ k + 1 + 1 \in 1 .. Depth /\ Depth \in k + 1 + 1 .. Depth
            /\ v[k + 1] \in Index
        BY <3>2, <1>1, <1>2
      <4>2. q[k + 1 + 1] = Below(n, f, v[k + 1])
        BY <4>1, <2>1, WalkSteps
      <4>3. q[k + 1 + 1] = None
        BY <4>1, <4>2, <1>2, <1>3 DEF Below, Zero
      <4>4. q[Depth] = None
        BY <4>1, <4>3, WalkEnds
      <4> QED BY <4>4, DataAssumption DEF FoundIn
    <3> QED BY <3>1, <3>2
  <2> QED BY <1>8, <2>4, <2>5
<1>10. CASE ~(r[k] = t /\ v[k] = i)
  <2>1. \A l \in 1 .. Depth - 1 : Below(n, r[l], v[l]) = Below(m, r[l], v[l])
    BY <1>5, <1>6, <1>10
  <2>2. \A l \in 1 .. Depth : q[l] = r[l]
    BY <1>1, <2>1, WalkKept
  <2>3. q[Depth] = r[Depth] /\ OnWay(used, lev, low, v, Depth, r[Depth])
    BY <1>1, <2>2, WalkLevels
  <2>4. r[Depth] \in Tables => r[Depth] # f /\ r[Depth] # t
    BY <2>3, <1>2, DataAssumption DEF OnWay
  <2> QED BY <1>3, <1>8, <2>3, <2>4 DEF FoundIn
<1> QED BY <1>9, <1>10

(* A new top, with the kernel's half of the loader's. *)
FreshOf(m) == [i \in Index |-> IF i \in KernelIndex THEN m[Boot][i] ELSE None]
Topped(m, n, f) == n = [m EXCEPT ![f] = FreshOf(m)]

LEMMA NewTop ==
    ASSUME NEW m \in [Tables -> Table], NEW used, NEW tops, NEW lev, NEW low,
           Forest(m, used, tops, lev, low), Sharing(m, tops), Boot \in tops,
           NEW f \in Tables \ used, NEW n, Topped(m, n, f), NEW v \in Pages
    PROVE  /\ \A s \in tops : /\ \A l \in 1 .. Depth : WalkOf(n, s, v)[l] = WalkOf(m, s, v)[l]
                              /\ FoundIn(n, s, v) = FoundIn(m, s, v)
           /\ FoundIn(n, f, v) = IF Upper(v) THEN FoundIn(m, Boot, v) ELSE None
<1>1. /\ Depth \in Nat \ {0, 1} /\ v \in [1 .. Depth -> Index] /\ v[1] \in Index
      /\ Depth \in 1 .. Depth /\ Depth \in 2 .. Depth /\ 2 \in 1 .. Depth /\ 1 \in 1 .. Depth - 1
  BY PagesAssumption
<1>2. \A a \in Tables : a # f => n[a] = m[a]
  BY DEF Topped
<1>3. n[f][v[1]] = IF Upper(v) THEN m[Boot][v[1]] ELSE None
  <2>1. n[f] = FreshOf(m)
    BY DEF Topped
  <2> QED BY <1>1, <2>1 DEF FreshOf, Upper
<1>4. ASSUME NEW s \in tops, NEW l \in 1 .. Depth
      PROVE  WalkOf(m, s, v)[l] # f
  <2>1. OnWay(used, lev, low, v, l, WalkOf(m, s, v)[l])
    BY WalkLevels
  <2> QED BY <2>1, DataAssumption DEF OnWay
<1>5. ASSUME NEW s \in tops, NEW l \in 1 .. Depth - 1
      PROVE  Below(n, WalkOf(m, s, v)[l], v[l]) = Below(m, WalkOf(m, s, v)[l], v[l])
  <2>1. l \in 1 .. Depth
    BY <1>1
  <2> QED BY <2>1, <1>2, <1>4 DEF Below
<1>6. ASSUME NEW s \in tops
      PROVE  /\ \A l \in 1 .. Depth : WalkOf(n, s, v)[l] = WalkOf(m, s, v)[l]
             /\ FoundIn(n, s, v) = FoundIn(m, s, v)
  <2>1. \A l \in 1 .. Depth : WalkOf(n, s, v)[l] = WalkOf(m, s, v)[l]
    BY <1>1, <1>5, WalkKept
  <2>2. WalkOf(n, s, v)[Depth] = WalkOf(m, s, v)[Depth] /\ WalkOf(m, s, v)[Depth] # f
    BY <1>1, <1>4, <2>1
  <2> QED BY <1>2, <2>1, <2>2 DEF FoundIn
<1>7. WalkOf(n, f, v)[2] = Below(n, f, v[1]) /\ WalkOf(m, Boot, v)[2] = Below(m, Boot, v[1])
  <2>1. 1 + 1 = 2
    OBVIOUS
  <2> QED BY <1>1, <2>1, WalkSteps
<1>8. CASE Upper(v)
  <2>1. WalkOf(n, f, v)[2] = WalkOf(m, Boot, v)[2]
    BY <1>3, <1>7, <1>8 DEF Below, Forest
  <2>2. \A l \in 2 .. Depth - 1 :
           Below(n, WalkOf(m, Boot, v)[l], v[l]) = Below(m, WalkOf(m, Boot, v)[l], v[l])
    BY <1>1, <1>5
  <2>3. \A l \in 2 .. Depth : WalkOf(n, f, v)[l] = WalkOf(m, Boot, v)[l]
    BY <2>1, <2>2, WalksMeet
  <2>4. WalkOf(n, f, v)[Depth] = WalkOf(m, Boot, v)[Depth] /\ WalkOf(m, Boot, v)[Depth] # f
    BY <1>1, <1>4, <2>3
  <2>5. FoundIn(n, f, v) = FoundIn(m, Boot, v)
    BY <1>2, <2>4 DEF FoundIn
  <2> QED BY <1>6, <1>8, <2>5
<1>9. CASE ~Upper(v)
  <2>1. WalkOf(n, f, v)[2] = None
    BY <1>3, <1>7, <1>9 DEF Below
  <2>2. WalkOf(n, f, v)[Depth] = None
    BY <1>1, <2>1, WalkEnds
  <2> QED BY <1>6, <1>9, <2>2, DataAssumption DEF FoundIn
<1> QED BY <1>8, <1>9

-----------------------------------------------------------------------------
(* The same changes keep the shape of the tables. *)
LeafFits(e, lower) ==
    /\ e \in Entry \cup {None}
    /\ e # None => e.frame \in Data /\ IF lower THEN "U" \in e.flags /\ "G" \notin e.flags ELSE "U" \notin e.flags

LEMMA LeafKeeps ==
    ASSUME NEW m \in [Tables -> Table], NEW used, NEW tops, NEW lev, NEW low,
           Forest(m, used, tops, lev, low), SingleParent(m, used, tops), Sharing(m, tops), Boot \in tops,
           NEW t \in used, NEW i \in Index, NEW e, lev[t] = Depth,
           LeafFits(e, Lower(lev, low, t, i)), NEW n, Rewritten(m, n, t, i, e)
    PROVE  n \in [Tables -> Table] /\ Forest(n, used, tops, lev, low) /\ SingleParent(n, used, tops) /\ Sharing(n, tops)
<1>1. Depth \in Nat \ {0, 1} /\ t \in Tables /\ used \subseteq Tables /\ tops \subseteq used /\ t \notin tops
  BY PagesAssumption DEF Forest
<1>2. m[t] \in [Index -> Entry \cup {None}] /\ n[t] = [m[t] EXCEPT ![i] = e] /\ \A a \in Tables : a # t => n[a] = m[a]
  BY <1>1 DEF Table, Rewritten
<1>3. n[t][i] = e /\ \A j \in Index : j # i => n[t][j] = m[t][j]
  BY <1>2
<1>4. n \in [Tables -> Table]
  BY <1>1 DEF Table, Rewritten, LeafFits
<1>5. \A a \in used, j \in Index : n[a][j] = m[a][j] \/ (a = t /\ j = i /\ n[a][j] = e)
  BY <1>1, <1>2, <1>3
<1>6. Forest(n, used, tops, lev, low)
  <2>1. ASSUME NEW a \in used, NEW j \in Index, n[a][j] # None
        PROVE  EntryFits(used, lev, low, a, j, n[a][j])
    <3>1. CASE n[a][j] = m[a][j]
      BY <2>1, <3>1 DEF Forest
    <3>2. CASE a = t /\ j = i /\ n[a][j] = e
      BY <2>1, <3>2 DEF EntryFits, LeafFits
    <3> QED BY <1>5, <3>1, <3>2
  <2> QED BY <2>1 DEF Forest
<1>7. SingleParent(n, used, tops)
  <2> SUFFICES ASSUME NEW a \in used, NEW b \in used, NEW j \in Index, NEW k \in Index,
                      n[a][j] # None, n[b][k] # None, n[a][j].frame = n[b][k].frame, n[a][j].frame \in Tables
               PROVE  (a = b /\ j = k) \/ (j = k /\ j \in KernelIndex /\ a \in tops /\ b \in tops)
    BY DEF SingleParent
  <2>1. e # None => e.frame \notin Tables
    BY FramesAssumption DEF LeafFits
  <2>2. n[a][j] = m[a][j] /\ n[b][k] = m[b][k]
    BY <1>5, <2>1
  <2> QED BY <2>2 DEF SingleParent
<1>8. Sharing(n, tops)
  <2>1. \A s \in tops : n[s] = m[s]
    BY <1>1, <1>2
  <2> QED BY <2>1 DEF Sharing
<1> QED BY <1>4, <1>6, <1>7, <1>8

LEMMA GrowthKeeps ==
    ASSUME NEW m \in [Tables -> Table], NEW used, NEW tops, NEW lev, NEW low,
           Forest(m, used, tops, lev, low), SingleParent(m, used, tops), Sharing(m, tops), Boot \in tops,
           NEW t \in used, NEW i \in Index, lev[t] # Depth, m[t][i] = None,
           NEW f \in Tables \ used, NEW e \in Entry, e.frame = f,
           Lower(lev, low, t, i) => "U" \in e.flags, "G" \notin e.flags,
           NEW n, Grown(m, n, t, i, e, f)
    PROVE  /\ n \in [Tables -> Table]
           /\ \E lev2, low2 : Forest(n, used \cup {f}, tops, lev2, low2)
           /\ SingleParent(n, used \cup {f}, tops) /\ Sharing(n, tops)
<1> DEFINE lev2 == [lev EXCEPT ![f] = lev[t] + 1]
           low2 == IF Lower(lev, low, t, i) THEN low \cup {f} ELSE low \ {f}
<1>1. /\ Depth \in Nat \ {0, 1} /\ t \in Tables /\ f \in Tables /\ t # f
      /\ used \subseteq Tables /\ tops \subseteq used /\ lev[t] \in 1 .. Depth - 1
  BY PagesAssumption DEF Forest
<1>2. /\ \A a \in Tables : a # t /\ a # f => n[a] = m[a]
      /\ n[f] = Zero /\ n[t] = [m[t] EXCEPT ![i] = e] /\ m[t] \in [Index -> Entry \cup {None}]
  BY <1>1 DEF Table, Grown
<1>3. n[t][i] = e /\ \A j \in Index : j # i => n[t][j] = m[t][j]
  BY <1>2
<1>4. n \in [Tables -> Table]
  <2>1. Zero \in Table /\ [m[t] EXCEPT ![i] = e] \in Table
    BY <1>2 DEF Zero, Table
  <2> QED BY <1>1, <2>1 DEF Grown
<1>5. \A a \in used \cup {f}, j \in Index :
         n[a][j] # None => a \in used /\ (n[a][j] = m[a][j] \/ (a = t /\ j = i /\ n[a][j] = e))
  <2>1. \A j \in Index : n[f][j] = None
    BY <1>2 DEF Zero
  <2>2. \A a \in used : a # t => n[a] = m[a]
    BY <1>1, <1>2
  <2> QED BY <1>3, <2>1, <2>2
<1>6. /\ lev2 \in [Tables -> 1 .. Depth] /\ lev2[f] = lev[t] + 1 /\ (f \in low2 <=> Lower(lev, low, t, i))
      /\ \A a \in used : lev2[a] = lev[a] /\ (a \in low2 <=> a \in low)
  BY <1>1 DEF Forest
<1> HIDE DEF lev2, low2
<1>7. \A a \in used, j \in Index : Lower(lev2, low2, a, j) <=> Lower(lev, low, a, j)
  BY <1>6 DEF Lower
<1>8. Forest(n, used \cup {f}, tops, lev2, low2)
  <2>1. ASSUME NEW a \in used \cup {f}, NEW j \in Index, n[a][j] # None
        PROVE  EntryFits(used \cup {f}, lev2, low2, a, j, n[a][j])
    <3>1. CASE a \in used /\ n[a][j] = m[a][j]
      <4>1. EntryFits(used, lev, low, a, j, n[a][j])
        BY <2>1, <3>1 DEF Forest
      <4> QED BY <4>1, <3>1, <1>6, <1>7 DEF EntryFits
    <3>2. CASE a = t /\ j = i /\ n[a][j] = e
      BY <3>2, <1>1, <1>6, <1>7 DEF EntryFits
    <3> QED BY <2>1, <1>5, <3>1, <3>2
  <2>2. \A s \in tops : lev2[s] = 1
    BY <1>1, <1>6 DEF Forest
  <2> QED BY <1>1, <1>6, <2>1, <2>2 DEF Forest
<1>9. SingleParent(n, used \cup {f}, tops)
  <2> SUFFICES ASSUME NEW a \in used \cup {f}, NEW b \in used \cup {f}, NEW j \in Index, NEW k \in Index,
                      n[a][j] # None, n[b][k] # None, n[a][j].frame = n[b][k].frame, n[a][j].frame \in Tables
               PROVE  (a = b /\ j = k) \/ (j = k /\ j \in KernelIndex /\ a \in tops /\ b \in tops)
    BY DEF SingleParent
  <2>1. \A c \in used, l \in Index : m[c][l] # None /\ m[c][l].frame \in Tables => m[c][l].frame # f
    BY FramesAssumption DEF Forest, EntryFits
  <2>2. a \in used /\ b \in used
    BY <1>5
  <2>3. CASE n[a][j] = m[a][j] /\ n[b][k] = m[b][k]
    BY <2>2, <2>3 DEF SingleParent
  <2>4. CASE a = t /\ j = i /\ n[a][j] = e /\ b = t /\ k = i
    BY <2>4
  <2>5. CASE a = t /\ j = i /\ n[a][j] = e /\ n[b][k] = m[b][k]
    BY <2>1, <2>2, <2>5
  <2>6. CASE b = t /\ k = i /\ n[b][k] = e /\ n[a][j] = m[a][j]
    BY <2>1, <2>2, <2>6
  <2> QED BY <1>5, <2>3, <2>4, <2>5, <2>6
<1>10. Sharing(n, tops)
  <2>1. ASSUME NEW s \in tops, NEW v \in Pages, Upper(v) PROVE n[s][v[1]] = m[s][v[1]]
    <3>1. m[s][v[1]] # None /\ v[1] \in Index /\ s \in Tables /\ s # f
      BY <1>1, <2>1, PagesAssumption DEF Sharing
    <3> QED BY <3>1, <1>2, <1>3
  <2> QED BY <2>1 DEF Sharing
<1> QED BY <1>4, <1>8, <1>9, <1>10

LEMMA TopKeeps ==
    ASSUME NEW m \in [Tables -> Table], NEW used, NEW tops, NEW lev, NEW low,
           Forest(m, used, tops, lev, low), SingleParent(m, used, tops), Sharing(m, tops), Boot \in tops,
           NEW f \in Tables \ used, NEW n, Topped(m, n, f)
    PROVE  /\ n \in [Tables -> Table]
           /\ \E lev2, low2 : Forest(n, used \cup {f}, tops \cup {f}, lev2, low2)
           /\ SingleParent(n, used \cup {f}, tops \cup {f}) /\ Sharing(n, tops \cup {f})
<1> DEFINE lev2 == [lev EXCEPT ![f] = 1]
<1>1. /\ Depth \in Nat \ {0, 1} /\ f \in Tables /\ Boot \in used /\ Boot # f /\ lev[Boot] = 1
      /\ used \subseteq Tables /\ tops \subseteq used
  BY PagesAssumption DEF Forest
<1>2. (\A a \in Tables : a # f => n[a] = m[a]) /\ n[f] = FreshOf(m) /\ m[Boot] \in [Index -> Entry \cup {None}]
  BY <1>1 DEF Table, Topped
<1>3. \A i \in Index : n[f][i] = IF i \in KernelIndex THEN m[Boot][i] ELSE None
  BY <1>2 DEF FreshOf
<1>4. n \in [Tables -> Table]
  <2>1. FreshOf(m) \in Table
    BY <1>2 DEF FreshOf, Table
  <2> QED BY <2>1 DEF Topped
<1>5. /\ lev2 \in [Tables -> 1 .. Depth] /\ lev2[f] = 1
      /\ \A a \in used : lev2[a] = lev[a]
  BY <1>1 DEF Forest
<1> HIDE DEF lev2
<1>6. \A a \in used, j \in Index : Lower(lev2, low, a, j) <=> Lower(lev, low, a, j)
  BY <1>5 DEF Lower
<1>7. Forest(n, used \cup {f}, tops \cup {f}, lev2, low)
  <2>1. ASSUME NEW a \in used, NEW j \in Index, m[a][j] # None
        PROVE  EntryFits(used \cup {f}, lev2, low, a, j, m[a][j])
    <3>1. EntryFits(used, lev, low, a, j, m[a][j])
      BY <2>1 DEF Forest
    <3> QED BY <3>1, <1>5, <1>6 DEF EntryFits
  <2>2. ASSUME NEW j \in Index, n[f][j] # None
        PROVE  EntryFits(used \cup {f}, lev2, low, f, j, n[f][j])
    <3>1. j \in KernelIndex /\ n[f][j] = m[Boot][j]
      BY <1>3, <2>2
    <3>2. EntryFits(used \cup {f}, lev2, low, Boot, j, m[Boot][j])
      BY <1>1, <2>1, <2>2, <3>1
    <3>3. lev2[Boot] = 1
      BY <1>1, <1>5
    <3>4. Lower(lev2, low, f, j) <=> Lower(lev2, low, Boot, j)
      BY <1>5, <3>3 DEF Lower
    <3> QED BY <1>5, <3>1, <3>2, <3>3, <3>4 DEF EntryFits
  <2>3. \A s \in tops \cup {f} : lev2[s] = 1
    BY <1>1, <1>5 DEF Forest
  <2>4. \A a \in used : n[a] = m[a]
    BY <1>1, <1>2
  <2> QED BY <1>1, <1>5, <2>1, <2>2, <2>3, <2>4 DEF Forest
<1>8. SingleParent(n, used \cup {f}, tops \cup {f})
  <2> DEFINE Source(a) == IF a = f THEN Boot ELSE a
  <2>1. ASSUME NEW a \in used \cup {f}, NEW j \in Index, n[a][j] # None
        PROVE  /\ Source(a) \in used /\ n[a][j] = m[Source(a)][j]
               /\ a = f => j \in KernelIndex
    BY <1>1, <1>2, <1>3, <2>1
  <2>2. ASSUME NEW a \in used \cup {f}, NEW b \in used \cup {f}, NEW j \in Index, NEW k \in Index,
               n[a][j] # None, n[b][k] # None, n[a][j].frame = n[b][k].frame, n[a][j].frame \in Tables
        PROVE  (a = b /\ j = k) \/ (j = k /\ j \in KernelIndex /\ a \in tops \cup {f} /\ b \in tops \cup {f})
    <3>1. \/ Source(a) = Source(b) /\ j = k
          \/ j = k /\ j \in KernelIndex /\ Source(a) \in tops /\ Source(b) \in tops
      <4>1. Source(a) \in used /\ Source(b) \in used /\ n[a][j] = m[Source(a)][j] /\ n[b][k] = m[Source(b)][k]
        BY <2>1, <2>2
      <4> HIDE DEF Source
      <4> QED BY <2>2, <4>1 DEF SingleParent
    <3>2. (a = f \/ b = f) => (j \in KernelIndex /\ k \in KernelIndex) \/ j # k
      BY <2>1, <2>2
    <3> QED BY <3>1, <3>2
  <2> QED BY <2>2 DEF SingleParent
<1>9. Sharing(n, tops \cup {f})
  <2>1. ASSUME NEW s \in tops \cup {f}, NEW v \in Pages, Upper(v)
        PROVE  n[s][v[1]] # None /\ n[s][v[1]] = n[Boot][v[1]]
    <3>1. v[1] \in Index /\ v[1] \in KernelIndex /\ m[Boot][v[1]] # None /\ n[Boot] = m[Boot]
      BY <1>1, <1>2, <2>1, PagesAssumption DEF Sharing, Upper
    <3>2. CASE s = f
      BY <1>3, <3>1, <3>2
    <3>3. CASE s # f
      BY <1>1, <1>2, <2>1, <3>1, <3>3 DEF Sharing
    <3> QED BY <3>2, <3>3
  <2> QED BY <2>1 DEF Sharing
<1> QED BY <1>4, <1>7, <1>8, <1>9

(* The entry that the walk of page p from top c ends at belongs to p alone, in c
   or, in the kernel's half, in all spaces. *)
LEMMA EntryChange ==
    ASSUME NEW m \in [Tables -> Table], NEW used, NEW tops, NEW lev, NEW low,
           Forest(m, used, tops, lev, low), SingleParent(m, used, tops), Sharing(m, tops),
           NEW c \in tops, NEW p \in Pages, NEW t \in used, WalkOf(m, c, p)[Depth] = t,
           NEW e, NEW n, Rewritten(m, n, t, p[Depth], e), NEW s \in tops, NEW v \in Pages
    PROVE  FoundIn(n, s, v) = IF v = p /\ (s = c \/ Upper(v)) THEN e ELSE FoundIn(m, s, v)
<1>1. /\ Depth \in Nat \ {0, 1} /\ v \in [1 .. Depth -> Index] /\ p \in [1 .. Depth -> Index]
      /\ Depth \in 1 .. Depth /\ Depth \in 2 .. Depth /\ p[Depth] \in Index
  BY PagesAssumption
<1>2. t # None /\ lev[t] = Depth
  <2>1. OnWay(used, lev, low, p, Depth, t)
    BY <1>1, WalkLevels
  <2>2. t # None
    BY DataAssumption DEF Forest
  <2> QED BY <2>1, <2>2 DEF OnWay
<1>3. FoundIn(n, s, v) = IF WalkOf(m, s, v)[Depth] = t /\ v[Depth] = p[Depth] THEN e ELSE FoundIn(m, s, v)
  <2> DEFINE i == p[Depth]
  <2>1. i \in Index /\ Rewritten(m, n, t, i, e)
    BY <1>1
  <2> HIDE DEF i
  <2>2. FoundIn(n, s, v) = IF WalkOf(m, s, v)[Depth] = t /\ v[Depth] = i THEN e ELSE FoundIn(m, s, v)
    BY <1>2, <2>1, LeafChange
  <2> QED BY <2>2 DEF i
<1>4. ASSUME WalkOf(m, s, v)[Depth] = t, v[Depth] = p[Depth] PROVE v = p /\ (s = c \/ Upper(v))
  <2>1. (\A k \in 1 .. Depth - 1 : v[k] = p[k]) /\ (Depth # 1 /\ ~Upper(v) => s = c)
    <3>1. WalkOf(m, s, v)[Depth] = WalkOf(m, c, p)[Depth] /\ WalkOf(m, s, v)[Depth] # None
      BY <1>2, <1>4
    <3> QED BY <1>1, <3>1, OneWay
  <2>2. \A k \in 1 .. Depth : v[k] = p[k]
    BY <2>1, <1>1, <1>4
  <2>3. v = p
    BY <2>2, <1>1
  <2> QED BY <2>1, <2>3, <1>1
<1>5. ASSUME v = p, s = c \/ Upper(v) PROVE WalkOf(m, s, v)[Depth] = t
  <2>1. CASE s = c
    BY <2>1, <1>5
  <2>2. CASE Upper(v)
    <3>1. \A l \in 2 .. Depth : WalkOf(m, s, v)[l] = WalkOf(m, c, v)[l]
      BY <2>2, SharedWalks
    <3> QED BY <3>1, <1>1, <1>5
  <2> QED BY <1>5, <2>1, <2>2
<1> QED BY <1>3, <1>4, <1>5

-----------------------------------------------------------------------------
(* The inductive invariant. *)
InvType ==
    /\ mem \in [Tables -> Table] /\ pool \subseteq Frames
    /\ spaces \subseteq InUse /\ Boot \in spaces /\ cr3 \in spaces
    /\ tlb \subseteq [page : Pages, entry : Entry]
    /\ pc \in {"idle", "walk", "entry"}
    /\ table \in Tables /\ level \in 1 .. Depth /\ rc \in {"ok", "failed"}

Shape(m, used, tops) ==
    (\E lev, low : Forest(m, used, tops, lev, low)) /\ SingleParent(m, used, tops) /\ Sharing(m, tops)

InvShape == Shape(mem, InUse, spaces)

Suit(v, flags) == IF Upper(v) THEN "U" \notin flags ELSE "U" \in flags /\ "G" \notin flags

Calls == [op : {"map", "unmap", "unmap_all"}, pages : Seq(Pages) \ {<<>>}, frame : Data \cup {None},
          flags : SUBSET Flags, back : Tables \cup {None}]

InvCall ==
    pc # "idle" =>
        /\ call \in Calls /\ call.back \in spaces \cup {None}
        /\ call.op = "map" => /\ call.frame \in Data
                              /\ \A k \in DOMAIN call.pages : Suit(call.pages[k], call.flags)

InvWalk ==
    pc # "idle" =>
        /\ table \in InUse /\ WalkOf(mem, cr3, Page)[level] = table
        /\ pc = "entry" => level = Depth /\ (call.op = "map" => mem[table][Page[level]] # None)

InvTlb == \A x \in tlb : FoundIn(mem, cr3, x.page) = x.entry \/ (pc = "entry" /\ x.page = Page)

IInv == InvType /\ InvShape /\ InvCall /\ InvWalk /\ InvTlb

-----------------------------------------------------------------------------
LEMMA InitIInv == Init => IInv
<1> SUFFICES ASSUME Init PROVE IInv
  OBVIOUS
<1>1. PICK lev0 \in [LoaderFrames -> 1 .. Depth] :
          \A t \in LoaderFrames :
             /\ lev0[t] = 1 <=> t = Boot
             /\ \A i \in Index :
                   LET e == LoaderTables[t][i] IN
                   e # None => IF lev0[t] = Depth THEN e.frame \in Data /\ "U" \notin e.flags
                               ELSE e.frame \in LoaderFrames /\ lev0[e.frame] = lev0[t] + 1
  BY LoaderTreeAssumption
<1>2. InUse = LoaderFrames /\ Boot \in LoaderFrames /\ Depth \in Nat \ {0, 1}
  BY FramesAssumption, LoaderAssumption, PagesAssumption DEF Init, InUse, Tables
<1>3. Junk \in Table
  <2>1. (CHOOSE d \in Data : TRUE) \in Data
    BY DataAssumption
  <2> QED BY <2>1 DEF Junk, Table, Entry, Flags
<1>4. mem \in [Tables -> Table] /\ \A t \in LoaderFrames : mem[t] = LoaderTables[t]
  <2>1. \A f \in Tables : (IF f \in Frames THEN Junk ELSE LoaderTables[f]) \in Table
    BY <1>3, LoaderAssumption DEF Tables
  <2> QED BY <2>1, FramesAssumption DEF Init, Tables
<1>5. InvType
  BY <1>2, <1>4 DEF Init, InvType, Tables
<1>6. InvShape
  <2> DEFINE lev == [t \in Tables |-> IF t \in LoaderFrames THEN lev0[t] ELSE 1]
  <2>1. lev \in [Tables -> 1 .. Depth] /\ \A t \in LoaderFrames : lev[t] = lev0[t]
    BY <1>2 DEF Tables
  <2> HIDE DEF lev
  <2>2. ASSUME NEW t \in LoaderFrames, NEW i \in Index, mem[t][i] # None
        PROVE  EntryFits(LoaderFrames, lev, {}, t, i, mem[t][i])
    <3>1. ~Lower(lev, {}, t, i)
      BY <1>1, <1>4, <2>1, <2>2, LoaderTreeAssumption DEF Lower
    <3> QED BY <1>1, <1>4, <2>1, <2>2, <3>1 DEF EntryFits
  <2>3. Forest(mem, LoaderFrames, {Boot}, lev, {})
    BY <1>1, <1>2, <2>1, <2>2 DEF Forest, Tables
  <2>4. SingleParent(mem, LoaderFrames, {Boot})
    <3> SUFFICES ASSUME NEW t \in LoaderFrames, NEW u \in LoaderFrames, NEW i \in Index, NEW j \in Index,
                        mem[t][i] # None, mem[u][j] # None, mem[t][i].frame = mem[u][j].frame,
                        mem[t][i].frame \in Tables
                 PROVE  t = u /\ i = j
      BY DEF SingleParent
    <3>1. mem[t][i].frame \in LoaderFrames
      BY <2>2, FramesAssumption DEF EntryFits
    <3> QED BY <1>4, <3>1, LoaderTreeAssumption
  <2>5. Sharing(mem, {Boot})
    BY <1>2, <1>4, LoaderTreeAssumption DEF Sharing
  <2> QED BY <1>2, <2>3, <2>4, <2>5 DEF InvShape, Shape, Init
<1>7. InvCall /\ InvWalk /\ InvTlb
  BY DEF Init, InvCall, InvWalk, InvTlb
<1> QED BY <1>5, <1>6, <1>7 DEF IInv

(* Where a call is. *)
LEMMA Walking ==
    ASSUME IInv, pc # "idle"
    PROVE  /\ call \in Calls /\ Page \in Pages /\ Page[level] \in Index /\ level \in 1 .. Depth
           /\ table \in InUse /\ table \in Tables /\ mem[table][Page[level]] \in Entry \cup {None}
           /\ call.op = "map" => Suit(Page, call.flags) /\ call.frame \in Data
           /\ \A lev, low : Forest(mem, InUse, spaces, lev, low) =>
                 lev[table] = level /\ (Lower(lev, low, table, Page[level]) <=> ~Upper(Page))
<1>1. call \in Calls /\ level \in 1 .. Depth /\ table \in InUse /\ table \in Tables
  BY DEF IInv, InvType, InvCall, InvWalk
<1>2. Page = call.pages[1] /\ 1 \in DOMAIN call.pages /\ call.pages[1] \in Pages
  <2>1. call.pages \in Seq(Pages) /\ call.pages # <<>>
    BY <1>1 DEF Calls
  <2> QED BY <2>1 DEF Page
<1>3. Page[level] \in Index
  BY <1>1, <1>2, PagesAssumption
<1>4. call.op = "map" => Suit(Page, call.flags) /\ call.frame \in Data
  BY <1>2 DEF IInv, InvCall
<1>5. mem[table][Page[level]] \in Entry \cup {None}
  BY <1>1, <1>3 DEF IInv, InvType, Table
<1>6. ASSUME NEW lev, NEW low, Forest(mem, InUse, spaces, lev, low)
      PROVE  lev[table] = level /\ (Lower(lev, low, table, Page[level]) <=> ~Upper(Page))
  <2>1. \A l \in 1 .. Depth : OnWay(InUse, lev, low, Page, l, WalkOf(mem, cr3, Page)[l])
    BY <1>2, <1>6, WalkLevels DEF IInv, InvType
  <2>2. OnWay(InUse, lev, low, Page, level, table)
    BY <1>1, <2>1 DEF IInv, InvWalk
  <2> QED BY <1>1, <2>2, DataAssumption DEF OnWay
<1> QED BY <1>1, <1>2, <1>3, <1>4, <1>5, <1>6

(* An entry of the last level is written. *)
LEMMA Writes ==
    ASSUME IInv, pc # "idle", level = Depth, NEW e, LeafFits(e, ~Upper(Page)),
           NEW n, Rewritten(mem, n, table, Page[level], e)
    PROVE  /\ n \in [Tables -> Table] /\ Shape(n, InUse, spaces)
           /\ n[table][Page[level]] = e /\ WalkOf(n, cr3, Page)[level] = table
           /\ \A s \in spaces, v \in Pages :
                 FoundIn(n, s, v) = IF v = Page /\ (s = cr3 \/ Upper(v)) THEN e ELSE FoundIn(mem, s, v)
<1>1. PICK lev, low : Forest(mem, InUse, spaces, lev, low)
  BY DEF IInv, InvShape, Shape
<1> DEFINE i == Page[level]
<1>2. /\ mem \in [Tables -> Table] /\ SingleParent(mem, InUse, spaces) /\ Sharing(mem, spaces)
      /\ Boot \in spaces /\ cr3 \in spaces
  BY DEF IInv, InvShape, Shape, InvType
<1>3. /\ Page \in Pages /\ i \in Index /\ i = Page[Depth] /\ table \in InUse /\ table \in Tables
      /\ lev[table] = Depth /\ (Lower(lev, low, table, i) <=> ~Upper(Page))
      /\ WalkOf(mem, cr3, Page)[Depth] = table /\ Depth \in 1 .. Depth
  BY <1>1, Walking DEF IInv, InvWalk
<1>4. LeafFits(e, Lower(lev, low, table, i))
  BY <1>3 DEF LeafFits
<1>5. Rewritten(mem, n, table, i, e)
  OBVIOUS
<1> HIDE DEF i
<1>6. n \in [Tables -> Table] /\ Forest(n, InUse, spaces, lev, low) /\ SingleParent(n, InUse, spaces) /\ Sharing(n, spaces)
  BY <1>1, <1>2, <1>3, <1>4, <1>5, LeafKeeps
<1>7. WalkOf(n, cr3, Page)[Depth] = WalkOf(mem, cr3, Page)[Depth]
  <2>1. \A l \in 1 .. Depth : WalkOf(n, cr3, Page)[l] = WalkOf(mem, cr3, Page)[l]
    BY <1>1, <1>2, <1>3, <1>5, LeafChange
  <2> QED BY <1>3, <2>1
<1>8. ASSUME NEW s \in spaces, NEW v \in Pages
      PROVE  FoundIn(n, s, v) = IF v = Page /\ (s = cr3 \/ Upper(v)) THEN e ELSE FoundIn(mem, s, v)
  <2> DEFINE p == Page
  <2>1. p \in Pages /\ WalkOf(mem, cr3, p)[Depth] = table /\ Rewritten(mem, n, table, p[Depth], e)
    BY <1>3, <1>5
  <2> HIDE DEF p
  <2>2. FoundIn(n, s, v) = IF v = p /\ (s = cr3 \/ Upper(v)) THEN e ELSE FoundIn(mem, s, v)
    BY <1>1, <1>2, <1>3, <1>8, <2>1, EntryChange
  <2> QED BY <2>2 DEF p
<1>9. n[table][i] = e
  BY <1>2, <1>3, <1>5 DEF Rewritten, Table
<1> QED BY <1>3, <1>6, <1>7, <1>8, <1>9 DEF Shape, i

(* A table is added on the way. *)
LEMMA Adds ==
    ASSUME IInv, pc = "walk", level < Depth, Current = None, call.op = "map", pool # {},
           NEW n, Grown(mem, n, table, Page[level], Link(Lowest), Lowest)
    PROVE  /\ Lowest \in pool /\ n \in [Tables -> Table] /\ Shape(n, InUse \cup {Lowest}, spaces)
           /\ WalkOf(n, cr3, Page)[level + 1] = Lowest
           /\ \A s \in spaces, v \in Pages : FoundIn(n, s, v) = FoundIn(mem, s, v)
<1>1. PICK lev, low : Forest(mem, InUse, spaces, lev, low)
  BY DEF IInv, InvShape, Shape
<1> DEFINE i == Page[level]
           f == Lowest
           e == Link(Lowest)
<1>2. /\ mem \in [Tables -> Table] /\ SingleParent(mem, InUse, spaces) /\ Sharing(mem, spaces)
      /\ Boot \in spaces /\ cr3 \in spaces /\ pool \subseteq Frames
  BY DEF IInv, InvShape, Shape, InvType
<1>3. /\ Page \in Pages /\ i \in Index /\ table \in InUse /\ table \in Tables /\ call \in Calls
      /\ level \in 1 .. Depth - 1 /\ level \in 1 .. Depth
      /\ lev[table] = level /\ (Lower(lev, low, table, i) <=> ~Upper(Page)) /\ Suit(Page, call.flags)
      /\ WalkOf(mem, cr3, Page)[level] = table /\ mem[table][i] = None
  BY <1>1, Walking, PagesAssumption DEF IInv, InvWalk, Current
<1>4. f \in pool
  <2>1. PICK x \in pool : \A g \in pool : x <= g
    BY <1>2, FramesAssumption, LeastNat
  <2> QED BY <2>1 DEF Lowest
<1>5. f \in Tables \ InUse
  BY <1>2, <1>4 DEF InUse, Tables
<1>6. /\ e \in Entry /\ e.frame = f /\ e # None /\ "G" \notin e.flags
      /\ Lower(lev, low, table, i) => "U" \in e.flags
  <2>1. e = [frame |-> f, flags |-> {"W"} \cup (call.flags \cap {"U"})]
    BY DEF Link
  <2>2. e \in Entry
    BY <2>1, <1>5 DEF Entry, Flags
  <2> QED BY <1>3, <2>1, <2>2, DataAssumption DEF Suit
<1>7. lev[table] # Depth
  BY <1>3, PagesAssumption
<1>8. Grown(mem, n, table, i, e, f)
  OBVIOUS
<1> HIDE DEF i, e, f
<1>9. /\ n \in [Tables -> Table]
      /\ \E lev2, low2 : Forest(n, InUse \cup {f}, spaces, lev2, low2)
      /\ SingleParent(n, InUse \cup {f}, spaces) /\ Sharing(n, spaces)
  BY <1>1, <1>2, <1>3, <1>5, <1>6, <1>7, <1>8, GrowthKeeps
<1>10. ASSUME NEW s \in spaces, NEW v \in Pages
       PROVE  /\ \A l \in 1 .. lev[table] : WalkOf(n, s, v)[l] = WalkOf(mem, s, v)[l]
              /\ FoundIn(n, s, v) = FoundIn(mem, s, v)
  BY <1>1, <1>2, <1>3, <1>5, <1>6, <1>7, <1>8, <1>10, Growth
<1>11. WalkOf(n, cr3, Page)[level + 1] = f
  <2>1. WalkOf(n, cr3, Page)[level] = table
    BY <1>2, <1>3, <1>10
  <2>2. WalkOf(n, cr3, Page)[level + 1] = Below(n, WalkOf(n, cr3, Page)[level], i)
    BY <1>3, WalkSteps DEF i
  <2>3. n[table][i] = e
    <3>1. table # f
      BY <1>3, <1>5
    <3> QED BY <1>2, <1>3, <1>5, <1>8, <3>1 DEF Grown, Table
  <2> QED BY <1>3, <1>6, <2>1, <2>2, <2>3 DEF Below
<1> QED BY <1>4, <1>9, <1>10, <1>11 DEF Shape, f

(* A space is created. *)
LEMMA Creates ==
    ASSUME IInv, pool # {}, NEW n, Topped(mem, n, Lowest)
    PROVE  /\ Lowest \in pool /\ n \in [Tables -> Table] /\ Shape(n, InUse \cup {Lowest}, spaces \cup {Lowest})
           /\ \A s \in spaces, v \in Pages : \A l \in 1 .. Depth : WalkOf(n, s, v)[l] = WalkOf(mem, s, v)[l]
           /\ \A s \in spaces, v \in Pages : FoundIn(n, s, v) = FoundIn(mem, s, v)
           /\ \A v \in Pages : FoundIn(n, Lowest, v) = IF Upper(v) THEN FoundIn(mem, Boot, v) ELSE None
<1>1. PICK lev, low : Forest(mem, InUse, spaces, lev, low)
  BY DEF IInv, InvShape, Shape
<1> DEFINE f == Lowest
<1>2. /\ mem \in [Tables -> Table] /\ SingleParent(mem, InUse, spaces) /\ Sharing(mem, spaces)
      /\ Boot \in spaces /\ cr3 \in spaces /\ pool \subseteq Frames
  BY DEF IInv, InvShape, Shape, InvType
<1>3. f \in pool
  <2>1. PICK x \in pool : \A g \in pool : x <= g
    BY <1>2, FramesAssumption, LeastNat
  <2> QED BY <2>1 DEF Lowest
<1>4. f \in Tables \ InUse /\ Topped(mem, n, f)
  BY <1>2, <1>3 DEF InUse, Tables
<1> HIDE DEF f
<1>5. /\ n \in [Tables -> Table]
      /\ \E lev2, low2 : Forest(n, InUse \cup {f}, spaces \cup {f}, lev2, low2)
      /\ SingleParent(n, InUse \cup {f}, spaces \cup {f}) /\ Sharing(n, spaces \cup {f})
  BY <1>1, <1>2, <1>4, TopKeeps
<1>6. ASSUME NEW v \in Pages
      PROVE  /\ \A s \in spaces : /\ \A l \in 1 .. Depth : WalkOf(n, s, v)[l] = WalkOf(mem, s, v)[l]
                                  /\ FoundIn(n, s, v) = FoundIn(mem, s, v)
             /\ FoundIn(n, f, v) = IF Upper(v) THEN FoundIn(mem, Boot, v) ELSE None
  BY <1>1, <1>2, <1>4, <1>6, NewTop
<1> QED BY <1>3, <1>5, <1>6 DEF Shape, f

(* What a walk from a top finds fits its page. *)
LEMMA Finds ==
    ASSUME NEW m \in [Tables -> Table], NEW used, NEW tops, Shape(m, used, tops),
           NEW s \in tops, NEW v \in Pages
    PROVE  LeafFits(FoundIn(m, s, v), ~Upper(v))
<1> DEFINE t == WalkOf(m, s, v)[Depth]
           i == v[Depth]
<1>1. PICK lev, low : Forest(m, used, tops, lev, low)
  BY DEF Shape
<1>2. i \in Index /\ Depth \in 1 .. Depth
  BY PagesAssumption
<1>3. OnWay(used, lev, low, v, Depth, t)
  BY <1>1, <1>2, WalkLevels
<1>4. FoundIn(m, s, v) = IF t \in Tables THEN m[t][i] ELSE None
  BY DEF FoundIn
<1>5. t \in Tables => lev[t] = Depth /\ t \in used /\ (Lower(lev, low, t, i) <=> ~Upper(v))
  BY <1>3, DataAssumption DEF OnWay
<1> HIDE DEF t, i
<1>6. CASE t \notin Tables \/ m[t][i] = None
  BY <1>4, <1>6 DEF LeafFits
<1>7. CASE t \in Tables /\ m[t][i] # None
  <2>1. EntryFits(used, lev, low, t, i, m[t][i])
    BY <1>1, <1>2, <1>5, <1>7 DEF Forest
  <2>2. m[t][i] \in Entry \cup {None}
    BY <1>2, <1>7 DEF Table
  <2> QED BY <1>4, <1>5, <1>7, <2>1, <2>2 DEF EntryFits, LeafFits
<1> QED BY <1>6, <1>7

(* What a new CR3 leaves in the TLB is true of any space. *)
LEMMA Flushed ==
    ASSUME NEW m \in [Tables -> Table], NEW used, NEW tops, Shape(m, used, tops),
           NEW t \in SUBSET [page : Pages, entry : Entry],
           NEW c \in tops, \A x \in t : FoundIn(m, c, x.page) = x.entry, NEW s \in tops
    PROVE  \A x \in AfterFlush(t) : FoundIn(m, s, x.page) = x.entry
<1> SUFFICES ASSUME NEW x \in t, "G" \in x.entry.flags PROVE FoundIn(m, s, x.page) = x.entry
  BY DEF AfterFlush
<1> DEFINE v == x.page
<1>1. v \in Pages /\ x.entry \in Entry /\ FoundIn(m, c, v) = x.entry /\ x.entry # None
  BY DataAssumption
<1> HIDE DEF v
<1>2. Upper(v)
  <2>1. LeafFits(FoundIn(m, c, v), ~Upper(v))
    BY <1>1, Finds
  <2> QED BY <1>1, <2>1 DEF LeafFits
<1>3. FoundIn(m, s, v) = FoundIn(m, c, v)
  BY <1>1, <1>2, SharedWalks DEF Shape
<1> QED BY <1>1, <1>3 DEF v

-----------------------------------------------------------------------------
(* Every step keeps the invariant. *)
LEMMA BeginInv ==
    ASSUME IInv, NEW op, NEW root, NEW pages, NEW frame, NEW flags, NEW back,
           Begin(op, root, pages, frame, flags, back),
           op \in {"map", "unmap", "unmap_all"}, root \in spaces, pages \in Seq(Pages) \ {<<>>},
           frame \in Data \cup {None}, flags \in SUBSET Flags, back \in spaces \cup {None},
           op = "map" => frame \in Data /\ \A k \in DOMAIN pages : Suit(pages[k], flags),
           cr3' = root, (root = cr3 /\ tlb' = tlb) \/ tlb' = AfterFlush(tlb)
    PROVE  IInv'
<1>1. /\ pc = "idle" /\ pc' = "walk" /\ table' = root /\ level' = 1
      /\ mem' = mem /\ pool' = pool /\ spaces' = spaces /\ rc' = rc
  BY DEF Begin
<1>2. call' = [op |-> op, pages |-> pages, frame |-> frame, flags |-> flags, back |-> back]
  BY DEF Begin
<1>3. InUse' = InUse /\ root \in Tables /\ root \in InUse /\ 1 \in 1 .. Depth
  BY <1>1, PagesAssumption DEF InUse, IInv, InvType
<1>4. InvType'
  <2>1. tlb' \subseteq tlb
    BY DEF AfterFlush
  <2> QED BY <1>1, <1>3, <2>1 DEF IInv, InvType
<1>5. InvShape'
  BY <1>1, <1>3 DEF IInv, InvShape
<1>6. InvCall'
  <2>1. call' \in Calls /\ spaces \subseteq Tables
    BY <1>2 DEF Calls, IInv, InvType, InUse
  <2> QED BY <1>1, <1>2, <2>1 DEF InvCall
<1>7. InvWalk'
  <2>1. WalkOf(mem, root, Page')[1] = root
    BY WalkSteps
  <2> QED BY <1>1, <1>3, <2>1 DEF InvWalk
<1>8. InvTlb'
  <2>1. /\ mem \in [Tables -> Table] /\ Shape(mem, InUse, spaces) /\ cr3 \in spaces
        /\ tlb \in SUBSET [page : Pages, entry : Entry]
        /\ \A x \in tlb : FoundIn(mem, cr3, x.page) = x.entry
    BY <1>1 DEF IInv, InvType, InvShape, InvTlb
  <2>2. \A x \in tlb' : FoundIn(mem, root, x.page) = x.entry
    BY <2>1, Flushed
  <2> QED BY <1>1, <2>2 DEF InvTlb
<1> QED BY <1>4, <1>5, <1>6, <1>7, <1>8 DEF IInv

(* The calls suit their pages. *)
LEMMA CallsInv ==
    ASSUME IInv,
           \/ \E v \in Pages, d \in Data, flags \in UserFlags \cup KernelFlags :
                 /\ Suits(v, flags)
                 /\ \/ vmm_map_page(v, d, flags)
                    \/ \E s \in spaces : vmm_map_page_space(s, v, d, flags)
           \/ \E v \in Pages : vmm_unmap_page(v) \/ \E s \in spaces : vmm_unmap_page_space(s, v)
           \/ \E range \in Devices : \/ \E d \in Data, opts \in MmioOpts : mmio_map(range, d, opts)
                                     \/ mmio_unmap(range)
    PROVE  IInv'
<1>1. cr3 \in spaces
  BY DEF IInv, InvType
<1>2. ASSUME NEW v \in Pages, NEW d \in Data, NEW flags \in UserFlags \cup KernelFlags, Suits(v, flags),
             \/ vmm_map_page(v, d, flags)
             \/ \E s \in spaces : vmm_map_page_space(s, v, d, flags)
      PROVE  IInv'
  <2> DEFINE pages == <<v>>
             kept == Ordinary(flags)
  <2>1. /\ pages \in Seq(Pages) \ {<<>>} /\ kept \in SUBSET Flags
        /\ \A k \in DOMAIN pages : Suit(pages[k], kept)
    <3>1. kept \in SUBSET Flags /\ Suit(v, kept)
      BY <1>2, FlagsAssumption DEF Ordinary, Suits, Suit
    <3> QED BY <3>1
  <2>2. CASE vmm_map_page(v, d, flags)
    <3>1. Begin("map", cr3, pages, d, kept, None) /\ cr3' = cr3 /\ tlb' = tlb
      BY <2>2 DEF vmm_map_page
    <3> HIDE DEF pages, kept
    <3> QED BY <1>1, <2>1, <3>1, BeginInv
  <2>3. ASSUME NEW s \in spaces, vmm_map_page_space(s, v, d, flags) PROVE IInv'
    <3>1. Begin("map", s, pages, d, kept, cr3) /\ cr3' = s /\ tlb' = AfterFlush(tlb)
      BY <2>3 DEF vmm_map_page_space, write_cr3
    <3> HIDE DEF pages, kept
    <3> QED BY <1>1, <2>1, <3>1, BeginInv
  <2> QED BY <1>2, <2>2, <2>3
<1>3. ASSUME NEW v \in Pages, vmm_unmap_page(v) \/ \E s \in spaces : vmm_unmap_page_space(s, v)
      PROVE  IInv'
  <2> DEFINE pages == <<v>>
             none == {}
  <2>1. pages \in Seq(Pages) \ {<<>>} /\ none \in SUBSET Flags
    OBVIOUS
  <2>2. CASE vmm_unmap_page(v)
    <3>1. Begin("unmap", cr3, pages, None, none, None) /\ cr3' = cr3 /\ tlb' = tlb
      BY <2>2 DEF vmm_unmap_page
    <3> HIDE DEF pages, none
    <3> QED BY <1>1, <2>1, <3>1, BeginInv
  <2>3. ASSUME NEW s \in spaces, vmm_unmap_page_space(s, v) PROVE IInv'
    <3>1. Begin("unmap", s, pages, None, none, cr3) /\ cr3' = s /\ tlb' = AfterFlush(tlb)
      BY <2>3 DEF vmm_unmap_page_space, write_cr3
    <3> HIDE DEF pages, none
    <3> QED BY <1>1, <2>1, <3>1, BeginInv
  <2> QED BY <1>3, <2>2, <2>3
<1>4. ASSUME NEW range \in Devices, NEW d \in Data, NEW opts \in MmioOpts, mmio_map(range, d, opts)
      PROVE  IInv'
  <2> DEFINE kept == DeviceFlags(opts)
  <2>1. kept \in SUBSET Flags /\ "U" \notin kept
    BY DEF DeviceFlags, Flags
  <2>2. Begin("map", cr3, range, d, kept, None) /\ cr3' = cr3 /\ tlb' = tlb
    BY <1>4 DEF mmio_map
  <2> HIDE DEF kept
  <2>3. range \in Seq(Pages) \ {<<>>} /\ \A k \in DOMAIN range : Suit(range[k], kept)
    BY <2>1, DevicesAssumption DEF Suit
  <2> QED BY <1>1, <2>1, <2>2, <2>3, BeginInv
<1>5. ASSUME NEW range \in Devices, mmio_unmap(range)
      PROVE  IInv'
  <2> DEFINE none == {}
  <2>1. none \in SUBSET Flags /\ range \in Seq(Pages) \ {<<>>}
    BY DevicesAssumption
  <2>2. Begin("unmap_all", cr3, range, None, none, None) /\ cr3' = cr3 /\ tlb' = tlb
    BY <1>5 DEF mmio_unmap
  <2> HIDE DEF none
  <2> QED BY <1>1, <2>1, <2>2, BeginInv
<1> QED BY <1>2, <1>3, <1>4, <1>5

(* A new space in CR3. *)
LEMMA SwitchInv == ASSUME IInv, NEW s \in spaces, vmm_switch_space(s) PROVE IInv'
<1>1. /\ pc = "idle" /\ cr3' = s /\ tlb' = AfterFlush(tlb)
      /\ mem' = mem /\ pool' = pool /\ spaces' = spaces /\ rc' = rc
      /\ pc' = pc /\ call' = call /\ table' = table /\ level' = level
  BY DEF vmm_switch_space, write_cr3, walk
<1>2. InUse' = InUse
  BY <1>1 DEF InUse
<1>3. InvType'
  BY <1>1, <1>2 DEF IInv, InvType, AfterFlush
<1>4. InvShape' /\ InvCall' /\ InvWalk'
  BY <1>1, <1>2 DEF IInv, InvShape, InvCall, InvWalk
<1>5. InvTlb'
  <2>1. /\ mem \in [Tables -> Table] /\ Shape(mem, InUse, spaces) /\ cr3 \in spaces
        /\ tlb \in SUBSET [page : Pages, entry : Entry]
        /\ \A x \in tlb : FoundIn(mem, cr3, x.page) = x.entry
    BY <1>1 DEF IInv, InvType, InvShape, InvTlb
  <2>2. \A x \in tlb' : FoundIn(mem, s, x.page) = x.entry
    BY <1>1, <2>1, Flushed
  <2> QED BY <1>1, <2>2 DEF InvTlb
<1> QED BY <1>3, <1>4, <1>5 DEF IInv

LEMMA FillInv == ASSUME IInv, NEW v \in Pages, Fill(v) PROVE IInv'
<1>1. /\ FoundIn(mem, cr3, v) # None /\ tlb' = tlb \cup {[page |-> v, entry |-> FoundIn(mem, cr3, v)]}
      /\ cr3' = cr3 /\ mem' = mem /\ pool' = pool /\ spaces' = spaces /\ rc' = rc
      /\ pc' = pc /\ call' = call /\ table' = table /\ level' = level
  BY TranslateIsFound DEF Fill, walk
<1>2. InUse' = InUse /\ Page' = Page
  BY <1>1 DEF InUse, Page
<1>3. FoundIn(mem, cr3, v) \in Entry
  BY <1>1, Finds DEF IInv, InvType, InvShape, LeafFits
<1>4. InvType'
  BY <1>1, <1>2, <1>3 DEF IInv, InvType
<1>5. InvShape' /\ InvCall' /\ InvWalk' /\ InvTlb'
  BY <1>1, <1>2 DEF IInv, InvShape, InvCall, InvWalk, InvTlb
<1> QED BY <1>4, <1>5 DEF IInv

LEMMA RefuseInv == ASSUME IInv, RefuseSpace PROVE IInv'
<1>1. /\ cr3' = cr3 /\ mem' = mem /\ pool' = pool /\ spaces' = spaces /\ tlb' = tlb /\ rc' = "failed"
      /\ pc' = pc /\ call' = call /\ table' = table /\ level' = level
  BY DEF RefuseSpace, walk
<1>2. InUse' = InUse /\ Page' = Page
  BY <1>1 DEF InUse, Page
<1> QED BY <1>1, <1>2 DEF IInv, InvType, InvShape, InvCall, InvWalk, InvTlb

LEMMA DescendInv == ASSUME IInv, Descend PROVE IInv'
<1>1. /\ pc = "walk" /\ level < Depth /\ Current # None /\ table' = Current.frame /\ level' = level + 1
      /\ cr3' = cr3 /\ mem' = mem /\ pool' = pool /\ spaces' = spaces /\ tlb' = tlb /\ rc' = rc
      /\ pc' = pc /\ call' = call
  BY DEF Descend
<1>2. InUse' = InUse /\ Page' = Page
  BY <1>1 DEF InUse, Page
<1>3. PICK lev, low : Forest(mem, InUse, spaces, lev, low)
  BY DEF IInv, InvShape, Shape
<1>4. /\ Page \in Pages /\ level \in 1 .. Depth - 1 /\ level + 1 \in 1 .. Depth /\ table \in InUse /\ table \in Tables
      /\ Page[level] \in Index /\ lev[table] = level /\ level # Depth
      /\ WalkOf(mem, cr3, Page)[level] = table
  BY <1>1, <1>3, Walking, PagesAssumption DEF IInv, InvWalk
<1>5. Current.frame \in InUse /\ Current.frame \in Tables
  BY <1>1, <1>3, <1>4 DEF Forest, EntryFits, Current
<1>6. WalkOf(mem, cr3, Page)[level + 1] = Current.frame
  <2>1. WalkOf(mem, cr3, Page)[level + 1] = Below(mem, WalkOf(mem, cr3, Page)[level], Page[level])
    BY <1>4, WalkSteps
  <2> QED BY <1>1, <1>4, <2>1 DEF Below, Current
<1>7. InvType' /\ InvShape' /\ InvCall' /\ InvTlb'
  BY <1>1, <1>2, <1>4, <1>5 DEF IInv, InvType, InvShape, InvCall, InvTlb
<1>8. InvWalk'
  BY <1>1, <1>2, <1>5, <1>6 DEF InvWalk
<1> QED BY <1>7, <1>8 DEF IInv

LEMMA ExtendInv == ASSUME IInv, Extend PROVE IInv'
<1>1. /\ pc = "walk" /\ level < Depth /\ Current = None /\ call.op = "map" /\ pool # {}
      /\ pool' = pool \ {Lowest} /\ table' = Lowest /\ level' = level + 1
      /\ cr3' = cr3 /\ spaces' = spaces /\ tlb' = tlb /\ rc' = rc /\ pc' = pc /\ call' = call
  BY DEF Extend
<1>2. Grown(mem, mem', table, Page[level], Link(Lowest), Lowest)
  BY DEF Extend, Grown, NewTable
<1> DEFINE n == mem'
<1>3. n = mem' /\ Grown(mem, n, table, Page[level], Link(Lowest), Lowest)
  BY <1>2
<1> HIDE DEF n
<1>4. /\ Lowest \in pool /\ n \in [Tables -> Table] /\ Shape(n, InUse \cup {Lowest}, spaces)
      /\ WalkOf(n, cr3, Page)[level + 1] = Lowest
      /\ \A s \in spaces, v \in Pages : FoundIn(n, s, v) = FoundIn(mem, s, v)
  BY <1>1, <1>3, Adds
<1>5. InUse' = InUse \cup {Lowest} /\ Page' = Page /\ Lowest \in Tables
  BY <1>1, <1>4 DEF InUse, Page, IInv, InvType, Tables
<1>6. level + 1 \in 1 .. Depth
  BY <1>1, PagesAssumption DEF IInv, InvType
<1>7. InvType'
  BY <1>1, <1>3, <1>4, <1>5, <1>6 DEF IInv, InvType
<1>8. InvShape' /\ InvCall'
  BY <1>1, <1>3, <1>4, <1>5 DEF IInv, InvShape, InvCall
<1>9. InvWalk'
  BY <1>1, <1>3, <1>4, <1>5 DEF InvWalk
<1>10. InvTlb'
  <2>1. ASSUME NEW x \in tlb PROVE FoundIn(n, cr3, x.page) = x.entry
    BY <1>1, <1>4, <2>1 DEF IInv, InvType, InvTlb
  <2> QED BY <1>1, <1>3, <2>1 DEF InvTlb
<1> QED BY <1>7, <1>8, <1>9, <1>10 DEF IInv

(* What WriteEntry writes fits the page. *)
LEMMA WrittenFits ==
    ASSUME IInv, pc # "idle"
    PROVE  LeafFits(Written, ~Upper(Page)) /\ (call.op = "map" => Written # None)
<1> DEFINE e == Written
<1>1. call \in Calls /\ (call.op = "map" => Suit(Page, call.flags) /\ call.frame \in Data)
  BY Walking
<1>2. CASE call.op = "map"
  <2>1. e = [frame |-> call.frame, flags |-> call.flags \ {"NX"}]
    BY <1>2 DEF Written
  <2>2. e \in Entry
    BY <1>1, <1>2, <2>1 DEF Entry, Calls
  <2> HIDE DEF e
  <2>3. LeafFits(e, ~Upper(Page)) /\ e # None
    BY <1>1, <1>2, <2>1, <2>2, DataAssumption DEF Suit, LeafFits
  <2> QED BY <2>3 DEF e
<1>3. CASE call.op # "map"
  BY <1>3 DEF Written, LeafFits
<1> QED BY <1>2, <1>3

LEMMA WriteInv == ASSUME IInv, WriteEntry PROVE IInv'
<1>1. /\ pc = "walk" /\ level = Depth /\ pc' = "entry"
      /\ cr3' = cr3 /\ pool' = pool /\ spaces' = spaces /\ tlb' = tlb /\ rc' = rc
      /\ call' = call /\ table' = table /\ level' = level
  BY DEF WriteEntry
<1> DEFINE n == mem'
           e == Written
<1>2. n = mem' /\ Rewritten(mem, n, table, Page[level], e)
  BY DEF WriteEntry, Rewritten
<1>3. LeafFits(e, ~Upper(Page)) /\ (call.op = "map" => e # None)
  BY <1>1, WrittenFits
<1> HIDE DEF n, e
<1>4. /\ n \in [Tables -> Table] /\ Shape(n, InUse, spaces)
      /\ n[table][Page[level]] = e /\ WalkOf(n, cr3, Page)[level] = table
      /\ \A s \in spaces, v \in Pages :
            FoundIn(n, s, v) = IF v = Page /\ (s = cr3 \/ Upper(v)) THEN e ELSE FoundIn(mem, s, v)
  BY <1>1, <1>2, <1>3, Writes
<1>5. InUse' = InUse /\ Page' = Page
  BY <1>1 DEF InUse, Page
<1>6. InvType' /\ InvShape'
  BY <1>1, <1>2, <1>4, <1>5 DEF IInv, InvType, InvShape
<1>7. InvCall' /\ InvWalk'
  BY <1>1, <1>2, <1>3, <1>4, <1>5 DEF IInv, InvCall, InvWalk
<1>8. InvTlb'
  <2>1. ASSUME NEW x \in tlb, x.page # Page PROVE FoundIn(n, cr3, x.page) = x.entry
    BY <1>1, <1>4, <2>1 DEF IInv, InvType, InvTlb
  <2> QED BY <1>1, <1>2, <1>5, <2>1 DEF InvTlb
<1> QED BY <1>6, <1>7, <1>8 DEF IInv

LEMMA CreateInv == ASSUME IInv, vmm_create_space PROVE IInv'
<1>1. pc = "idle" /\ cr3' = cr3 /\ tlb' = tlb /\ pc' = pc /\ call' = call /\ table' = table /\ level' = level
  BY DEF vmm_create_space, walk
<1>2. CASE pool = {}
  <2>1. rc' = "failed" /\ mem' = mem /\ pool' = pool /\ spaces' = spaces
    BY <1>2 DEF vmm_create_space
  <2>2. InUse' = InUse /\ Page' = Page
    BY <1>1, <2>1 DEF InUse, Page
  <2> QED BY <1>1, <2>1, <2>2 DEF IInv, InvType, InvShape, InvCall, InvWalk, InvTlb
<1>3. CASE pool # {}
  <2> DEFINE n == mem'
  <2>1. /\ n = mem' /\ Topped(mem, n, Lowest)
        /\ spaces' = spaces \cup {Lowest} /\ pool' = pool \ {Lowest} /\ rc' = "ok"
    BY <1>3 DEF vmm_create_space, Topped, Fresh, FreshOf
  <2> HIDE DEF n
  <2>2. /\ Lowest \in pool /\ n \in [Tables -> Table] /\ Shape(n, InUse \cup {Lowest}, spaces \cup {Lowest})
        /\ \A s \in spaces, v \in Pages : FoundIn(n, s, v) = FoundIn(mem, s, v)
    BY <1>3, <2>1, Creates
  <2>3. InUse' = InUse \cup {Lowest}
    BY <2>1, <2>2 DEF InUse, IInv, InvType, Tables
  <2>4. InvType' /\ InvShape' /\ InvCall' /\ InvWalk'
    BY <1>1, <2>1, <2>2, <2>3 DEF IInv, InvType, InvShape, InvCall, InvWalk
  <2>5. InvTlb'
    <3>1. ASSUME NEW x \in tlb PROVE FoundIn(n, cr3, x.page) = x.entry
      BY <1>1, <2>2, <3>1 DEF IInv, InvType, InvTlb
    <3> QED BY <1>1, <2>1, <3>1 DEF InvTlb
  <2> QED BY <2>4, <2>5 DEF IInv
<1> QED BY <1>2, <1>3

(* On to the next page, or back to the caller: what is true of the tables now,
   and of what is left in the TLB, holds there. *)
LEMMA OnwardInv ==
    ASSUME IInv, pc # "idle", NEW n \in [Tables -> Table], n = mem', Shape(n, InUse, spaces),
           pool' = pool, spaces' = spaces,
           NEW t \in SUBSET tlb, \A x \in t : FoundIn(n, cr3, x.page) = x.entry,
           \/ More /\ NextPage /\ tlb' = t
           \/ \E result \in {"ok", "failed"} : Return(result) /\ tlb' = Kept(t)
    PROVE  IInv'
<1>1. InUse' = InUse /\ cr3 \in spaces /\ spaces \subseteq InUse /\ InUse \subseteq Tables /\ 1 \in 1 .. Depth
  BY PagesAssumption DEF InUse, IInv, InvType
<1>2. t \in SUBSET [page : Pages, entry : Entry]
  BY DEF IInv, InvType
<1>3. InvShape'
  BY <1>1 DEF InvShape
<1>4. CASE More /\ NextPage /\ tlb' = t
  <2>1. /\ call' = [call EXCEPT !.pages = Tail(@)] /\ table' = cr3 /\ level' = 1 /\ pc' = "walk"
        /\ cr3' = cr3 /\ rc' = rc /\ tlb' = t /\ Len(call.pages) > 1
    BY <1>4 DEF NextPage, More
  <2>2. call \in Calls /\ call.back \in spaces \cup {None}
    BY DEF IInv, InvCall
  <2>3. /\ Tail(call.pages) \in Seq(Pages) \ {<<>>}
        /\ \A k \in DOMAIN Tail(call.pages) :
              k + 1 \in DOMAIN call.pages /\ Tail(call.pages)[k] = call.pages[k + 1]
    <3> DEFINE p == call.pages
    <3>1. p \in Seq(Pages) /\ Len(p) > 1 /\ Len(p) \in Nat
      BY <2>1, <2>2 DEF Calls
    <3> HIDE DEF p
    <3>2. Tail(p) \in Seq(Pages) /\ Len(Tail(p)) = Len(p) - 1
      BY <3>1
    <3>3. \A k \in 1 .. Len(p) - 1 : Tail(p)[k] = p[k + 1]
      BY <3>1
    <3>4. DOMAIN p = 1 .. Len(p) /\ DOMAIN Tail(p) = 1 .. Len(p) - 1
      BY <3>1, <3>2
    <3>5. Tail(p) # <<>>
      <4>1. Len(<<>>) = 0
        OBVIOUS
      <4>2. Len(p) - 1 # 0
        <5> DEFINE k == Len(p)
        <5>1. k > 1 /\ k \in Nat
          BY <3>1
        <5> HIDE DEF k
        <5>2. k - 1 # 0
          BY <5>1
        <5> QED BY <5>2 DEF k
      <4>3. Len(Tail(p)) # 0
        <5>1. Len(Tail(p)) = Len(p) - 1
          BY <3>2
        <5> QED BY <4>2, <5>1
      <4> QED BY <4>1, <4>3
    <3> QED BY <3>1, <3>2, <3>3, <3>4, <3>5 DEF p
  <2>4. /\ call' \in Calls /\ call'.op = call.op /\ call'.pages = Tail(call.pages)
        /\ call'.frame = call.frame /\ call'.flags = call.flags /\ call'.back = call.back
    BY <2>1, <2>2, <2>3 DEF Calls
  <2>5. InvCall'
    BY <2>1, <2>2, <2>3, <2>4 DEF IInv, InvCall
  <2>6. WalkOf(n, cr3, Page')[1] = cr3
    BY WalkSteps
  <2>7. InvType' /\ InvWalk' /\ InvTlb'
    BY <1>1, <1>2, <2>1, <2>6 DEF IInv, InvType, InvWalk, InvTlb
  <2> QED BY <1>3, <2>5, <2>7 DEF IInv
<1>5. ASSUME NEW result \in {"ok", "failed"}, Return(result), tlb' = Kept(t) PROVE IInv'
  <2>1. pc' = "idle" /\ table' = Boot /\ level' = 1 /\ rc' = result /\ cr3' = Back
    BY <1>5 DEF Return
  <2>2. cr3' \in spaces /\ \A x \in tlb' : x \in t /\ FoundIn(n, cr3', x.page) = x.entry
    <3>1. CASE call.back = None
      BY <1>1, <1>5, <2>1, <3>1 DEF Back, Kept
    <3>2. CASE call.back # None
      <4> DEFINE b == call.back
      <4>1. b \in spaces /\ cr3' = b /\ tlb' = AfterFlush(t)
        BY <1>5, <2>1, <3>2 DEF Back, Kept, IInv, InvCall
      <4> HIDE DEF b
      <4>2. \A x \in AfterFlush(t) : FoundIn(n, b, x.page) = x.entry
        BY <1>1, <1>2, <4>1, Flushed
      <4> QED BY <4>1, <4>2 DEF AfterFlush
    <3> QED BY <3>1, <3>2
  <2>3. InvType'
    BY <1>1, <1>2, <2>1, <2>2 DEF IInv, InvType
  <2>4. InvCall' /\ InvWalk' /\ InvTlb'
    BY <2>1, <2>2 DEF InvCall, InvWalk, InvTlb
  <2> QED BY <1>3, <2>3, <2>4 DEF IInv
<1> QED BY <1>4, <1>5

(* What WriteEntry wrote, with the NX bit. *)
WithNx(e) == [e EXCEPT !.flags = @ \cup (call.flags \cap {"NX"})]

LEMMA Finishes ==
    ASSUME IInv, FinishEntry
    PROVE  /\ mem' \in [Tables -> Table] /\ Shape(mem', InUse, spaces)
           /\ \A s \in spaces, v \in Pages :
                 FoundIn(mem', s, v) = IF call.op = "map" /\ v = Page /\ (s = cr3 \/ Upper(v))
                                       THEN WithNx(mem[table][Page[level]]) ELSE FoundIn(mem, s, v)
           /\ call.op = "map" => WithNx(mem[table][Page[level]]) \in Entry
<1>1. pc = "entry" /\ level = Depth
  BY DEF FinishEntry, IInv, InvWalk
<1>2. CASE call.op # "map"
  <2>1. mem' = mem
    BY <1>2 DEF FinishEntry
  <2> QED BY <1>2, <2>1 DEF IInv, InvType, InvShape
<1>3. CASE call.op = "map"
  <2> DEFINE n == mem'
             i == Page[level]
             old == mem[table][i]
             e == WithNx(old)
  <2>1. /\ call \in Calls /\ Page \in Pages /\ i \in Index /\ table \in Tables /\ table \in InUse
        /\ Suit(Page, call.flags) /\ old # None /\ old \in Entry \cup {None}
    BY <1>1, <1>3, Walking DEF IInv, InvWalk
  <2>2. LeafFits(old, ~Upper(Page))
    <3> DEFINE p == Page
    <3>1. WalkOf(mem, cr3, p)[Depth] = table /\ p[Depth] = i
      BY <1>1 DEF IInv, InvWalk
    <3>2. FoundIn(mem, cr3, p) = old
      <4> HIDE DEF p
      <4> QED BY <3>1, <2>1 DEF FoundIn
    <3>3. p \in Pages /\ cr3 \in spaces /\ mem \in [Tables -> Table] /\ Shape(mem, InUse, spaces)
      BY <2>1 DEF IInv, InvType, InvShape
    <3> HIDE DEF p, old
    <3>4. LeafFits(FoundIn(mem, cr3, p), ~Upper(p))
      BY <3>3, Finds
    <3> QED BY <3>2, <3>4 DEF p
  <2>3. e \in Entry /\ e.frame = old.frame /\ e.flags = old.flags \cup (call.flags \cap {"NX"})
    <3>1. old \in Entry
      BY <2>1
    <3> HIDE DEF old
    <3> QED BY <3>1 DEF Entry, WithNx, Flags
  <2>4. LeafFits(e, ~Upper(Page)) /\ e # None
    <3> HIDE DEF e, old
    <3> QED BY <2>1, <2>2, <2>3, DataAssumption DEF LeafFits
  <2>5. Rewritten(mem, n, table, Page[level], e)
    <3>1. mem' = [mem EXCEPT ![table][Page[level]].flags = @ \cup (call.flags \cap {"NX"})]
      BY <1>3 DEF FinishEntry
    <3> QED BY <3>1 DEF Rewritten, WithNx
  <2> HIDE DEF n, e
  <2>6. /\ n \in [Tables -> Table] /\ Shape(n, InUse, spaces)
        /\ \A s \in spaces, v \in Pages :
              FoundIn(n, s, v) = IF v = Page /\ (s = cr3 \/ Upper(v)) THEN e ELSE FoundIn(mem, s, v)
    BY <1>1, <2>4, <2>5, Writes
  <2> QED BY <1>3, <2>3, <2>6 DEF n, e
<1> QED BY <1>2, <1>3

LEMMA FinishInv == ASSUME IInv, FinishEntry PROVE IInv'
<1> DEFINE n == mem'
           t == Invlpg(Page)
<1>1. n \in [Tables -> Table] /\ n = mem' /\ Shape(n, InUse, spaces) /\ pc # "idle"
  BY Finishes DEF FinishEntry
<1>2. t \in SUBSET tlb
  BY DEF Invlpg
<1>3. \A x \in t : FoundIn(n, cr3, x.page) = x.entry
  <2> SUFFICES ASSUME NEW x \in tlb, x.page # Page PROVE FoundIn(n, cr3, x.page) = x.entry
    BY DEF Invlpg
  <2>1. FoundIn(mem, cr3, x.page) = x.entry /\ x.page \in Pages /\ cr3 \in spaces
    BY DEF IInv, InvTlb, InvType
  <2> QED BY <2>1, Finishes
<1>4. /\ pool' = pool /\ spaces' = spaces
      /\ \/ More /\ NextPage /\ tlb' = t
         \/ \E result \in {"ok", "failed"} : Return(result) /\ tlb' = Kept(t)
  BY DEF FinishEntry
<1> HIDE DEF n, t
<1> QED BY <1>1, <1>2, <1>3, <1>4, OnwardInv

LEMMA NoTableInv == ASSUME IInv, NoTable PROVE IInv'
<1> DEFINE n == mem'
           t == tlb
<1>1. pc = "walk" /\ n = mem /\ n = mem' /\ pool' = pool /\ spaces' = spaces
  BY DEF NoTable
<1>2. /\ n \in [Tables -> Table] /\ Shape(n, InUse, spaces) /\ t \in SUBSET tlb
      /\ \A x \in t : FoundIn(n, cr3, x.page) = x.entry
  BY <1>1 DEF IInv, InvType, InvShape, InvTlb
<1>3. \/ More /\ NextPage /\ tlb' = t
      \/ \E result \in {"ok", "failed"} : Return(result) /\ tlb' = Kept(t)
  BY DEF NoTable
<1> HIDE DEF n, t
<1> QED BY <1>1, <1>2, <1>3, OnwardInv

LEMMA StepIInv == IInv /\ [Next]_vars => IInv'
<1> SUFFICES ASSUME IInv, [Next]_vars PROVE IInv'
  OBVIOUS
<1>1. CASE UNCHANGED vars
  <2>1. /\ cr3' = cr3 /\ mem' = mem /\ pool' = pool /\ spaces' = spaces /\ tlb' = tlb /\ rc' = rc
        /\ pc' = pc /\ call' = call /\ table' = table /\ level' = level
    BY <1>1 DEF vars
  <2>2. InUse' = InUse /\ Page' = Page
    BY <2>1 DEF InUse, Page
  <2> QED BY <2>1, <2>2 DEF IInv, InvType, InvShape, InvCall, InvWalk, InvTlb
<1>2. CASE Next
  BY <1>2, CallsInv, RefuseInv, CreateInv, SwitchInv, DescendInv, ExtendInv, NoTableInv, WriteInv, FinishInv,
     FillInv DEF Next
<1> QED BY <1>1, <1>2

(* The three parts hold together, at every step of a call. *)
THEOREM Invariant == Spec => []IInv
BY InitIInv, StepIInv, PTL DEF Spec

-----------------------------------------------------------------------------
(* The variables of the page tables have their types (TypeOK): every entry the code
   of mm/vmm.c writes is an entry, and every table a walk is in is one. *)
THEOREM TypeCorrect == Spec => []TypeOK
<1>1. IInv => TypeOK
  BY DEF IInv, InvType, TypeOK, InUse
<1> QED BY <1>1, Invariant, PTL

(* The page tables form trees, which share the kernel's half and nothing else, and
   no frame that vmm_map_page or vmm_create_space takes from the PMM is in two
   places or still free (TablesAreTrees). *)
THEOREM Trees == Spec => []TablesAreTrees
<1>1. ASSUME IInv PROVE TablesAreTrees
  <2>1. PICK lev, low : Forest(mem, InUse, spaces, lev, low)
    BY <1>1 DEF IInv, InvShape, Shape
  <2>2. SingleParent(mem, InUse, spaces)
    BY <1>1 DEF IInv, InvShape, Shape
  <2>3. ASSUME NEW t \in InUse, NEW i \in Index, mem[t][i] # None, mem[t][i].frame \in Tables
        PROVE  mem[t][i].frame \notin pool \cup spaces
    <3>1. EntryFits(InUse, lev, low, t, i, mem[t][i]) /\ lev[t] \in 1 .. Depth
      BY <2>1, <2>3 DEF Forest
    <3>2. mem[t][i].frame \in InUse /\ lev[mem[t][i].frame] = lev[t] + 1
      BY <3>1, <2>3, FramesAssumption DEF EntryFits
    <3>3. mem[t][i].frame \notin spaces
      BY <3>1, <3>2, <2>1, PagesAssumption DEF Forest
    <3> QED BY <3>2, <3>3 DEF InUse
  <2>4. \A l \in Links : /\ l = <<l[1], l[2]>> /\ l[1] \in InUse /\ l[2] \in Index
                         /\ mem[l[1]][l[2]] # None /\ mem[l[1]][l[2]].frame \in Tables
    BY DEF Links
  <2>5. \A l \in Links : mem[l[1]][l[2]].frame \notin pool \cup spaces
    BY <2>3, <2>4
  <2>6. ASSUME NEW l \in Links, NEW k \in Links, mem[l[1]][l[2]].frame = mem[k[1]][k[2]].frame
        PROVE  l = k \/ (l[2] = k[2] /\ l[2] \in KernelIndex /\ {l[1], k[1]} \subseteq spaces)
    <3>1. (l[1] = k[1] /\ l[2] = k[2]) \/ (l[2] = k[2] /\ l[2] \in KernelIndex /\ l[1] \in spaces /\ k[1] \in spaces)
      BY <2>2, <2>4, <2>6 DEF SingleParent
    <3>2. l[1] = k[1] /\ l[2] = k[2] => l = k
      BY <2>4
    <3> QED BY <3>1, <3>2
  <2> QED BY <2>5, <2>6 DEF TablesAreTrees
<1> QED BY <1>1, Invariant, PTL

(* Every mapped page of the lower half is open to user mode on all levels, and none of
   the upper half is (Privilege): the U bits that vmm_map_page puts into the tables it
   adds agree with those of the pages below them. *)
THEOREM Privileged == Spec => []Privilege
<1>1. ASSUME IInv, NEW s \in spaces, NEW v \in Pages, Translate(s, v) # None
      PROVE  UserCan(s, v) <=> ~Upper(v)
  <2> DEFINE r == WalkOf(mem, s, v)
  <2>1. PICK lev, low : Forest(mem, InUse, spaces, lev, low)
    BY <1>1 DEF IInv, InvShape, Shape
  <2>2. UserCan(s, v) <=> \A l \in 1 .. Depth : "U" \in mem[r[l]][v[l]].flags
    BY <1>1, TranslateIsFound DEF UserCan
  <2>3. FoundIn(mem, s, v) # None
    BY <1>1, TranslateIsFound
  <2>4. Depth \in 1 .. Depth /\ r[Depth] \in Tables /\ mem[r[Depth]][v[Depth]] # None
    BY <2>3, PagesAssumption DEF FoundIn
  <2>5. ASSUME NEW l \in 1 .. Depth
        PROVE  /\ r[l] \in InUse /\ lev[r[l]] = l /\ (Lower(lev, low, r[l], v[l]) <=> ~Upper(v))
               /\ EntryFits(InUse, lev, low, r[l], v[l], mem[r[l]][v[l]])
    <3>1. r[l] # None
      <4>1. ASSUME r[l] = None PROVE r[Depth] = None
        <5>1. \A k \in l .. Depth : r[k] = None
          BY <4>1, WalkEnds
        <5> QED BY <5>1, <2>4, PagesAssumption
      <4> QED BY <4>1, <2>4, DataAssumption
    <3>2. OnWay(InUse, lev, low, v, l, r[l])
      BY <2>1, WalkLevels
    <3>3. r[l] \in InUse /\ lev[r[l]] = l /\ (Lower(lev, low, r[l], v[l]) <=> ~Upper(v)) /\ r[l] \in Tables
      BY <3>1, <3>2 DEF OnWay, InUse
    <3>4. mem[r[l]][v[l]] # None
      <4>1. CASE l = Depth
        BY <4>1, <2>4
      <4>2. ASSUME l # Depth, mem[r[l]][v[l]] = None PROVE FALSE
        <5>1. l \in 1 .. Depth - 1 /\ l + 1 \in 1 .. Depth /\ Depth \in l + 1 .. Depth
          BY <4>2, PagesAssumption
        <5>2. r[l + 1] = None
          BY <5>1, <4>2, WalkSteps DEF Below
        <5>3. r[Depth] = None
          BY <5>1, <5>2, WalkEnds
        <5> QED BY <5>3, <2>4, DataAssumption
      <4> QED BY <4>1, <4>2
    <3> QED BY <2>1, <3>3, <3>4, PagesAssumption DEF Forest
  <2>6. CASE Upper(v)
    <3>1. "U" \notin mem[r[Depth]][v[Depth]].flags
      BY <2>4, <2>5, <2>6 DEF EntryFits
    <3> QED BY <2>2, <2>4, <2>6, <3>1
  <2>7. CASE ~Upper(v)
    <3>1. \A l \in 1 .. Depth : "U" \in mem[r[l]][v[l]].flags
      BY <2>5, <2>7 DEF EntryFits
    <3> QED BY <2>2, <2>7, <3>1
  <2> QED BY <2>6, <2>7
<1>2. IInv => Privilege
  BY <1>1 DEF Privilege
<1> QED BY <1>2, Invariant, PTL

(* What the processor remembers is what the tables say, but for the page that is
   being changed until its invlpg (TlbCoherent): the flush of a CR3 switch is enough,
   since what it leaves is global and so of the half that all spaces share. *)
THEOREM Coherent == Spec => []TlbCoherent
<1>1. IInv => TlbCoherent
  BY TranslateIsFound DEF IInv, InvTlb, TlbCoherent
<1> QED BY <1>1, Invariant, PTL

-----------------------------------------------------------------------------
(* The maps of the abstract specification, from tables m with these tops. *)
MapsOf(m, tops) == [s \in tops |-> [v \in Pages |-> FoundIn(m, s, v)]]

LEMMA MapsAre == Maps = MapsOf(mem, spaces) /\ Maps' = MapsOf(mem', spaces')
<1>1. Maps = MapsOf(mem, spaces)
  BY TranslateIsFound DEF Maps, MapsOf
<1>2. Maps' = MapsOf(mem', spaces')
  BY DEF Maps, MapsOf, Translate, Reached, FoundIn, WalkOf
<1> QED BY <1>1, <1>2

(* One page is changed, in one space or in all. *)
LEMMA Changes ==
    ASSUME IInv, NEW p \in Pages, NEW e \in Entry \cup {None}, spaces' = spaces,
           \A s \in spaces, v \in Pages :
              FoundIn(mem', s, v) = IF v = p /\ (s = cr3 \/ Upper(v)) THEN e ELSE FoundIn(mem, s, v)
    PROVE  AS!Next
<1>1. Maps = MapsOf(mem, spaces) /\ Maps' = MapsOf(mem', spaces)
  BY MapsAre
<1>2. cr3 \in spaces
  BY DEF IInv, InvType
<1>3. DOMAIN Maps = spaces /\ DOMAIN Maps' = spaces
  BY <1>1 DEF MapsOf
<1>4. Maps'[cr3][p] = e
  BY <1>1, <1>2 DEF MapsOf
<1>5. Maps' = [t \in spaces |-> IF t = cr3 \/ p \in {v \in Pages : Upper(v)} THEN [Maps[t] EXCEPT ![p] = e]
                                ELSE Maps[t]]
  BY <1>1 DEF MapsOf
<1>6. AS!Change(cr3, p)
  BY <1>3, <1>4, <1>5 DEF AS!Change
<1> QED BY <1>2, <1>3, <1>6 DEF AS!Next

LEMMA NoChange ==
    ASSUME spaces' = spaces, \A s \in spaces, v \in Pages : FoundIn(mem', s, v) = FoundIn(mem, s, v)
    PROVE  UNCHANGED Maps
<1>1. MapsOf(mem', spaces) = MapsOf(mem, spaces)
  BY DEF MapsOf
<1> QED BY <1>1, MapsAre

LEMMA SpaceCreated == ASSUME IInv, vmm_create_space PROVE AS!Next \/ UNCHANGED Maps
<1>1. CASE pool = {}
  <2>1. mem' = mem /\ spaces' = spaces
    BY <1>1 DEF vmm_create_space
  <2> QED BY <2>1, NoChange
<1>2. CASE pool # {}
  <2> DEFINE f == Lowest
             n == mem'
  <2>1. n = mem' /\ Topped(mem, n, Lowest) /\ spaces' = spaces \cup {f}
    BY <1>2 DEF vmm_create_space, Topped, Fresh, FreshOf
  <2> HIDE DEF n
  <2>2. /\ f \in pool
        /\ \A s \in spaces, v \in Pages : FoundIn(n, s, v) = FoundIn(mem, s, v)
        /\ \A v \in Pages : FoundIn(n, f, v) = IF Upper(v) THEN FoundIn(mem, Boot, v) ELSE None
    BY <1>2, <2>1, Creates
  <2> HIDE DEF f
  <2>3. f \notin spaces /\ Boot \in spaces
    BY <2>2 DEF IInv, InvType, InUse
  <2>4. Maps = MapsOf(mem, spaces) /\ Maps' = MapsOf(n, spaces \cup {f})
    BY <2>1, MapsAre
  <2>5. DOMAIN Maps = spaces /\ DOMAIN Maps' = spaces \cup {f}
    BY <2>4 DEF MapsOf
  <2>6. \A s \in spaces : Maps'[s] = Maps[s]
    BY <2>2, <2>4 DEF MapsOf
  <2>7. ASSUME NEW s \in spaces, NEW v \in Pages
        PROVE  Maps'[f][v] = IF Upper(v) THEN Maps[s][v] ELSE None
    <3>1. Maps'[f][v] = FoundIn(n, f, v) /\ Maps[s][v] = FoundIn(mem, s, v)
      BY <2>4 DEF MapsOf
    <3>2. Upper(v) => FoundIn(mem, s, v) = FoundIn(mem, Boot, v)
      BY <2>3, SharedWalks DEF IInv, InvShape, Shape
    <3> QED BY <2>2, <3>1, <3>2
  <2>8. AS!Create(f)
    BY <2>3, <2>5, <2>6, <2>7 DEF AS!Create
  <2> QED BY <2>5, <2>8 DEF AS!Next
<1> QED BY <1>1, <1>2

LEMMA MapsInit == Init => AS!Init
<1> SUFFICES ASSUME Init PROVE AS!Init
  OBVIOUS
<1>1. IInv
  BY InitIInv
<1>2. Maps = MapsOf(mem, {Boot}) /\ spaces = {Boot}
  BY MapsAre DEF Init
<1>3. ASSUME NEW v \in Pages
      PROVE  Maps[Boot][v] \in IF Upper(v) THEN Entry \cup {None} ELSE {None}
  <2>1. Maps[Boot][v] = FoundIn(mem, Boot, v)
    BY <1>2 DEF MapsOf
  <2>2. LeafFits(FoundIn(mem, Boot, v), ~Upper(v))
    BY <1>1, <1>2, Finds DEF IInv, InvType, InvShape
  <2>3. ASSUME ~Upper(v) PROVE FoundIn(mem, Boot, v) = None
    <3> DEFINE k == 2
    <3>1. k \in 1 .. Depth /\ Depth \in k .. Depth /\ v[1] \in Index \ KernelIndex /\ 1 \in 1 .. Depth - 1
      BY <2>3, PagesAssumption DEF Upper
    <3>2. mem[Boot][v[1]] = None
      <4>1. mem[Boot] = LoaderTables[Boot]
        BY FramesAssumption, LoaderAssumption DEF Init, Tables
      <4> QED BY <3>1, <4>1, LoaderTreeAssumption
    <3>3. WalkOf(mem, Boot, v)[k] = None
      <4>1. 1 + 1 = 2
        OBVIOUS
      <4> QED BY <3>1, <3>2, <4>1, WalkSteps DEF Below
    <3> HIDE DEF k
    <3>4. WalkOf(mem, Boot, v)[Depth] = None
      BY <3>1, <3>3, WalkEnds
    <3> QED BY <3>4, DataAssumption DEF FoundIn
  <2> QED BY <2>1, <2>2, <2>3 DEF LeafFits
<1>4. DOMAIN Maps = {Boot}
  BY <1>2 DEF MapsOf
<1> QED BY <1>3, <1>4 DEF AS!Init

LEMMA MapsStep == IInv /\ [Next]_vars => [AS!Next]_Maps
<1> SUFFICES ASSUME IInv, [Next]_vars PROVE AS!Next \/ UNCHANGED Maps
  OBVIOUS
<1>1. CASE vmm_create_space
  BY <1>1, SpaceCreated
<1>2. CASE Extend
  <2> DEFINE n == mem'
  <2>1. n = mem' /\ Grown(mem, n, table, Page[level], Link(Lowest), Lowest) /\ spaces' = spaces
    BY <1>2 DEF Extend, Grown, NewTable
  <2> HIDE DEF n
  <2>2. \A s \in spaces, v \in Pages : FoundIn(n, s, v) = FoundIn(mem, s, v)
    BY <1>2, <2>1, Adds DEF Extend
  <2> QED BY <2>1, <2>2, NoChange
<1>3. CASE WriteEntry
  <2> DEFINE n == mem'
             e == Written
             p == Page
  <2>1. pc = "walk" /\ level = Depth /\ spaces' = spaces /\ n = mem' /\ Rewritten(mem, n, table, p[level], e)
    BY <1>3 DEF WriteEntry, Rewritten
  <2>2. LeafFits(e, ~Upper(p)) /\ p \in Pages
    BY <2>1, WrittenFits, Walking
  <2> HIDE DEF n, e
  <2>3. \A s \in spaces, v \in Pages :
           FoundIn(n, s, v) = IF v = p /\ (s = cr3 \/ Upper(v)) THEN e ELSE FoundIn(mem, s, v)
    BY <2>1, <2>2, Writes
  <2>4. e \in Entry \cup {None}
    BY <2>2 DEF LeafFits
  <2> HIDE DEF p
  <2> QED BY <2>1, <2>2, <2>3, <2>4, Changes
<1>4. CASE FinishEntry
  <2> DEFINE e == WithNx(mem[table][Page[level]])
             p == Page
  <2>1. spaces' = spaces /\ p \in Pages
    BY <1>4, Walking DEF FinishEntry
  <2>2. CASE call.op = "map"
    <3>1. e \in Entry \cup {None}
      BY <1>4, <2>2, Finishes
    <3>2. \A s \in spaces, v \in Pages :
             FoundIn(mem', s, v) = IF v = p /\ (s = cr3 \/ Upper(v)) THEN e ELSE FoundIn(mem, s, v)
      BY <1>4, <2>2, Finishes
    <3> HIDE DEF e, p
    <3> QED BY <2>1, <3>1, <3>2, Changes
  <2>3. CASE call.op # "map"
    <3>1. \A s \in spaces, v \in Pages : FoundIn(mem', s, v) = FoundIn(mem, s, v)
      BY <1>4, <2>3, Finishes
    <3> QED BY <2>1, <3>1, NoChange
  <2> QED BY <2>2, <2>3
<1>5. CASE mem' = mem /\ spaces' = spaces
  BY <1>5, NoChange
<1>6. vmm_create_space \/ Extend \/ WriteEntry \/ FinishEntry \/ (mem' = mem /\ spaces' = spaces)
  BY DEF Next, vars, Begin, vmm_map_page, vmm_map_page_space, vmm_unmap_page, vmm_unmap_page_space,
         mmio_map, mmio_unmap, RefuseSpace, vmm_switch_space, Descend, NoTable, Fill
<1> QED BY <1>1, <1>2, <1>3, <1>4, <1>5, <1>6

(* The page tables implement address spaces (AddressSpacesSpec): each call changes
   the page it is asked to change, in its space or in the shared half of all, and
   what vmm_create_space makes has the kernel's half and nothing else. *)
THEOREM Implements == Spec => AddressSpacesSpec
<1>1. Init => AS!Init
  BY MapsInit
<1>2. IInv /\ [Next]_vars => [AS!Next]_Maps
  BY MapsStep
<1> QED BY <1>1, <1>2, Invariant, PTL DEF Spec, AddressSpacesSpec, AS!Spec
=============================================================================

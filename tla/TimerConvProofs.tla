--------------------------- MODULE TimerConvProofs ---------------------------
(***************************************************************************)
(* TimerConv for every size of a word, frequency, answer of CPUID and      *)
(* delay.                                                                  *)
(***************************************************************************)
EXTENDS TimerConv, NatFacts, TLAPS

-----------------------------------------------------------------------------
(* Arithmetic: what is known of a quotient by its product. *)
LEMMA DivMono ==
    ASSUME NEW x \in Nat, NEW y \in Nat, NEW p \in Nat \ {0}, x <= y
    PROVE  x \div p <= y \div p
<1> DEFINE d == x \div p
           e == y \div p
<1>1. d \in Nat /\ d * p <= x /\ e \in Nat /\ y < e * p + p
  BY DivBounds
<1>2. e * p + p = (e + 1) * p /\ e + 1 \in Nat /\ d * p \in Nat /\ (e + 1) * p \in Nat
  BY <1>1, MultNat
<1> HIDE DEF d, e
<1>3. ~ ((e + 1) * p <= d * p)
  BY <1>1, <1>2
<1>4. ~ (e + 1 <= d)
  BY <1>1, <1>2, <1>3, MultMono
<1> QED BY <1>1, <1>4 DEF d, e

(* n more multiples of the divisor are n more in the quotient. *)
LEMMA DivShift ==
    ASSUME NEW x \in Nat, NEW y \in Nat, NEW n \in Nat, NEW p \in Nat \ {0}, y <= n * p
    PROVE  (x + y) \div p <= x \div p + n
<1> DEFINE d == x \div p
<1>1. d \in Nat /\ x < d * p + p /\ d * p \in Nat
  BY DivBounds, MultNat
<1>2. (d + n + 1) * p = d * p + n * p + p
  <2>1. (d + n) * p = d * p + n * p /\ d + n \in Nat
    BY <1>1, MultDistributes
  <2> HIDE DEF d
  <2> QED BY <2>1, MultNat
<1>3. n * p \in Nat /\ (d + n) \in Nat /\ x + y \in Nat
  BY <1>1, MultNat
<1> HIDE DEF d
<1>4. x + y < (d + n + 1) * p
  BY <1>1, <1>2, <1>3
<1>5. (x + y) \div p <= d + n
  BY <1>3, <1>4, DivLess
<1> QED BY <1>5 DEF d

LEMMA MultSwap ==
    ASSUME NEW a \in Nat, NEW b \in Nat, NEW c \in Nat
    PROVE  a * b = b * a /\ (a * b) * c = a * (b * c) /\ a * b \in Nat
BY SMT

LEMMA DivMod ==
    ASSUME NEW x \in Nat, NEW p \in Nat \ {0}
    PROVE  (x \div p) * p + (x % p) = x
BY SMT

LEMMA MultKeeps ==
    ASSUME NEW a \in Nat, NEW b \in Nat, NEW p \in Nat, a <= b
    PROVE  a * p <= b * p
BY SMT

-----------------------------------------------------------------------------
LEMMA Sizes ==
    /\ One \in Nat \ {0} /\ Word \in Nat \ {0} /\ Word = One * One /\ Word - 1 \in Nat
    /\ Kilo \in Nat \ {0} /\ Mega \in Nat \ {0} /\ Giga \in Nat \ {0}
<1>1. One \in Nat \ {0} /\ Word = One * One /\ Kilo \in Nat \ {0}
  BY WordAssumption
<1>2. \A a, b \in Nat \ {0} : a * b \in Nat \ {0}
  <2> SUFFICES ASSUME NEW a \in Nat \ {0}, NEW b \in Nat \ {0} PROVE a * b \in Nat \ {0}
    OBVIOUS
  <2>1. 1 \in Nat /\ 1 <= a /\ 1 * b = b
    OBVIOUS
  <2>2. 1 * b <= a * b /\ a * b \in Nat
    BY <2>1, MultMono, MultNat
  <2> QED BY <2>1, <2>2
<1>3. Word \in Nat \ {0} /\ Mega \in Nat \ {0}
  BY <1>1, <1>2 DEF Mega
<1>4. Giga \in Nat \ {0}
  BY <1>1, <1>2, <1>3 DEF Mega, Giga
<1> QED BY <1>1, <1>3, <1>4

(* The quotient, or the largest word. *)
LEMMA MulDiv ==
    ASSUME NEW a \in Nat, NEW b \in Nat, NEW d \in Nat \ {0}
    PROVE  mul_u64_div_u64(a, b, d) = IF (a * b) \div d <= Word - 1 THEN (a * b) \div d ELSE Word - 1
<1> DEFINE x == a * b
           w == Word - 1
           e == d - 1
<1>1. x \in Nat /\ w \in Nat /\ e \in Nat /\ d = e + 1 /\ Word = w + 1 /\ Word \in Nat \ {0}
  BY Sizes, MultSwap
<1>2. mul_u64_div_u64(a, b, d) = IF x \div Word >= d THEN w ELSE x \div d
  BY DEF mul_u64_div_u64
<1> HIDE DEF x, w, e
<1>3. x \div Word <= e <=> x < (e + 1) * Word
  BY <1>1, DivLess
<1>4. x \div d <= w <=> x < (w + 1) * d
  BY <1>1, DivLess
<1>5. (e + 1) * Word = (w + 1) * d
  BY <1>1, MultSwap
<1>6. x \div Word \in Nat
  BY <1>1, DivBounds
<1>7. x \div Word >= d <=> ~ (x \div d <= w)
  BY <1>1, <1>3, <1>4, <1>5, <1>6
<1> QED BY <1>2, <1>7 DEF x, w

LEMMA MulDivNat ==
    ASSUME NEW a \in Nat, NEW b \in Nat, NEW d \in Nat \ {0}
    PROVE  /\ mul_u64_div_u64(a, b, d) \in Nat /\ (a * b) \div d \in Nat
           /\ mul_u64_div_u64(a, b, d) <= (a * b) \div d /\ mul_u64_div_u64(a, b, d) <= Word - 1
<1> DEFINE q == (a * b) \div d
           w == Word - 1
           r == mul_u64_div_u64(a, b, d)
<1>1. q \in Nat /\ w \in Nat
  BY Sizes, MultSwap, DivBounds
<1>2. r = IF q <= w THEN q ELSE w
  BY MulDiv
<1> HIDE DEF q, w, r
<1>3. r \in Nat /\ r <= q /\ r <= w
  BY <1>1, <1>2
<1> QED BY <1>1, <1>3 DEF q, w, r

(* A later time by the clock. *)
Clock(num, den, t) == IF num = 0 THEN 0 ELSE mul_u64_div_u64(t, den, num)

LEMMA ClockGrows ==
    ASSUME NEW num \in Nat, NEW den \in Nat, NEW t \in Nat, NEW u \in Nat, t <= u
    PROVE  Clock(num, den, t) \in Nat /\ Clock(num, den, t) <= Clock(num, den, u)
<1>1. CASE num = 0
  BY <1>1 DEF Clock
<1>2. CASE num # 0
  <2> DEFINE q == (t * den) \div num
             r == (u * den) \div num
             w == Word - 1
             c == Clock(num, den, t)
             d == Clock(num, den, u)
  <2>1. t * den \in Nat /\ u * den \in Nat /\ t * den <= u * den
    BY MultSwap, MultKeeps
  <2>2. q \in Nat /\ r \in Nat /\ q <= r /\ w \in Nat
    BY <1>2, <2>1, DivMono, DivBounds, Sizes
  <2>3. c = (IF q <= w THEN q ELSE w) /\ d = (IF r <= w THEN r ELSE w)
    BY <1>2, MulDiv DEF Clock
  <2> HIDE DEF q, r, w, c, d
  <2>4. c \in Nat /\ c <= d
    BY <2>2, <2>3
  <2> QED BY <2>4 DEF c, d
<1> QED BY <1>1, <1>2

(* The ticks of a delay do not last longer than the delay. *)
LEMMA TicksFit ==
    ASSUME NEW num \in Nat, NEW ns \in Nat, g_scale = scale(num, Giga)
    PROVE  ticks_from_ns(ns) \in Nat /\ ticks_from_ns(ns) * Giga <= ns * num
<1> DEFINE s == g_scale
           p == ns * s
           T == p \div One
           k == T % Word
           n == ns * num
           b == num * One
<1>1. One \in Nat \ {0} /\ Giga \in Nat \ {0} /\ Word \in Nat \ {0} /\ n \in Nat /\ b \in Nat
  BY Sizes, MultSwap
<1>2. s \in Nat /\ s <= b \div Giga /\ b \div Giga \in Nat /\ (b \div Giga) * Giga <= b
  BY <1>1, MulDivNat, DivBounds DEF scale
<1>3. s * Giga <= b
  <2> DEFINE q == b \div Giga
  <2>1. q \in Nat /\ s <= q /\ q * Giga <= b
    BY <1>2
  <2> HIDE DEF q, s, b
  <2>2. s * Giga <= q * Giga /\ s * Giga \in Nat /\ q * Giga \in Nat
    BY <1>1, <1>2, <2>1, MultKeeps, MultSwap
  <2> QED BY <1>1, <2>1, <2>2
<1>4. p \in Nat /\ T \in Nat /\ T * One <= p
  BY <1>1, <1>2, MultSwap, DivBounds
<1>5. k \in Nat /\ k <= T
  <2> HIDE DEF T
  <2> QED BY <1>1, <1>4, SMT
<1>6. k = ticks_from_ns(ns)
  BY DEF ticks_from_ns
<1> HIDE DEF k, T
<1>7. k * Giga <= T * Giga /\ k * Giga \in Nat /\ T * Giga \in Nat
  BY <1>1, <1>4, <1>5, MultKeeps, MultSwap
<1>8. (T * Giga) * One <= n * One
  <2>1. (T * One) * Giga <= p * Giga
    <3> HIDE DEF p
    <3>1. T * One \in Nat
      BY <1>1, <1>4, MultSwap
    <3> QED BY <1>1, <1>4, <3>1, MultKeeps
  <2>2. (T * One) * Giga = (T * Giga) * One
    <3>1. (T * One) * Giga = T * (One * Giga) /\ (T * Giga) * One = T * (Giga * One) /\ One * Giga = Giga * One
      BY <1>1, <1>4, MultSwap
    <3> QED BY <3>1
  <2>3. p * Giga = ns * (s * Giga)
    <3> HIDE DEF s
    <3> QED BY <1>1, <1>2, MultSwap
  <2>4. ns * (s * Giga) <= ns * b
    <3> DEFINE v == s * Giga
    <3>1. v \in Nat /\ b \in Nat /\ v <= b
      BY <1>1, <1>2, <1>3, MultSwap
    <3> HIDE DEF v, b
    <3>2. v * ns <= b * ns /\ v * ns = ns * v /\ b * ns = ns * b
      BY <3>1, MultKeeps, MultSwap
    <3> QED BY <3>2 DEF v
  <2>5. ns * b = n * One
    BY <1>1, MultSwap
  <2>6. (T * Giga) * One \in Nat /\ p * Giga \in Nat /\ ns * b \in Nat /\ n * One \in Nat
    <3> HIDE DEF p, b, n
    <3> QED BY <1>1, <1>4, <1>7, MultSwap
  <2> HIDE DEF p, b, n, s
  <2> QED BY <2>1, <2>2, <2>3, <2>4, <2>5, <2>6
<1>9. T * Giga <= n
  <2> DEFINE v == T * Giga
  <2>1. v \in Nat /\ v * One <= n * One
    BY <1>7, <1>8
  <2> HIDE DEF v, n
  <2>2. v <= n
    BY <1>1, <2>1, MultMono
  <2> QED BY <2>2 DEF v
<1> HIDE DEF n
<1>10. k * Giga <= n
  BY <1>1, <1>7, <1>9
<1> QED BY <1>5, <1>6, <1>10 DEF n

(* The clock, when a delay that was programmed at time t is over. *)
LEMMA DelayEnds ==
    ASSUME NEW num \in Nat \ {0}, NEW ns \in Nat, g_scale = scale(num, Giga), NEW t \in Nat,
           Clock(num, Giga, t) + ns < Word
    PROVE  LET u == (t + Ticks(ns)) % Word IN
           u \in Nat /\ (Clock(num, Giga, u) <= Clock(num, Giga, t) + ns \/ u <= t + 1)
<1> DEFINE k == Ticks(ns)
           v == t + k
           u == v % Word
           now == Clock(num, Giga, t)
<1>1. /\ ticks_from_ns(ns) \in Nat /\ ticks_from_ns(ns) * Giga <= ns * num
      /\ Giga \in Nat \ {0} /\ Word \in Nat \ {0} /\ now \in Nat
  BY TicksFit, Sizes, ClockGrows
<1>2. k \in Nat /\ v \in Nat /\ (ticks_from_ns(ns) = 0 => k = 1) /\ (ticks_from_ns(ns) # 0 => k = ticks_from_ns(ns))
  BY <1>1 DEF Ticks
<1>3. u \in Nat /\ u <= v
  <2> HIDE DEF v
  <2> QED BY <1>1, <1>2, SMT
<1> HIDE DEF u, k
<1>4. CASE ticks_from_ns(ns) = 0
  <2>1. u \in Nat /\ u <= t + 1
    BY <1>2, <1>3, <1>4
  <2> QED BY <2>1 DEF u, k
<1>5. CASE ticks_from_ns(ns) # 0
  <2> DEFINE q == (t * Giga) \div num
             r == (v * Giga) \div num
             w == Word - 1
             late == Clock(num, Giga, v)
  <2>1. k * Giga <= ns * num /\ v * Giga = t * Giga + k * Giga
    BY <1>1, <1>2, <1>5, MultDistributes
  <2>2. t * Giga \in Nat /\ k * Giga \in Nat /\ v * Giga \in Nat
    BY <1>1, <1>2, MultSwap
  <2>3. r <= q + ns
    BY <2>1, <2>2, DivShift
  <2>4. q \in Nat /\ r \in Nat /\ w \in Nat
    BY <2>2, DivBounds, Sizes
  <2>5. now = (IF q <= w THEN q ELSE w) /\ late = (IF r <= w THEN r ELSE w)
    BY <1>1, <1>2, MulDiv DEF Clock
  <2>6. Clock(num, Giga, u) \in Nat /\ Clock(num, Giga, u) <= late /\ late \in Nat
    <3>1. num \in Nat /\ Giga \in Nat /\ u \in Nat /\ v \in Nat /\ u <= v
      BY <1>1, <1>2, <1>3
    <3> DEFINE g == Giga
    <3>2. g \in Nat /\ v <= v
      BY <3>1
    <3> HIDE DEF v, g, late
    <3>3. Clock(num, g, u) \in Nat /\ Clock(num, g, u) <= Clock(num, g, v)
      BY <3>1, <3>2, ClockGrows
    <3>4. Clock(num, g, v) \in Nat
      BY <3>1, <3>2, ClockGrows
    <3> QED BY <3>3, <3>4 DEF g, late
  <2> DEFINE early == Clock(num, Giga, u)
  <2>7. now + ns < w + 1
    BY <1>1
  <2> HIDE DEF q, r, w, late, now, early
  <2>8. late <= now + ns
    BY <1>1, <2>3, <2>4, <2>5, <2>7
  <2>9. early <= now + ns
    BY <1>1, <2>6, <2>8 DEF early
  <2> QED BY <1>3, <2>9 DEF early, now, u, k
<1> QED BY <1>4, <1>5

(* Unless something does not fit, the ticks of a delay last as long as it, but for
   what the roundings take. *)
LEMMA TicksEnough ==
    ASSUME NEW num \in Nat, NEW ns \in Nat, g_scale = scale(num, Giga),
           num < One * Giga, ns * num < Word * Giga
    PROVE  ns * num <= (ticks_from_ns(ns) + (ns \div One + 2)) * Giga
<1> DEFINE s == g_scale
           p == ns * s
           T == p \div One
           m == ns \div One
           n == ns * num
           b == num * One
           g == Giga
           o == One
<1>1. o \in Nat \ {0} /\ g \in Nat \ {0} /\ Word \in Nat \ {0} /\ n \in Nat /\ b \in Nat /\ Word = o * o
  BY Sizes, MultSwap
<1>2. s = b \div g
  <2> DEFINE q == b \div g
  <2>1. q \in Nat /\ q * g <= b
    BY <1>1, DivBounds
  <2>2. b < Word * g
    <3>1. Word * g = (o * g) * o
      <4>1. Word * g = o * (o * g) /\ o * g \in Nat
        BY <1>1, MultSwap
      <4> QED BY <1>1, <4>1, MultSwap
    <3>2. o * g \in Nat /\ num < o * g
      BY <1>1, MultSwap
    <3>3. ~ ((o * g) * o <= num * o)
      BY <1>1, <3>2, MultMono
    <3>4. (o * g) * o \in Nat
      BY <1>1, <3>2, MultSwap
    <3> QED BY <1>1, <3>1, <3>3, <3>4
  <2>3. (Word - 1 + 1) = Word /\ Word - 1 \in Nat
    BY <1>1
  <2> HIDE DEF b, g, o
  <2>4. b \div g <= Word - 1
    BY <1>1, <2>2, <2>3, DivLess
  <2> QED BY <1>1, <2>4, MulDiv DEF scale, b, g, o
<1>3. s \in Nat /\ b < (s + 1) * g /\ s * g <= b
  <2> HIDE DEF s, b, g
  <2>1. s \in Nat /\ s * g <= b /\ b < s * g + g
    BY <1>1, <1>2, DivBounds
  <2> QED BY <1>1, <2>1, MultNat
<1>4. p \in Nat /\ T \in Nat /\ T * o <= p /\ p < (T + 1) * o
  <2>1. p \in Nat
    BY <1>3, MultSwap
  <2> HIDE DEF p, o
  <2>2. T \in Nat /\ T * o <= p /\ p < T * o + o
    BY <1>1, <2>1, DivBounds DEF o
  <2> QED BY <1>1, <2>1, <2>2, MultNat
<1>5. m \in Nat /\ ns < (m + 1) * o
  <2> HIDE DEF o
  <2>1. m \in Nat /\ ns < m * o + o
    BY <1>1, DivBounds DEF o
  <2> QED BY <1>1, <2>1, MultNat
(* The product in full, before it is cut. *)
<1>6. n * o <= (p + ns) * g
  <2>1. n * o = b * ns
    BY <1>1, MultSwap
  <2>2. b * ns <= ((s + 1) * g) * ns
    <3> HIDE DEF b, s, g
    <3>1. (s + 1) * g \in Nat
      BY <1>1, <1>3, MultSwap
    <3> QED BY <1>1, <1>3, <3>1, MultKeeps
  <2>3. ((s + 1) * g) * ns = (p + ns) * g
    <3> HIDE DEF s, g
    <3>1. ((s + 1) * g) * ns = ((s + 1) * ns) * g
      <4>1. s + 1 \in Nat
        BY <1>3
      <4> DEFINE v == s + 1
      <4> HIDE DEF v
      <4>2. v \in Nat
        BY <4>1 DEF v
      <4>3. (v * g) * ns = (v * ns) * g
        <5>1. (v * g) * ns = v * (g * ns) /\ (v * ns) * g = v * (ns * g) /\ g * ns = ns * g
          BY <1>1, <4>2, MultSwap
        <5> QED BY <5>1
      <4> QED BY <4>3 DEF v
    <3>2. (s + 1) * ns = s * ns + ns /\ s * ns = ns * s
      BY <1>3, MultNat, MultSwap
    <3> QED BY <3>1, <3>2
  <2> QED BY <2>1, <2>2, <2>3
<1> DEFINE k == T + m + 2
<1>7. p + ns <= k * o /\ k \in Nat
  <2> HIDE DEF p, o, T, m
  <2>1. (T + 1) + (m + 1) = k /\ T + 1 \in Nat /\ m + 1 \in Nat
    BY <1>4, <1>5
  <2>2. ((T + 1) + (m + 1)) * o = (T + 1) * o + (m + 1) * o
    BY <1>1, <2>1, MultDistributes
  <2>3. (T + 1) * o \in Nat /\ (m + 1) * o \in Nat
    BY <1>1, <2>1, MultSwap
  <2> DEFINE x == (T + 1) * o
             y == (m + 1) * o
  <2>4. p + ns <= x + y
    <3> HIDE DEF x, y
    <3>1. x \in Nat /\ y \in Nat /\ p < x /\ ns < y
      BY <1>4, <1>5, <2>3 DEF x, y
    <3> QED BY <1>4, <3>1
  <2> QED BY <2>1, <2>2, <2>4
<1>8. n <= k * g
  <2>1. (p + ns) * g <= (k * o) * g
    <3> HIDE DEF p, k, o, g
    <3>1. p + ns \in Nat /\ k * o \in Nat
      BY <1>1, <1>4, <1>7, MultSwap
    <3> QED BY <1>1, <1>7, <3>1, MultKeeps
  <2>2. (k * o) * g = (k * g) * o
    <3> HIDE DEF k, o, g
    <3>1. (k * o) * g = k * (o * g) /\ (k * g) * o = k * (g * o) /\ o * g = g * o
      BY <1>1, <1>7, MultSwap
    <3> QED BY <3>1
  <2>3. n * o \in Nat /\ (p + ns) * g \in Nat /\ (k * g) * o \in Nat /\ k * g \in Nat
    <3> HIDE DEF p, k, o, g, n
    <3>1. p + ns \in Nat /\ k * g \in Nat
      BY <1>1, <1>4, <1>7, MultSwap
    <3> QED BY <1>1, <3>1, MultSwap
  <2> HIDE DEF n, p, k, o, g
  <2>4. n * o <= (k * g) * o
    BY <1>6, <2>1, <2>2, <2>3
  <2> QED BY <1>1, <2>3, <2>4, MultMono
(* And nothing is cut. *)
<1>9. T < Word
  <2>1. (T * o) * g <= p * g
    <3> HIDE DEF p, o, g, T
    <3>1. T * o \in Nat
      BY <1>1, <1>4, MultSwap
    <3> QED BY <1>1, <1>4, <3>1, MultKeeps
  <2>2. p * g <= n * o
    <3>1. p * g = (s * g) * ns
      <4> HIDE DEF s, g
      <4>1. p * g = ns * (s * g) /\ s * g \in Nat
        BY <1>1, <1>3, MultSwap
      <4> QED BY <4>1, MultSwap
    <3>2. (s * g) * ns <= b * ns
      <4> HIDE DEF s, g, b
      <4>1. s * g \in Nat
        BY <1>1, <1>3, MultSwap
      <4> QED BY <1>1, <1>3, <4>1, MultKeeps
    <3>3. b * ns = n * o
      BY <1>1, MultSwap
    <3> QED BY <3>1, <3>2, <3>3
  <2>3. (T * o) * g = (T * g) * o
    <3> HIDE DEF T, o, g
    <3>1. (T * o) * g = T * (o * g) /\ (T * g) * o = T * (g * o) /\ o * g = g * o
      BY <1>1, <1>4, MultSwap
    <3> QED BY <3>1
  <2>4. T * g <= n
    <3>1. T * g \in Nat
      BY <1>1, <1>4, MultSwap
    <3>2. (T * g) * o \in Nat /\ p * g \in Nat /\ n * o \in Nat
      <4> HIDE DEF p, T, n, o, g
      <4> QED BY <1>1, <1>4, <3>1, MultSwap
    <3> HIDE DEF T, n, o, g, p
    <3>3. (T * g) * o <= n * o
      BY <2>1, <2>2, <2>3, <3>2
    <3> QED BY <1>1, <3>1, <3>3, MultMono
  <2>5. n < Word * g /\ Word * g \in Nat /\ T * g \in Nat
    BY <1>1, <1>4, MultSwap
  <2> HIDE DEF T, n, g
  <2>6. ~ (Word * g <= T * g)
    BY <1>1, <2>4, <2>5
  <2>7. ~ (Word <= T)
    BY <1>1, <1>4, <2>6, MultMono
  <2> QED BY <1>1, <1>4, <2>7
<1>10. ticks_from_ns(ns) = T
  <2>1. ticks_from_ns(ns) = T % Word
    BY DEF ticks_from_ns
  <2> HIDE DEF T
  <2> QED BY <1>1, <1>4, <1>9, <2>1, SMT
<1>11. T + (m + 2) = k
  <2> HIDE DEF T, m
  <2> QED BY <1>4, <1>5
<1> HIDE DEF T, m
<1> QED BY <1>8, <1>10, <1>11 DEF m

(* Such a delay, programmed at time t, is hardly over before its time. *)
LEMMA DelayLasts ==
    ASSUME NEW num \in Nat \ {0}, NEW ns \in Nat, g_scale = scale(num, Giga),
           num < One * Giga, ns * num < Word * Giga,
           NEW t \in Nat, NEW u, u = (t + Ticks(ns)) % Word, t <= u,
           Clock(num, Giga, t) + ns < Word
    PROVE  Clock(num, Giga, t) + ns
             <= Clock(num, Giga, u) + (((ns \div One + 2) * Giga) \div num + 1)
<1> DEFINE T == ticks_from_ns(ns)
           k == Ticks(ns)
           M == ns \div One + 2
           g == Giga
           a == (T * g) \div num
           c == (M * g) \div num
           now == Clock(num, g, t)
           then == Clock(num, g, u)
<1>1. /\ One \in Nat \ {0} /\ g \in Nat \ {0} /\ Word \in Nat \ {0} /\ T \in Nat
      /\ M \in Nat /\ ns * num <= (T + M) * g
  <2>1. ns \div One \in Nat
    BY Sizes, DivBounds
  <2>2. T \in Nat
    BY TicksFit
  <2>3. ns * num <= (T + M) * g
    BY TicksEnough
  <2> QED BY <2>1, <2>2, <2>3, Sizes
<1>2. T < Word /\ k \in Nat /\ k >= T /\ (k < Word \/ Word = 1)
  <2>1. T < Word
    <3> DEFINE x == (ns * g_scale) \div One
    <3>1. x \in Nat
      <4>1. g_scale \in Nat
        BY Sizes, MulDivNat DEF scale
      <4> DEFINE p == ns * g_scale
      <4>2. p \in Nat
        BY <4>1, MultSwap
      <4> HIDE DEF p
      <4>3. p \div One \in Nat
        BY <4>2, Sizes, DivBounds
      <4> QED BY <4>3 DEF p
    <3>2. T = x % Word
      BY DEF ticks_from_ns
    <3> HIDE DEF x, T
    <3> QED BY <1>1, <3>1, <3>2, SMT
  <2>2. k = IF T = 0 THEN 1 ELSE T
    BY DEF Ticks
  <2> HIDE DEF T, k
  <2> QED BY <1>1, <2>1, <2>2
<1>3. now \in Nat /\ now <= Word - 1
  <2>1. now = mul_u64_div_u64(t, g, num)
    BY DEF Clock
  <2> QED BY <1>1, <2>1, MulDivNat
<1>4. c \in Nat /\ a \in Nat /\ M * g < (c + 1) * num /\ T * g < (a + 1) * num
  <2> DEFINE x == M * g
             y == T * g
  <2>1. x \in Nat /\ y \in Nat
    BY <1>1, MultSwap
  <2> HIDE DEF x, y
  <2>2. /\ x \div num \in Nat /\ x < (x \div num) * num + num
        /\ y \div num \in Nat /\ y < (y \div num) * num + num
    BY <2>1, DivBounds
  <2>3. (x \div num + 1) * num = (x \div num) * num + num /\ (y \div num + 1) * num = (y \div num) * num + num
    BY <2>2, MultNat
  <2>4. x < (x \div num + 1) * num /\ y < (y \div num + 1) * num
    BY <2>2, <2>3
  <2> QED BY <2>2, <2>4 DEF x, y
<1>5. ns <= a + c + 1
  <2> HIDE DEF a, c, M, T, g
  <2>1. (T + M) * g = T * g + M * g /\ T * g \in Nat /\ M * g \in Nat
    BY <1>1, MultDistributes, MultSwap
  <2>2. (a + 1) + (c + 1) = a + c + 2 /\ a + 1 \in Nat /\ c + 1 \in Nat /\ a + c + 2 \in Nat
    BY <1>4
  <2>3. ((a + 1) + (c + 1)) * num = (a + 1) * num + (c + 1) * num
    BY <2>2, MultDistributes
  <2>4. (a + 1) * num \in Nat /\ (c + 1) * num \in Nat /\ ns * num \in Nat
    BY <2>2, MultSwap
  <2> DEFINE x == (a + 1) * num
             y == (c + 1) * num
             z == ns * num
             v == T * g
             w == M * g
  <2>5. z < x + y
    <3>1. x \in Nat /\ y \in Nat /\ z \in Nat /\ v \in Nat /\ w \in Nat /\ v < x /\ w < y /\ z <= v + w
      BY <1>1, <1>4, <2>1, <2>4
    <3> HIDE DEF x, y, z, v, w
    <3> QED BY <3>1
  <2>6. ~ ((a + c + 2) * num <= ns * num)
    <3>1. (a + c + 2) * num = x + y
      BY <2>2, <2>3
    <3> HIDE DEF x, y
    <3>2. x \in Nat /\ y \in Nat /\ z \in Nat
      BY <2>4 DEF x, y
    <3> HIDE DEF z
    <3>3. ~ (x + y <= z)
      BY <2>5, <3>2
    <3> QED BY <3>1, <3>3 DEF z
  <2>7. ~ (a + c + 2 <= ns)
    BY <2>2, <2>6, MultMono
  <2> QED BY <1>4, <2>7
<1>6. CASE Word = 1
  <2>1. then \in Nat
    <3>1. then = mul_u64_div_u64(u, g, num)
      BY DEF Clock
    <3>2. u \in Nat
      <4> HIDE DEF k
      <4> QED BY <1>1, <1>2, SMT DEF k
    <3> QED BY <1>1, <3>1, <3>2, MulDivNat
  <2> HIDE DEF now, then, c, M, g
  <2>2. now + ns <= then + (c + 1)
    BY <1>3, <1>4, <1>6, <2>1 DEF now, g
  <2> QED BY <2>2 DEF now, then, c, M, g
<1>7. CASE k < Word
  <2>1. u = t + k
    <3> HIDE DEF k
    <3> DEFINE x == t + k
    <3>1. x \in Nat /\ u = x % Word /\ t <= u
      BY <1>2 DEF k
    <3>2. u < Word /\ u \in Nat
      BY <1>1, <3>1, SMT
    <3>3. x < Word + Word
      BY <1>1, <1>2, <1>7, <3>1, <3>2
    <3>4. CASE x >= Word
      <4> DEFINE y == x - Word
      <4>1. y \in Nat /\ y < Word /\ x = y + Word /\ y < t
        BY <1>1, <1>2, <1>7, <3>1, <3>3, <3>4
      <4> HIDE DEF x, y
      <4>2. x % Word = y
        BY <1>1, <4>1, SMT
      <4> QED BY <1>1, <3>1, <3>2, <4>1, <4>2
    <3>5. CASE x < Word
      <4> HIDE DEF x
      <4>1. x % Word = x
        BY <1>1, <3>1, <3>5, SMT
      <4> QED BY <3>1, <4>1 DEF x
    <3> QED BY <1>1, <3>1, <3>4, <3>5
  <2> DEFINE q == (t * g) \div num
             r == (u * g) \div num
             w == Word - 1
  <2>2. q \in Nat /\ r \in Nat /\ w \in Nat /\ t * g \in Nat /\ u \in Nat
    <3>1. u \in Nat
      BY <1>2, <2>1
    <3> DEFINE x == t * g
               y == u * g
    <3>2. x \in Nat /\ y \in Nat
      BY <1>1, <3>1, MultSwap
    <3> HIDE DEF x, y
    <3>3. x \div num \in Nat /\ y \div num \in Nat
      BY <3>2, DivBounds
    <3> QED BY <1>1, <3>1, <3>2, <3>3 DEF x, y
  <2>3. now = (IF q <= w THEN q ELSE w) /\ then = (IF r <= w THEN r ELSE w)
    BY <1>1, <2>2, MulDiv DEF Clock
  <2>4. q + a <= r
    <3> HIDE DEF T, k
    <3> DEFINE x == t * g
               y == T * g
               z == u * g
    <3>1. x \in Nat /\ y \in Nat /\ z \in Nat
      BY <1>1, <2>2, MultSwap
    <3>2. x + y <= z
      <4>1. (t + T) * g = t * g + T * g /\ t + T \in Nat /\ t + T <= u
        BY <1>1, <1>2, <2>1, <2>2, MultDistributes
      <4>2. (t + T) * g <= u * g
        BY <1>1, <2>2, <4>1, MultKeeps
      <4> QED BY <4>1, <4>2
    <3> HIDE DEF x, y, z
    <3>3. q = x \div num /\ a = y \div num /\ r = z \div num
      BY DEF x, y, z
    <3> HIDE DEF q, a, r
    <3>4. q \in Nat /\ a \in Nat /\ r \in Nat /\ q * num <= x /\ a * num <= y /\ z < (r + 1) * num
      <4>1. z < r * num + num /\ r \in Nat
        BY <3>1, <3>3, DivBounds
      <4>2. (r + 1) * num = r * num + num
        BY <4>1, MultNat
      <4> QED BY <3>1, <3>3, <4>1, <4>2, DivBounds
    <3>5. (q + a) * num = q * num + a * num /\ q * num \in Nat /\ a * num \in Nat /\ (r + 1) * num \in Nat
      BY <3>4, MultDistributes, MultSwap
    <3>6. ~ ((r + 1) * num <= (q + a) * num)
      <4> DEFINE e == q * num
                 h == a * num
                 l == (r + 1) * num
      <4>1. e \in Nat /\ h \in Nat /\ l \in Nat /\ e <= x /\ h <= y /\ z < l
        BY <3>4, <3>5
      <4> HIDE DEF e, h, l
      <4>2. ~ (l <= e + h)
        BY <3>1, <3>2, <4>1
      <4> QED BY <3>5, <4>2 DEF e, h, l
    <3>7. ~ (r + 1 <= q + a)
      BY <3>4, <3>6, MultMono
    <3> QED BY <3>4, <3>7
  <2> HIDE DEF now, then, a, c, q, r, w, M, T, g
  <2>5. now + ns < w + 1
    BY <1>1 DEF now, w, g
  <2>6. now + ns <= then + (c + 1)
    BY <1>3, <1>4, <1>5, <2>2, <2>3, <2>4, <2>5
  <2> QED BY <2>6 DEF now, then, c, M, g
<1> QED BY <1>2, <1>6, <1>7

-----------------------------------------------------------------------------
(* The inductive invariant: what timer_init measures are natural numbers, what it
   leaves is the rate and its scale, and a timer that is set has been set by it. *)
Measured ==
    /\ cpu \in Cpus /\ rate \in Nat
    /\ tsc \in Nat /\ start \in Nat /\ start <= tsc /\ tsc_hz \in Nat /\ tpu \in Nat

Rated ==
    /\ g_tick_num \in Nat /\ g_tick_den \in Nat
    /\ g_src # "NONE" => g_tick_den = Giga /\ g_scale = scale(g_tick_num, Giga)

Waiting ==
    due # None =>
        /\ due \in Nat /\ want \in Nat /\ want < Word
        /\ g_src # "NONE" /\ g_tick_num # 0 /\ g_scale # 0
        /\ ClockAt(due) <= want \/ due <= tsc + 1

Lasting == due # None => asked \in Nat /\ (Fits => want <= ClockAt(due) + Slack)

IInv == Measured /\ Rated /\ Waiting /\ Lasting

LEMMA InitIInv == Init => IInv
<1> SUFFICES ASSUME Init PROVE IInv
  OBVIOUS
<1>1. Measured
  BY RatesAssumption DEF Init, CalInit, Measured
<1>2. Rated /\ Waiting /\ Lasting
  BY DEF Init, Rated, Waiting, Lasting
<1> QED BY <1>1, <1>2 DEF IInv

LEMMA CpuidNat == ASSUME Measured PROVE tsc_hz_from_cpuid \in Nat
<1> DEFINE l == cpu.leaf15
           a == l.eax
           b == l.ebx
           c == l.ecx
<1>1. a \in Nat /\ b \in Nat /\ c \in Nat /\ cpu.leaf16 \in Nat /\ Mega \in Nat
  BY CpusAssumption, Sizes DEF Measured
<1>2. Base \in Nat
  BY <1>1, MultSwap DEF Base
<1>3. c * b \in Nat
  BY <1>1, MultSwap
<1>4. a # 0 => (c * b) \div a \in Nat
  <2> DEFINE x == c * b
  <2> HIDE DEF x, a, b, c
  <2>1. a # 0 => x \div a \in Nat
    BY <1>1, <1>3, DivBounds DEF x
  <2> QED BY <2>1 DEF x
<1> QED BY <1>2, <1>4 DEF tsc_hz_from_cpuid

(* The calibration keeps the TSC going on. *)
LEMMA CalKeeps == ASSUME Measured, CalNext PROVE Measured' /\ tsc <= tsc'
<1>1. CASE Identify
  <2>1. tsc_hz' \in Nat
    BY <1>1, CpuidNat DEF Identify, Found, Measured
  <2> QED BY <1>1, <2>1 DEF Identify, Measured
<1>2. CASE SetPit \/ ReadStart \/ LatchPit \/ ReadLo \/ ReadHi
  BY <1>2 DEF SetPit, ReadStart, LatchPit, ReadLo, ReadHi, Measured
<1>3. CASE ReadEnd
  <2> DEFINE x == (tsc - start) * Mega
  <2>1. tsc - start \in Nat /\ CalUs \in Nat \ {0} /\ Mega \in Nat
    BY PitAssumption, Sizes DEF Measured
  <2>2. x \in Nat
    BY <2>1, MultSwap
  <2> HIDE DEF x
  <2>3. x \div CalUs \in Nat
    BY <2>1, <2>2, DivBounds
  <2>4. tsc_hz' = x \div CalUs
    BY <1>3 DEF ReadEnd, Found, x
  <2> QED BY <1>3, <2>3, <2>4 DEF ReadEnd, Measured
<1>4. CASE lapic_timer_calibrate_tsc
  <2> DEFINE delta == (tsc_hz * CalUs) \div Mega
  <2>1. delta \in Nat
    <3> DEFINE x == tsc_hz * CalUs
    <3>1. x \in Nat
      BY PitAssumption, MultSwap DEF Measured
    <3> HIDE DEF x
    <3>2. x \div Mega \in Nat
      BY <3>1, Sizes, DivBounds
    <3> QED BY <3>2 DEF x
  <2>2. PICK late \in 0 .. MaxGap :
           /\ tsc' = tsc + (IF delta = 0 THEN 1 ELSE delta) + late
           /\ LET t == ((tsc' - tsc) \div TscPerLapic) \div CalUs IN tpu' = IF t = 0 THEN 1 ELSE t
    BY <1>4 DEF lapic_timer_calibrate_tsc
  <2> HIDE DEF delta
  <2>3. tsc' \in Nat /\ tsc <= tsc' /\ tsc' - tsc \in Nat
    BY <2>1, <2>2, RatesAssumption DEF Measured
  <2> DEFINE y == tsc' - tsc
             z == y \div TscPerLapic
             t == z \div CalUs
  <2>4. z \in Nat
    BY <2>3, RatesAssumption, DivBounds
  <2>5. tpu' = IF t = 0 THEN 1 ELSE t
    BY <2>2
  <2> HIDE DEF z
  <2>6. t \in Nat
    BY <2>4, PitAssumption, DivBounds
  <2> HIDE DEF t
  <2>7. tpu' \in Nat
    BY <2>5, <2>6
  <2> QED BY <1>4, <2>3, <2>7 DEF lapic_timer_calibrate_tsc, Measured
<1>5. CASE PitTick
  BY <1>5 DEF PitTick, Measured
<1> QED BY <1>1, <1>2, <1>3, <1>4, <1>5 DEF CalNext, CalKernel

(* A delay is asked for: at the start, or for the rest. *)
LEMMA AsksInv ==
    ASSUME IInv, g_src = "TSC_DEADLINE" \/ due # None, NEW ns \in Nat, timer_now_ns + ns < Word,
           timer_oneshot_ns(ns), want' = timer_now_ns + ns, UNCHANGED <<conv, cal, tsc>>
    PROVE  IInv'
<1>1. /\ g_src' = g_src /\ g_tick_num' = g_tick_num /\ g_tick_den' = g_tick_den /\ g_scale' = g_scale
      /\ cpu' = cpu /\ rate' = rate /\ tsc' = tsc /\ start' = start /\ tsc_hz' = tsc_hz /\ tpu' = tpu
  BY DEF conv, cal
<1>2. Measured' /\ Rated'
  BY <1>1 DEF IInv, Measured, Rated
<1>3. /\ g_src # "NONE" /\ g_tick_den = Giga /\ g_scale = scale(g_tick_num, Giga)
      /\ g_tick_num \in Nat /\ tsc \in Nat
  BY DEF IInv, Measured, Rated, Waiting
<1> DEFINE t == tsc
           n == g_tick_num
<1>4. timer_now_ns = Clock(n, Giga, t) /\ ClockAt(due)' = Clock(n, Giga, due')
  BY <1>1, <1>3 DEF ClockAt, Clock, timer_now_ns
<1>5. timer_now_ns \in Nat /\ want' \in Nat /\ want' < Word /\ want' = Clock(n, Giga, t) + ns
  <2>1. t \in Nat /\ Giga \in Nat /\ n \in Nat /\ t <= t
    BY <1>3, Sizes
  <2> HIDE DEF t, n
  <2>2. Clock(n, Giga, t) \in Nat
    BY <2>1, ClockGrows
  <2> QED BY <1>4, <2>2
<1>6. CASE n = 0 \/ g_scale = 0
  <2>1. due' = due
    BY <1>6 DEF timer_oneshot_ns
  <2>2. due = None
    BY <1>6 DEF IInv, Waiting
  <2> QED BY <1>2, <2>1, <2>2 DEF IInv, Waiting, Lasting
<1>7. CASE n # 0 /\ g_scale # 0
  <2> DEFINE u == (t + Ticks(ns)) % Word
  <2>1. due' = u
    BY <1>7 DEF timer_oneshot_ns
  <2>2. n \in Nat \ {0} /\ t \in Nat /\ Clock(n, Giga, t) + ns < Word /\ g_scale = scale(n, Giga)
    BY <1>3, <1>4, <1>7
  <2> HIDE DEF n, t
  <2>3. u \in Nat /\ (Clock(n, Giga, u) <= Clock(n, Giga, t) + ns \/ u <= t + 1)
    BY <2>2, DelayEnds
  <2> HIDE DEF u
  <2>4. Waiting'
    BY <1>1, <1>3, <1>4, <1>5, <1>7, <2>1, <2>3 DEF Waiting, t, n
  <2>5. ASSUME Fits' PROVE (want <= ClockAt(due) + Slack)'
    <3>1. asked' = ns
      BY DEF timer_oneshot_ns
    <3>2. n < One * Giga /\ ns * n < Word * Giga /\ t <= u
      BY <1>1, <1>3, <2>1, <2>5, <3>1 DEF Fits, t, n
    <3>3. u = (t + Ticks(ns)) % Word
      BY DEF u
    <3>4. Clock(n, Giga, t) + ns <= Clock(n, Giga, u) + (((ns \div One + 2) * Giga) \div n + 1)
      BY <2>2, <3>2, <3>3, DelayLasts
    <3>5. ClockAt(due)' = Clock(n, Giga, u) /\ Slack' = ((ns \div One + 2) * Giga) \div n + 1
      BY <1>1, <1>3, <1>4, <2>1, <3>1 DEF Slack, n
    <3> QED BY <1>5, <3>4, <3>5
  <2>6. Lasting'
    <3>1. asked' \in Nat
      BY DEF timer_oneshot_ns
    <3> QED BY <2>5, <3>1 DEF Lasting
  <2> QED BY <1>2, <2>4, <2>6 DEF IInv
<1> QED BY <1>6, <1>7

(* While the timer is set only time goes on. *)
LEMMA LastingKept ==
    ASSUME IInv, tsc \in Nat, tsc' \in Nat, tsc <= tsc',
           g_tick_num' = g_tick_num, g_tick_den' = g_tick_den,
           due' = due, want' = want, asked' = asked
    PROVE  Lasting'
<1>1. ClockAt(due)' = ClockAt(due) /\ Slack' = Slack
  BY DEF ClockAt, Slack
<1>2. due # None /\ Fits' => Fits
  BY DEF IInv, Waiting, Fits
<1> QED BY <1>1, <1>2 DEF IInv, Lasting

LEMMA StepIInv == IInv /\ [Next]_vars => IInv'
<1> SUFFICES ASSUME IInv, [Next]_vars PROVE IInv'
  OBVIOUS
<1>1. CASE CalNext /\ UNCHANGED <<conv, wait>>
  <2>1. /\ g_src' = g_src /\ g_tick_num' = g_tick_num /\ g_tick_den' = g_tick_den /\ g_scale' = g_scale
        /\ due' = due /\ want' = want /\ asked' = asked
    BY <1>1 DEF conv, wait
  <2>2. Measured' /\ tsc <= tsc' /\ tsc \in Nat /\ tsc' \in Nat
    BY <1>1, CalKeeps DEF IInv, Measured
  <2>3. ClockAt(due)' = ClockAt(due)
    BY <2>1 DEF ClockAt
  <2>4. Rated'
    BY <2>1 DEF IInv, Rated
  <2>5. Waiting'
    BY <2>1, <2>2, <2>3 DEF IInv, Waiting
  <2>6. Lasting'
    BY <2>1, <2>2, LastingKept DEF IInv
  <2> QED BY <2>2, <2>4, <2>5, <2>6 DEF IInv
<1>2. CASE SetTickRate
  <2> DEFINE k == IF cpu.deadline THEN tsc_hz ELSE tpu * Kilo
  <2>1. /\ g_src = "NONE" /\ g_src' = (IF cpu.deadline THEN "TSC_DEADLINE" ELSE "LAPIC")
        /\ g_tick_num' = k % Word /\ g_tick_den' = Giga /\ g_scale' = scale(k % Word, Giga)
        /\ due' = due /\ want' = want /\ tsc' = tsc
        /\ cpu' = cpu /\ rate' = rate /\ start' = start /\ tsc_hz' = tsc_hz /\ tpu' = tpu
    BY <1>2 DEF SetTickRate, wait, cal
  <2>2. k \in Nat
    BY Sizes, MultSwap DEF IInv, Measured
  <2> HIDE DEF k
  <2>3. k % Word \in Nat /\ Giga \in Nat
    BY <2>2, Sizes, SMT
  <2>4. due = None
    BY <2>1 DEF IInv, Waiting
  <2>5. Rated'
    BY <2>1, <2>3 DEF Rated
  <2>6. Measured' /\ Waiting' /\ Lasting'
    BY <2>1, <2>4 DEF IInv, Measured, Waiting, Lasting
  <2> QED BY <2>5, <2>6 DEF IInv
<1>3. ASSUME NEW ns \in Delays, Start(ns) PROVE IInv'
  <2>1. ns \in Nat
    BY DelaysAssumption, Sizes
  <2>2. /\ g_src = "TSC_DEADLINE" /\ timer_now_ns + ns < Word /\ timer_oneshot_ns(ns)
        /\ want' = timer_now_ns + ns /\ UNCHANGED <<conv, cal, tsc>>
    BY <1>3 DEF Start
  <2> QED BY <2>1, <2>2, AsksInv
<1>4. CASE Done
  <2>1. /\ g_src' = g_src /\ g_tick_num' = g_tick_num /\ g_tick_den' = g_tick_den /\ g_scale' = g_scale
        /\ cpu' = cpu /\ rate' = rate /\ tsc' = tsc /\ start' = start /\ tsc_hz' = tsc_hz /\ tpu' = tpu
        /\ due' = None
    BY <1>4 DEF Done, conv, cal
  <2> QED BY <2>1 DEF IInv, Measured, Rated, Waiting, Lasting
<1>5. CASE Again
  <2> DEFINE ns == want - timer_now_ns
  <2>1. /\ due # None /\ timer_now_ns < want /\ timer_oneshot_ns(ns) /\ UNCHANGED <<conv, cal, tsc, want>>
    BY <1>5 DEF Again, Fires
  <2>2. timer_now_ns \in Nat
    <3> DEFINE t == tsc
               n == g_tick_num
               d == g_tick_den
    <3>1. t \in Nat /\ n \in Nat /\ d \in Nat /\ t <= t
      BY DEF IInv, Measured, Rated
    <3>2. timer_now_ns = Clock(n, d, t)
      BY DEF timer_now_ns, ClockAt, Clock
    <3> HIDE DEF t, n, d
    <3> QED BY <3>1, <3>2, ClockGrows
  <2>3. want \in Nat /\ want < Word
    BY <2>1 DEF IInv, Waiting
  <2>4. ns \in Nat /\ timer_now_ns + ns < Word /\ want' = timer_now_ns + ns
    BY <2>1, <2>2, <2>3, Sizes
  <2> HIDE DEF ns
  <2> QED BY <2>1, <2>4, AsksInv
<1>6. CASE Tick
  <2>1. /\ g_src' = g_src /\ g_tick_num' = g_tick_num /\ g_tick_den' = g_tick_den /\ g_scale' = g_scale
        /\ cpu' = cpu /\ rate' = rate /\ tsc' = tsc + 1 /\ start' = start /\ tsc_hz' = tsc_hz /\ tpu' = tpu
        /\ due' = due /\ want' = want /\ asked' = asked
    BY <1>6 DEF Tick, conv, cal, wait
  <2>2. ClockAt(due)' = ClockAt(due)
    BY <2>1 DEF ClockAt
  <2>3. tsc \in Nat /\ tsc' \in Nat /\ tsc <= tsc'
    BY <2>1 DEF IInv, Measured
  <2>4. Lasting'
    BY <2>1, <2>3, LastingKept DEF IInv
  <2> QED BY <2>1, <2>2, <2>4 DEF IInv, Measured, Rated, Waiting
<1>7. CASE UNCHANGED vars
  <2>1. /\ g_src' = g_src /\ g_tick_num' = g_tick_num /\ g_tick_den' = g_tick_den /\ g_scale' = g_scale
        /\ cpu' = cpu /\ rate' = rate /\ tsc' = tsc /\ start' = start /\ tsc_hz' = tsc_hz /\ tpu' = tpu
        /\ due' = due /\ want' = want /\ asked' = asked
    BY <1>7 DEF vars, conv, cal, wait
  <2>2. ClockAt(due)' = ClockAt(due)
    BY <2>1 DEF ClockAt
  <2>3. Lasting'
    BY <2>1, <2>2 DEF IInv, Lasting, Fits, Slack
  <2> QED BY <2>1, <2>2, <2>3 DEF IInv, Measured, Rated, Waiting
<1> QED BY <1>1, <1>2, <1>3, <1>4, <1>5, <1>6, <1>7 DEF Next

(* A delay that is under way keeps the bound it was programmed with. *)
THEOREM Invariant == Spec => []IInv
BY InitIInv, StepIInv, PTL DEF Spec

(* A delay programmed by timer_oneshot_ns is over, by the clock of timer_now_ns, when
   its interrupt comes or before, but for the one tick that is the least (NeverLate):
   both roundings of the scale and the cut to a word only shorten it. *)
THEOREM InTime == Spec => []NeverLate
<1>1. IInv => NeverLate
  BY DEF IInv, Waiting, NeverLate
<1> QED BY <1>1, Invariant, PTL

(* A delay is hardly over before its time (HardlyEarly): what timer_set_scale and
   ticks_from_ns cut off costs a tick for the product and one for the scale in every
   2^32 ns, as long as the rate is below 2^32 ticks a nanosecond, and the delay and
   the deadline are below 2^64 ticks. *)
THEOREM NotEarly == Spec => []HardlyEarly
<1>1. IInv => HardlyEarly
  BY DEF IInv, Lasting, HardlyEarly
<1> QED BY <1>1, Invariant, PTL

(* The clock of timer_now_ns never goes back once timer_init has chosen its source
   (ClockMonotone), where it saturates as well: neither the rate nor the TSC does. *)
THEOREM Monotone == Spec => ClockMonotone
<1>1. ASSUME IInv, Next, g_src # "NONE" PROVE timer_now_ns' >= timer_now_ns
  <2> DEFINE t == tsc
             u == tsc'
             n == g_tick_num
             d == g_tick_den
  <2>1. g_tick_num' = n /\ g_tick_den' = d /\ t <= u /\ u \in Nat
    <3>1. CASE CalNext /\ UNCHANGED <<conv, wait>>
      BY <1>1, <3>1, CalKeeps DEF IInv, Measured, conv
    <3>2. CASE Tick
      BY <1>1, <3>2 DEF IInv, Measured, Tick, conv
    <3>3. CASE Again \/ Done \/ \E ns \in Delays : Start(ns)
      BY <1>1, <3>3 DEF IInv, Measured, Again, Done, Start, conv
    <3>4. ~SetTickRate
      BY <1>1 DEF SetTickRate
    <3> QED BY <1>1, <3>1, <3>2, <3>3, <3>4 DEF Next
  <2>2. t \in Nat /\ n \in Nat /\ d \in Nat
    BY <1>1 DEF IInv, Measured, Rated
  <2>3. timer_now_ns = Clock(n, d, t) /\ timer_now_ns' = Clock(n, d, u)
    BY <2>1 DEF timer_now_ns, ClockAt, Clock
  <2> HIDE DEF t, u, n, d
  <2>4. Clock(n, d, t) \in Nat /\ Clock(n, d, t) <= Clock(n, d, u) /\ Clock(n, d, u) \in Nat
    <3>1. u <= u
      BY <2>1
    <3>2. Clock(n, d, u) \in Nat
      BY <2>1, <2>2, <3>1, ClockGrows
    <3> QED BY <2>1, <2>2, <3>2, ClockGrows
  <2> QED BY <2>3, <2>4
<1>2. IInv /\ [Next]_vars => [g_src # "NONE" => timer_now_ns' >= timer_now_ns]_vars
  BY <1>1
<1> QED BY <1>2, Invariant, PTL DEF Spec, ClockMonotone

-----------------------------------------------------------------------------
(* The calibration against the PIT.  While it polls, the TSC has gone on for as many
   ticks of the PIT as the counter has lost, with what its wraps have given it. *)
Elapsed == Divisor(CalUs) - pit + wraps * Wrap

(* The count that will end the loop has been latched. *)
ZeroSeen == phase = "end" \/ (phase \in {"lo", "hi"} /\ latch = 0)

Ready == phase \in {"cpuid", "set"} => tsc = 0 /\ wraps = 0 /\ attentive \in BOOLEAN

Counting ==
    Polling =>
        /\ oneshot = TRUE /\ pit \in 0 .. Wrap - 1 /\ wraps \in Nat /\ gap \in 0 .. MaxGap
        /\ attentive \in BOOLEAN
        /\ wraps <= MaxWraps => tsc = rate * Elapsed

Started ==
    wraps <= MaxWraps =>
        /\ phase = "start" => Elapsed = gap
        /\ phase \in {"latch", "lo", "hi", "end"} => \E e \in 0 .. MaxGap : start = rate * e

Held ==
    /\ phase \in {"lo", "hi"} => latch \in 0 .. Wrap - 1
    /\ phase = "hi" => lo = latch % Byte

(* Since then the counter has gone on from 0 for gap ticks. *)
SinceZero == ZeroSeen => (gap = 0 => pit = 0) /\ (gap # 0 => Wrap - pit <= gap)

(* Where no tick is missed, a counter at 0 has not been read since it got there. *)
Attends ==
    attentive /\ Polling =>
        IF ZeroSeen THEN (gap = 0 /\ pit = 0 /\ wraps = 0) \/ (gap = 1 /\ wraps = 1)
        ELSE wraps = 0 /\ (pit = 0 => gap # 0)

CalInv ==
    /\ Ready /\ Counting /\ Started /\ Held /\ SinceZero /\ Attends
    /\ rate \in Nat /\ (g_src # "NONE" => phase = "found")

LEMMA PitSizes ==
    /\ Byte \in Nat \ {0, 1} /\ Wrap \in Nat /\ Wrap > 1 /\ Byte <= Wrap
    /\ Divisor(CalUs) \in 1 .. Wrap - 1
    /\ None \notin Nat /\ MaxGap \in Nat /\ MaxWraps \in Nat
<1>1. Byte \in Nat \ {0, 1} /\ None \notin Nat /\ MaxGap \in Nat /\ MaxWraps \in Nat
  BY PitAssumption, NoneAssumption, RatesAssumption
<1>2. Wrap \in Nat /\ Byte <= Wrap
  <2>1. Wrap = Byte * Byte /\ 1 * Byte = Byte /\ 1 <= Byte /\ 1 \in Nat
    BY <1>1 DEF Wrap
  <2>2. 1 * Byte <= Byte * Byte
    BY <1>1, <2>1, MultKeeps
  <2> QED BY <1>1, <2>1, <2>2, MultSwap
<1>3. Divisor(CalUs) \in 1 .. Wrap - 1
  <2> DEFINE x == ((PitHz * CalUs) \div Mega)
             y == x % One
             w == Wrap
  <2>1. x \in Nat
    <3> DEFINE z == PitHz * CalUs
    <3>1. z \in Nat
      BY PitAssumption, MultSwap
    <3> HIDE DEF z
    <3>2. z \div Mega \in Nat
      BY <3>1, Sizes, DivBounds
    <3> QED BY <3>2 DEF z
  <2> HIDE DEF x
  <2>2. y \in Nat
    BY <2>1, Sizes, SMT
  <2>3. Divisor(CalUs) = IF y < 1 THEN 1 ELSE IF y > w - 1 THEN w - 1 ELSE y
    BY DEF Divisor, clamp_div, x
  <2>4. w \in Nat /\ w > 1
    BY <1>1, <1>2
  <2> HIDE DEF y, w
  <2>5. Divisor(CalUs) \in 1 .. w - 1
    BY <2>2, <2>3, <2>4
  <2> QED BY <2>5 DEF w
<1> QED BY <1>1, <1>2, <1>3

LEMMA CalInvInit == Init => CalInv
<1> SUFFICES ASSUME Init PROVE CalInv
  OBVIOUS
<1>1. phase = "cpuid" /\ tsc = 0 /\ wraps = 0 /\ attentive = TRUE /\ rate \in Nat /\ g_src = "NONE"
  BY RatesAssumption DEF Init, CalInit
<1> QED BY <1>1 DEF CalInv, Ready, Counting, Started, Held, SinceZero, Attends, Polling, ZeroSeen

(* A tick of the PIT. *)
LEMMA TickElapses ==
    ASSUME CalInv, PitTick
    PROVE  /\ pit' \in 0 .. Wrap - 1 /\ wraps' \in Nat /\ wraps <= wraps'
           /\ pit # 0 => pit' = pit - 1 /\ wraps' = wraps
           /\ pit = 0 => pit' = Wrap - 1 /\ (wraps <= MaxWraps => wraps' = wraps + 1)
           /\ wraps <= MaxWraps => Elapsed' = Elapsed + 1 /\ Elapsed \in Int
<1> DEFINE W == Wrap
           D == Divisor(CalUs)
<1>1. Polling /\ oneshot = TRUE /\ pit \in 0 .. W - 1 /\ wraps \in Nat
  BY DEF PitTick, CalInv, Counting
<1>2. W \in Nat /\ W > 1 /\ D \in 1 .. W - 1 /\ MaxWraps \in Nat
  BY PitSizes
<1>3. /\ pit' = (pit - 1) % W
      /\ wraps' = IF pit' > pit /\ wraps <= MaxWraps THEN wraps + 1 ELSE wraps
  BY <1>1 DEF PitTick
<1>4. Elapsed = D - pit + wraps * W /\ Elapsed' = D - pit' + wraps' * W
  BY DEF Elapsed, Divisor, clamp_div, Wrap
<1> HIDE DEF W, D
<1>5. pit # 0 => pit' = pit - 1
  BY <1>1, <1>2, <1>3, SMT
<1>6. pit = 0 => pit' = W - 1
  BY <1>1, <1>2, <1>3, SMT
<1>7. (pit # 0 => wraps' = wraps) /\ (pit = 0 /\ wraps <= MaxWraps => wraps' = wraps + 1)
      /\ wraps' \in Nat /\ wraps <= wraps'
  BY <1>1, <1>2, <1>3, <1>5, <1>6
<1>8. wraps * W \in Nat /\ (wraps + 1) * W = wraps * W + W
  BY <1>1, <1>2, MultNat
<1>9. wraps <= MaxWraps => Elapsed' = Elapsed + 1 /\ Elapsed \in Int
  <2>1. CASE pit # 0
    BY <1>1, <1>2, <1>4, <1>5, <1>7, <1>8, <2>1
  <2>2. CASE pit = 0
    BY <1>1, <1>2, <1>4, <1>6, <1>7, <1>8, <2>2
  <2> QED BY <2>1, <2>2
<1>10. pit' \in 0 .. W - 1
  BY <1>1, <1>2, <1>5, <1>6
<1> QED BY <1>5, <1>6, <1>7, <1>9, <1>10 DEF W

LEMMA PitTickCal == ASSUME CalInv, PitTick, g_src' = g_src PROVE CalInv'
<1> DEFINE W == Wrap
<1>1. /\ Polling /\ oneshot = TRUE /\ pit \in 0 .. W - 1 /\ wraps \in Nat /\ gap \in 0 .. MaxGap
      /\ attentive \in BOOLEAN /\ (wraps <= MaxWraps => tsc = rate * Elapsed) /\ rate \in Nat
  BY DEF PitTick, CalInv, Counting
<1>2. /\ gap < MaxGap /\ gap' = gap + 1 /\ attentive' = (attentive /\ gap = 0)
      /\ tsc' = (IF wraps' <= MaxWraps THEN tsc + rate ELSE tsc)
      /\ phase' = phase /\ oneshot' = oneshot /\ latch' = latch /\ lo' = lo /\ start' = start /\ rate' = rate
  BY DEF PitTick
<1>3. /\ pit' \in 0 .. W - 1 /\ wraps' \in Nat /\ wraps <= wraps'
      /\ pit # 0 => pit' = pit - 1 /\ wraps' = wraps
      /\ pit = 0 => pit' = W - 1 /\ (wraps <= MaxWraps => wraps' = wraps + 1)
      /\ wraps <= MaxWraps => Elapsed' = Elapsed + 1 /\ Elapsed \in Int
  BY TickElapses
<1>4. W \in Nat /\ W > 1 /\ MaxGap \in Nat /\ MaxWraps \in Nat
  BY PitSizes
<1> HIDE DEF W
<1>5. wraps' <= MaxWraps => wraps <= MaxWraps
  BY <1>1, <1>3, <1>4
<1>6. Polling' = Polling /\ ZeroSeen' = ZeroSeen /\ gap' \in 0 .. MaxGap
  BY <1>1, <1>2, <1>4 DEF Polling, ZeroSeen
<1>7. wraps' <= MaxWraps => tsc' = rate' * Elapsed'
  <2> SUFFICES ASSUME wraps' <= MaxWraps PROVE tsc' = rate * (Elapsed + 1)
    BY <1>2, <1>3, <1>5
  <2>1. Elapsed \in Int /\ tsc' = rate * Elapsed + rate
    BY <1>1, <1>2, <1>3, <1>5
  <2>2. rate * (Elapsed + 1) = rate * Elapsed + rate
    BY <1>1, <2>1, SMT
  <2> QED BY <2>1, <2>2
<1>8. Counting'
  BY <1>1, <1>2, <1>3, <1>6, <1>7 DEF Counting, W
<1>9. Started'
  <2>1. wraps' <= MaxWraps /\ phase = "start" => Elapsed' = gap'
    BY <1>1, <1>2, <1>3, <1>5 DEF CalInv, Started
  <2>2. wraps' <= MaxWraps /\ phase \in {"latch", "lo", "hi", "end"} => \E e \in 0 .. MaxGap : start = rate * e
    BY <1>5 DEF CalInv, Started
  <2> QED BY <1>2, <2>1, <2>2 DEF Started
<1>10. Held' /\ Ready'
  BY <1>1, <1>2 DEF CalInv, Held, Ready, Polling
<1>11. SinceZero'
  <2> SUFFICES ASSUME ZeroSeen PROVE W - pit' <= gap'
    BY <1>1, <1>2, <1>4, <1>6 DEF SinceZero, W
  <2>1. (gap = 0 => pit = 0) /\ (gap # 0 => W - pit <= gap)
    BY DEF CalInv, SinceZero, W
  <2>2. CASE pit = 0
    BY <1>1, <1>2, <1>3, <1>4, <2>1, <2>2
  <2>3. CASE pit # 0
    BY <1>1, <1>2, <1>3, <1>4, <2>1, <2>3
  <2> QED BY <2>2, <2>3
<1>12. Attends'
  <2> SUFFICES ASSUME attentive, gap = 0
               PROVE  IF ZeroSeen THEN (gap' = 0 /\ pit' = 0 /\ wraps' = 0) \/ (gap' = 1 /\ wraps' = 1)
                      ELSE wraps' = 0 /\ (pit' = 0 => gap' # 0)
    BY <1>1, <1>2, <1>6 DEF Attends
  <2>1. IF ZeroSeen THEN pit = 0 /\ wraps = 0 ELSE wraps = 0 /\ pit # 0
    BY <1>1 DEF CalInv, Attends
  <2> QED BY <1>1, <1>2, <1>3, <1>4, <2>1
<1>13. rate' \in Nat /\ (g_src' # "NONE" => phase' = "found")
  BY <1>1, <1>2 DEF CalInv
<1> QED BY <1>8, <1>9, <1>10, <1>11, <1>12, <1>13 DEF CalInv

(* The kernel's steps. *)
LEMMA SetPitCal == ASSUME CalInv, SetPit, g_src' = g_src PROVE CalInv'
<1> DEFINE D == Divisor(CalUs)
<1>1. /\ phase = "set" /\ phase' = "start" /\ pit' = D /\ oneshot' = TRUE /\ gap' = 0
      /\ rate' = rate /\ attentive' = attentive /\ wraps' = wraps /\ tsc' = tsc /\ start' = start
  BY DEF SetPit, pit_oneshot_us
<1>2. tsc = 0 /\ wraps = 0 /\ attentive \in BOOLEAN /\ rate \in Nat /\ g_src = "NONE"
  BY <1>1 DEF CalInv, Ready
<1>3. D \in 1 .. Wrap - 1 /\ MaxGap \in Nat /\ MaxWraps \in Nat /\ Wrap \in Nat
  BY PitSizes
<1>4. Elapsed' = 0
  <2>1. Elapsed' = D - pit' + wraps' * Wrap
    BY DEF Elapsed, Divisor, clamp_div, Wrap
  <2>2. 0 * Wrap = 0
    BY <1>3
  <2> HIDE DEF D
  <2> QED BY <1>1, <1>2, <1>3, <2>1, <2>2
<1>5. rate * 0 = 0
  BY <1>2
<1> HIDE DEF D
<1>6. Counting'
  BY <1>1, <1>2, <1>3, <1>4, <1>5 DEF Counting
<1>7. Ready' /\ Started' /\ Held'
  BY <1>1, <1>2, <1>4 DEF Ready, Started, Held
<1>8. SinceZero' /\ Attends'
  BY <1>1, <1>2, <1>3 DEF SinceZero, Attends, ZeroSeen
<1> QED BY <1>1, <1>2, <1>6, <1>7, <1>8 DEF CalInv

LEMMA ReadCal ==
    ASSUME CalInv, ReadStart \/ LatchPit \/ ReadLo \/ ReadHi, g_src' = g_src PROVE CalInv'
<1>1. /\ phase \in {"start", "latch", "lo", "hi"} /\ phase' \in {"latch", "lo", "hi", "end"}
      /\ pit' = pit /\ oneshot' = oneshot /\ rate' = rate /\ attentive' = attentive /\ wraps' = wraps
      /\ tsc' = tsc
  BY DEF ReadStart, LatchPit, ReadLo, ReadHi, pitState
<1>2. gap' = gap \/ (gap' = 0 /\ LatchPit)
  BY DEF ReadStart, LatchPit, ReadLo, ReadHi, pitState
<1>3. /\ oneshot = TRUE /\ pit \in 0 .. Wrap - 1 /\ wraps \in Nat /\ gap \in 0 .. MaxGap
      /\ attentive \in BOOLEAN /\ (wraps <= MaxWraps => tsc = rate * Elapsed) /\ rate \in Nat
      /\ g_src = "NONE" /\ Polling /\ Polling'
  BY <1>1 DEF CalInv, Counting, Polling
<1>4. Elapsed' = Elapsed
  BY <1>1 DEF Elapsed, Divisor, clamp_div, Wrap
<1>5. None \notin Nat /\ Wrap \in Nat /\ Byte \in Nat \ {0, 1} /\ MaxGap \in Nat
  BY PitSizes
<1>6. Counting' /\ Ready'
  BY <1>1, <1>2, <1>3, <1>4, <1>5 DEF Counting, Ready
<1>7. Started'
  <2>1. CASE ReadStart
    <3>1. phase = "start" /\ start' = tsc /\ (wraps <= MaxWraps => Elapsed = gap)
      BY <2>1 DEF ReadStart, CalInv, Started
    <3> QED BY <1>1, <1>3, <3>1 DEF Started
  <2>2. CASE LatchPit \/ ReadLo \/ ReadHi
    <3>1. phase \in {"latch", "lo", "hi"} /\ start' = start
      BY <2>2 DEF LatchPit, ReadLo, ReadHi
    <3> QED BY <1>1, <3>1 DEF CalInv, Started
  <2> QED BY <2>1, <2>2
<1>8. Held' /\ SinceZero' /\ Attends'
  <2>1. CASE ReadStart
    <3>1. phase = "start" /\ phase' = "latch" /\ gap' = gap
      BY <2>1 DEF ReadStart, pitState
    <3> QED BY <1>1, <1>3, <3>1 DEF CalInv, Held, SinceZero, Attends, ZeroSeen
  <2>2. CASE LatchPit
    <3>1. phase = "latch" /\ phase' = "lo" /\ gap' = 0 /\ latch' = pit
      BY <2>2 DEF LatchPit, Latched
    <3> QED BY <1>1, <1>3, <3>1 DEF CalInv, Held, SinceZero, Attends, ZeroSeen
  <2>3. CASE ReadLo
    <3>1. phase = "lo" /\ phase' = "hi" /\ gap' = gap /\ latch' = latch /\ lo' = Count % Byte
      BY <2>3 DEF ReadLo
    <3>2. latch \in 0 .. Wrap - 1
      BY <3>1 DEF CalInv, Held
    <3>3. Count = latch
      BY <1>5, <3>2 DEF Count
    <3> QED BY <1>1, <1>3, <3>1, <3>2, <3>3 DEF CalInv, Held, SinceZero, Attends, ZeroSeen
  <2>4. CASE ReadHi
    <3>1. /\ phase = "hi" /\ gap' = gap
          /\ phase' = IF (Count \div Byte) * Byte + lo # 0 THEN "latch" ELSE "end"
      BY <2>4 DEF ReadHi
    <3>2. latch \in 0 .. Wrap - 1 /\ lo = latch % Byte
      BY <3>1 DEF CalInv, Held
    <3>3. Count = latch
      BY <1>5, <3>2 DEF Count
    <3>4. phase' = IF latch # 0 THEN "latch" ELSE "end"
      <4>1. (latch \div Byte) * Byte + (latch % Byte) = latch
        <5>1. latch \in Nat /\ Byte \in Nat \ {0}
          BY <1>5, <3>2
        <5> QED BY <5>1, DivMod
      <4>2. (Count \div Byte) * Byte + lo = latch
        BY <3>2, <3>3, <4>1
      <4> QED BY <3>1, <4>2
    <3> QED BY <1>1, <1>3, <3>1, <3>4 DEF CalInv, Held, SinceZero, Attends, ZeroSeen
  <2> QED BY <2>1, <2>2, <2>3, <2>4
<1> QED BY <1>1, <1>3, <1>6, <1>7, <1>8 DEF CalInv

LEMMA CalInvStep == CalInv /\ [Next]_vars => CalInv'
<1> SUFFICES ASSUME CalInv, [Next]_vars PROVE CalInv'
  OBVIOUS
<1>1. CASE CalNext /\ UNCHANGED <<conv, wait>>
  <2>1. g_src' = g_src
    BY <1>1 DEF conv
  <2>2. CASE PitTick
    BY <2>1, <2>2, PitTickCal
  <2>3. CASE SetPit
    BY <2>1, <2>3, SetPitCal
  <2>4. CASE ReadStart \/ LatchPit \/ ReadLo \/ ReadHi
    BY <2>1, <2>4, ReadCal
  <2>5. CASE Identify \/ ReadEnd \/ lapic_timer_calibrate_tsc
    <3>1. /\ phase \in {"cpuid", "end", "lapic"} /\ phase' \in {"failed", "found", "lapic", "set"}
          /\ phase' = "set" => tsc' = tsc /\ phase = "cpuid"
          /\ rate' = rate /\ wraps' = wraps /\ attentive' = attentive
      BY <2>5 DEF Identify, ReadEnd, lapic_timer_calibrate_tsc, Found, pitState
    <3> QED BY <2>1, <3>1 DEF CalInv, Ready, Counting, Started, Held, SinceZero, Attends, Polling, ZeroSeen
  <2> QED BY <1>1, <2>2, <2>3, <2>4, <2>5 DEF CalNext, CalKernel
<1>2. CASE UNCHANGED <<cal, tsc>> /\ (g_src' = g_src \/ phase = "found")
  <2>1. /\ phase' = phase /\ pit' = pit /\ oneshot' = oneshot /\ latch' = latch /\ lo' = lo /\ gap' = gap
        /\ attentive' = attentive /\ wraps' = wraps /\ rate' = rate /\ start' = start /\ tsc' = tsc
    BY <1>2 DEF cal, pitState
  <2>2. Elapsed' = Elapsed
    BY <2>1 DEF Elapsed, Divisor, clamp_div, Wrap
  <2> QED BY <1>2, <2>1, <2>2
          DEF CalInv, Ready, Counting, Started, Held, SinceZero, Attends, Polling, ZeroSeen
<1>3. CASE Tick
  <2>1. phase = "found" /\ phase' = "found" /\ rate' = rate
    BY <1>3 DEF Tick, cal, CalInv
  <2> QED BY <2>1 DEF CalInv, Ready, Counting, Started, Held, SinceZero, Attends, Polling, ZeroSeen
<1>4. (CalNext /\ UNCHANGED <<conv, wait>>) \/ Tick \/ (UNCHANGED <<cal, tsc>> /\ (g_src' = g_src \/ phase = "found"))
  BY DEF Next, vars, SetTickRate, Start, Done, Again, conv
<1> QED BY <1>1, <1>2, <1>3, <1>4

LEMMA TimesInt ==
    ASSUME NEW r \in Nat, NEW a \in Int, NEW b \in Int, a <= b
    PROVE  r * a <= r * b
BY SMT

LEMMA TimesMinus ==
    ASSUME NEW r \in Nat, NEW a \in Int, NEW b \in Int
    PROVE  r * a - r * b = r * (a - b) /\ r * a \in Int /\ r * b \in Int
BY SMT

(* What tsc_hz_calibrate_pit measures is the interval it asked the PIT for, give or
   take the gaps at its ends, and one more turn of the counter for every reading of 0
   that its polls have missed; polls that are never more than a tick apart miss none
   (CalibrationHonest). *)
THEOREM Honest == Spec => []CalibrationHonest
<1>1. ASSUME CalInv, phase = "end", wraps <= MaxWraps
      PROVE  LET ticks == Divisor(CalUs) + Missed * Wrap IN
             /\ tsc - start \in rate * (ticks - MaxGap) .. rate * (ticks + MaxGap)
             /\ attentive => Missed = 0
  <2> DEFINE D == Divisor(CalUs)
             W == Wrap
             p == Missed * W
             ticks == D + p
             a == ticks - MaxGap
             b == ticks + MaxGap
  <2>1. /\ pit \in 0 .. W - 1 /\ wraps \in Nat /\ gap \in 0 .. MaxGap /\ tsc = rate * Elapsed
        /\ rate \in Nat /\ attentive \in BOOLEAN
    BY <1>1 DEF CalInv, Counting, Polling
  <2>2. PICK e \in 0 .. MaxGap : start = rate * e
    BY <1>1 DEF CalInv, Started
  <2>3. (gap = 0 => pit = 0) /\ (gap # 0 => W - pit <= gap)
    BY <1>1 DEF CalInv, SinceZero, ZeroSeen
  <2>4. W \in Nat /\ W > 1 /\ D \in 1 .. W - 1 /\ MaxGap \in Nat
    BY PitSizes
  <2>5. Elapsed = D - pit + wraps * W
    BY DEF Elapsed
  <2>6. attentive => Missed = 0
    BY <1>1, <2>1 DEF CalInv, Attends, Polling, ZeroSeen, Missed
  <2>7. wraps * W \in Int /\ p \in Int /\ (gap = 0 => p = wraps * W) /\ (gap # 0 => p = wraps * W - W)
    <3>1. CASE gap = 0
      BY <2>1, <2>4, <3>1, SMT DEF Missed
    <3>2. CASE gap # 0
      BY <2>1, <2>4, <3>2, SMT DEF Missed
    <3> QED BY <3>1, <3>2
  <2> DEFINE E == Elapsed
             m == wraps * W
  <2>8. E = D - pit + m /\ m \in Int /\ (gap = 0 => p = m) /\ (gap # 0 => p = m - W)
    BY <2>5, <2>7
  <2> HIDE DEF D, W, p, E, m
  <2>9. E \in Int /\ a \in Int /\ b \in Int /\ a <= E - e /\ E - e <= b
    BY <2>1, <2>2, <2>3, <2>4, <2>7, <2>8
  <2>10. tsc - start = rate * (E - e) /\ tsc \in Int /\ start \in Int
    <3>1. tsc = rate * E /\ e \in Int
      BY <2>1 DEF E
    <3> QED BY <2>1, <2>2, <2>9, <3>1, TimesMinus
  <2> HIDE DEF a, b
  <2> DEFINE c == E - e
  <2>11. c \in Int /\ a <= c /\ c <= b
    BY <2>9, <2>2
  <2> HIDE DEF c
  <2>12. rate * a <= rate * c /\ rate * c <= rate * b
    BY <2>1, <2>9, <2>11, TimesInt
  <2>13. rate * a \in Int /\ rate * b \in Int /\ rate * c \in Int
    BY <2>1, <2>9, <2>11, TimesMinus
  <2>14. tsc - start = rate * c
    BY <2>10 DEF c
  <2>15. tsc - start \in rate * a .. rate * b
    BY <2>12, <2>13, <2>14
  <2> QED BY <2>6, <2>15 DEF a, b, D, W, p
<1>2. CalInv => CalibrationHonest
  BY <1>1 DEF CalibrationHonest
<1> QED BY <1>2, CalInvInit, CalInvStep, PTL DEF Spec
=============================================================================

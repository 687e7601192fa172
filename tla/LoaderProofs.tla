----------------------------- MODULE LoaderProofs -----------------------------
(***************************************************************************)
(* What the kernel makes of the boot loader's answers.  First Pmm: the     *)
(* pages of the memory map are never lost and never handed out twice.      *)
(* Then BootInfo: the report tells the answers, all of them and nothing    *)
(* else.  Then Startup: what joins the two.  All for every memory map and  *)
(* every answer the protocol allows.                                       *)
(***************************************************************************)
EXTENDS Startup, NatFacts, FiniteSetTheorems, SequenceTheorems

(***************************************************************************)
(* Pages and bytes.                                                        *)
(***************************************************************************)

(* mark_range takes the pages that hold a byte of the range: it rounds outward
   at both ends. *)
LEMMA MarkRange ==
    ASSUME NEW b \in Nat, NEW l \in Nat, NEW t \in Nat, NEW p \in 0 .. t - 1
    PROVE  p \in mark_range(b, l, t) <=> b < (p + 1) * PageSize /\ p * PageSize < b + l
<1> USE SizesAssumption
<1> DEFINE y == b + l + PageSize - 1
           d == y \div PageSize
<1>1. align_down(b) <= p * PageSize <=> b < (p + 1) * PageSize
  <2>1. b \div PageSize \in Nat
    BY DivBounds
  <2>2. (b \div PageSize) * PageSize <= p * PageSize <=> b \div PageSize <= p
    BY <2>1, MultMono
  <2> QED BY <2>2, DivLess DEF align_down
<1>2. p * PageSize < align_up(b + l) <=> p * PageSize < b + l
  <2>1. y \in Nat /\ d \in Nat
    BY DivBounds
  <2>2. align_up(b + l) = d * PageSize
    BY DEF align_up, align_down
  <2>3. d * PageSize <= p * PageSize <=> d <= p
    BY <2>1, MultMono
  <2>4. d <= p <=> y < (p + 1) * PageSize
    BY <2>1, DivLess
  <2>5. (p + 1) * PageSize = p * PageSize + PageSize /\ p * PageSize \in Nat
    BY MultNat
  <2>6. d * PageSize \in Nat
    BY <2>1, MultNat
  <2> HIDE DEF d
  <2> QED BY <2>2, <2>3, <2>4, <2>5, <2>6
<1> QED BY <1>1, <1>2 DEF mark_range

(* An aligned address is the first byte of a page. *)
LEMMA Aligned ==
    ASSUME NEW x \in Nat, x % PageSize = 0
    PROVE  \E q \in Nat : x = q * PageSize /\ align_down(x) = x /\ align_up(x) = x
<1> USE SizesAssumption
<1> DEFINE q == x \div PageSize
<1>1. q \in Nat /\ x = q * PageSize
  BY DivBounds, SMT
<1>2. align_down(x) = x
  BY <1>1 DEF align_down
<1>3. align_up(x) = x
  <2> DEFINE y == x + PageSize - 1
  <2>1. y \in Nat /\ y \div PageSize \in Nat
    BY DivBounds
  <2>2. (q + 1) * PageSize = x + PageSize
    BY <1>1, MultNat
  <2>3. y \div PageSize <= q
    BY <1>1, <2>1, <2>2, DivLess
  <2>4. CASE q = 0
    BY <1>1, <2>1, <2>3, <2>4 DEF align_up, align_down
  <2>5. CASE q > 0
    <3>1. q - 1 \in Nat /\ (q - 1) + 1 = q
      BY <1>1, <2>5
    <3>2. y \div PageSize <= q - 1 <=> y < q * PageSize
      BY <2>1, <3>1, DivLess
    <3>3. y \div PageSize = q
      BY <1>1, <2>1, <2>3, <3>1, <3>2
    <3> QED BY <1>1, <3>3 DEF align_up, align_down
  <2> QED BY <1>1, <2>4, <2>5
<1> QED BY <1>1, <1>2, <1>3

(* A run of n pages outside a finite set adds n to its size. *)
LEMMA RunCardinality ==
    ASSUME NEW S, IsFiniteSet(S), NEW s \in Nat, NEW n \in Nat \ {0},
           S \cap (s .. s + n - 1) = {}
    PROVE  /\ IsFiniteSet(S \cup (s .. s + n - 1))
           /\ Cardinality(S \cup (s .. s + n - 1)) = Cardinality(S) + n
<1> DEFINE R == s .. s + n - 1
<1>1. IsFiniteSet(R) /\ Cardinality(R) = n
  BY FS_Interval
<1>2. Cardinality(S) \in Nat /\ Cardinality({}) = 0
  BY FS_CardinalityType, FS_EmptySet
<1>3. S \cap R = {}
  OBVIOUS
<1> HIDE DEF R
<1>4. IsFiniteSet(S \cup R) /\ Cardinality(S \cup R) = Cardinality(S) + Cardinality(R) - Cardinality(S \cap R)
  BY <1>1, FS_Union
<1>5. Cardinality(S \cap R) = 0
  BY <1>2, <1>3, Zenon
<1>6. Cardinality(S \cup R) = Cardinality(S) + n
  BY <1>1, <1>2, <1>4, <1>5
<1> QED BY <1>4, <1>6 DEF R

LEMMA FreeFinite ==
    ASSUME g_total_pages \in Nat
    PROVE  IsFiniteSet(FreePages) /\ Cardinality(FreePages) \in Nat
<1>1. IsFiniteSet(0 .. g_total_pages - 1)
  BY FS_Interval
<1>2. FreePages \in SUBSET (0 .. g_total_pages - 1)
  BY DEF FreePages
<1> QED BY <1>1, <1>2, FS_Subset, FS_CardinalityType

(***************************************************************************)
(* pmm_init.                                                               *)
(***************************************************************************)

(* What the loader promises of the entries, entry by entry. *)
LEMMA EntryFacts ==
    ASSUME memmap \in MemMaps, NEW e \in Entries
    PROVE  /\ e.base \in Nat /\ e.length \in Nat
           /\ e.base >= PageSize /\ e.base % PageSize = 0
           /\ EndOf(e) \in Nat /\ EndOf(e) > e.base /\ EndOf(e) % PageSize = 0
<1> USE SizesAssumption
<1>1. PICK n \in DOMAIN memmap : e = memmap[n]
  BY DEF Entries
<1>2. memmap \in Seq([base : Nat, length : Nat]) /\ AlignedEntry(e)
  BY <1>1, MemMapAssumption
<1>3. e \in [base : Nat, length : Nat]
  BY <1>1, <1>2, ElementOfSeq, LenProperties
<1>4. PICK b \in Nat : e.base = b * PageSize
  BY <1>2, <1>3, Aligned DEF AlignedEntry
<1>5. PICK c \in Nat : e.length = c * PageSize
  BY <1>2, <1>3, Aligned DEF AlignedEntry
<1> DEFINE q == b + c
<1>6. q \in Nat /\ EndOf(e) = q * PageSize
  BY <1>4, <1>5 DEF EndOf
<1>7. EndOf(e) % PageSize = 0
  <2>1. (q * PageSize) % PageSize = 0
    <3> HIDE DEF q
    <3> QED BY <1>6, ModMult, Zenon
  <2> QED BY <1>6, <2>1
<1>8. e.base >= PageSize /\ e.length > 0 /\ e.base % PageSize = 0
  BY <1>2 DEF AlignedEntry
<1>9. e.base \in Nat /\ e.length \in Nat
  BY <1>3
<1>10. EndOf(e) \in Nat /\ EndOf(e) > e.base
  <2> HIDE DEF q
  <2> QED BY <1>8, <1>9 DEF EndOf
<1> QED BY <1>7, <1>8, <1>9, <1>10

LEMMA MaxPhys ==
    ASSUME memmap \in MemMaps
    PROVE  max_phys \in Nat /\ \A e \in Entries : EndOf(e) <= max_phys
<1> DEFINE N == Len(memmap)
           Ends == {0} \cup {EndOf(e) : e \in Entries}
           Bound(n, x) == \A m \in 1 .. n : EndOf(memmap[m]) <= x
           Bad == {n \in 0 .. N : ~ \E x \in Ends : Bound(n, x)}
<1>1. N \in Nat /\ DOMAIN memmap = 1 .. N
  BY MemMapAssumption
<1>2. Ends \subseteq Nat
  BY EntryFacts
<1>3. \A m \in 1 .. N : memmap[m] \in Entries /\ EndOf(memmap[m]) \in Ends
  BY <1>1 DEF Entries
<1>4. Bad = {}
  <2> SUFFICES ASSUME Bad # {} PROVE FALSE
    OBVIOUS
  <2>20. Bad \in SUBSET Nat
    BY <1>1
  <2>1. PICK n \in Bad : \A k \in Bad : n <= k
    <3> HIDE DEF Bad
    <3> QED BY <2>20, LeastNat
  <2>21. n \in 0 .. N
    BY <2>1
  <2>2. n # 0
    BY <2>1
  <2>3. n - 1 \in 0 .. N /\ n - 1 \notin Bad
    <3> HIDE DEF Bad, N
    <3> QED BY <1>1, <2>1, <2>21, <2>2
  <2>4. PICK x \in Ends : Bound(n - 1, x)
    BY <2>3
  <2>5. n \in 1 .. N
    BY <2>21, <2>2
  <2> DEFINE z == EndOf(memmap[n])
  <2>6. z \in Ends
    BY <1>3, <2>5
  <2>22. z \in Nat /\ x \in Nat
    <3> HIDE DEF z, Ends
    <3> QED BY <1>2, <2>4, <2>6
  <2>7. \A m \in 1 .. n : m \in 1 .. n - 1 \/ m = n
    BY <2>5
  <2>8. CASE z <= x
    BY <2>1, <2>4, <2>7, <2>8
  <2>9. CASE x <= z
    <3>1. ASSUME NEW m \in 1 .. n - 1 PROVE EndOf(memmap[m]) <= z
      <4>1. m \in 1 .. N
        BY <1>1, <2>5
      <4>2. EndOf(memmap[m]) \in Nat /\ x \in Nat /\ z \in Nat
        <5> HIDE DEF Ends, z
        <5> QED BY <1>2, <1>3, <2>6, <4>1
      <4>3. EndOf(memmap[m]) <= x
        BY <2>4
      <4> HIDE DEF z
      <4> QED BY <2>9, <4>2, <4>3
    <3>2. Bound(n, z)
      <4>1. z <= z
        BY <2>22
      <4>2. ASSUME NEW m \in 1 .. n PROVE EndOf(memmap[m]) <= z
        BY <2>7, <3>1, <4>1
      <4> QED BY <4>2
    <3> QED BY <2>1, <2>6, <3>2
  <2> QED BY <2>22, <2>8, <2>9
<1>5. PICK x \in Ends : Bound(N, x)
  BY <1>1, <1>4
<1>6. \A e \in Entries : EndOf(e) <= x
  BY <1>1, <1>5 DEF Entries
<1> QED BY <1>2, <1>6 DEF max_phys

(* The map covers every page, and the bitmap has a bit for each. *)
LEMMA BitmapCovers ==
    ASSUME memmap \in MemMaps
    PROVE  /\ TotalPages \in Nat /\ BitmapBytes \in Nat
           /\ TotalPages <= BitmapBytes * BitsPerByte
           /\ Entries # {} => TotalPages > 0 /\ BitmapBytes > 0
<1> USE SizesAssumption
<1> DEFINE x == max_phys + PageSize - 1
           d == x \div PageSize
<1>1. max_phys \in Nat /\ x \in Nat /\ d \in Nat
  BY MaxPhys, DivBounds
<1>2. TotalPages = d
  BY <1>1, DivMult DEF TotalPages, align_up, align_down
<1>3. ASSUME Entries # {} PROVE TotalPages > 0
  <2>1. PICK e \in Entries : TRUE
    BY <1>3
  <2>2. max_phys >= PageSize
    BY <1>1, <2>1, EntryFacts, MaxPhys
  <2>3. ~ (d <= 0)
    BY <1>1, <2>2, DivLess
  <2> QED BY <1>1, <1>2, <2>3
<1> DEFINE y == d + BitsPerByte - 1
           q == y \div BitsPerByte
<1>4. y \in Nat /\ q \in Nat /\ y < q * BitsPerByte + BitsPerByte
  BY <1>1, DivBounds
<1>5. BitmapBytes = q
  BY <1>2 DEF BitmapBytes
<1>6. q * BitsPerByte \in Nat
  BY <1>4, MultNat
<1>7. d <= q * BitsPerByte
  <2> HIDE DEF q, d
  <2> QED BY <1>1, <1>4, <1>6
<1>8. d > 0 => q > 0
  <2>1. q = 0 => q * BitsPerByte = 0
    OBVIOUS
  <2> HIDE DEF q, d
  <2> QED BY <1>1, <1>4, <1>7, <2>1
<1> QED BY <1>1, <1>2, <1>3, <1>4, <1>5, <1>7, <1>8
(* The place that is chosen is free memory, clear of the kernel. *)
LEMMA PlaceFacts ==
    ASSUME memmap \in MemMaps, kernel \in Kernels, place_bitmap_phys # NULL
    PROVE  LET at == place_bitmap_phys IN
           /\ Entries # {}
           /\ at \in Nat
           /\ \E e \in Entries : e.base <= at /\ at + BitmapBytes <= EndOf(e)
           /\ ~ (at < kernel.end /\ kernel.start < at + BitmapBytes)
<1> USE SizesAssumption
<1> DEFINE Room == {n \in DOMAIN memmap : HasRoom(memmap[n])}
<1>1. Room # {} /\ Room \in SUBSET Nat /\ DOMAIN memmap = 1 .. Len(memmap)
  <2>1. DOMAIN memmap = 1 .. Len(memmap) /\ Len(memmap) \in Nat
    BY MemMapAssumption, LenProperties
  <2>2. Room # {}
    BY DEF place_bitmap_phys
  <2> QED BY <2>1, <2>2
<1>2. PICK m \in Room : \A n \in Room : m <= n
  <2> HIDE DEF Room
  <2> QED BY <1>1, LeastNat
<1>3. \A k \in 1 .. m - 1 : ~ HasRoom(memmap[k])
  BY <1>1, <1>2
<1> DEFINE First(n) == HasRoom(memmap[n]) /\ \A k \in 1 .. n - 1 : ~ HasRoom(memmap[k])
           f == CHOOSE n \in DOMAIN memmap : First(n)
<1>4. f \in DOMAIN memmap /\ First(f)
  BY <1>2, <1>3
<1>5. PICK e \in Entries : HasRoom(e) /\ place_bitmap_phys = BitmapIn(e)
  BY <1>1, <1>4 DEF place_bitmap_phys, Entries
<1> DEFINE x == EndOf(e) - BitmapBytes
           at == place_bitmap_phys
<1>6. /\ e.base \in Nat /\ EndOf(e) \in Nat /\ BitmapBytes \in Nat
      /\ align_down(EndOf(e)) = EndOf(e) /\ align_up(e.base) = e.base
  BY EntryFacts, BitmapCovers, Aligned
<1>7. BitmapBytes <= EndOf(e) - e.base
  BY <1>5, <1>6 DEF HasRoom
<1>8. x \in Nat /\ x >= e.base
  BY <1>6, <1>7
<1>9. at = align_down(x)
  BY <1>5, <1>6 DEF BitmapIn
<1>10. at \in Nat /\ at <= x
  <2>1. (x \div PageSize) \in Nat /\ (x \div PageSize) * PageSize <= x
    BY <1>8, DivBounds
  <2>2. (x \div PageSize) * PageSize \in Nat
    BY <2>1, MultNat
  <2> QED BY <1>9, <2>1, <2>2 DEF align_down
<1>11. e.base <= at
  <2>1. PICK q \in Nat : e.base = q * PageSize
    BY EntryFacts, Aligned
  <2>2. q <= x \div PageSize
    <3>1. x \div PageSize \in Nat /\ x < (x \div PageSize) * PageSize + PageSize
      BY <1>8, DivBounds
    <3>2. ((x \div PageSize) + 1) * PageSize = (x \div PageSize) * PageSize + PageSize
      BY <3>1, MultNat
    <3>3. q * PageSize < ((x \div PageSize) + 1) * PageSize
      BY <1>8, <2>1, <3>1, <3>2, MultNat
    <3>4. (x \div PageSize) + 1 \in Nat
      BY <3>1
    <3>5. ((x \div PageSize) + 1) * PageSize <= q * PageSize <=> (x \div PageSize) + 1 <= q
      BY <3>4, MultMono
    <3>6. ((x \div PageSize) + 1) * PageSize \in Nat /\ q * PageSize \in Nat
      BY <3>4, MultNat
    <3> HIDE DEF x
    <3> QED BY <3>1, <3>3, <3>5, <3>6
  <2>3. q * PageSize <= (x \div PageSize) * PageSize
    BY <1>8, <2>2, DivBounds, MultMono
  <2> QED BY <1>9, <2>1, <2>3 DEF align_down
<1>12. ~ (at < kernel.end /\ kernel.start < at + BitmapBytes)
  BY <1>5 DEF HasRoom, ranges_overlap
<1>13. at + BitmapBytes <= EndOf(e)
  BY <1>6, <1>10
<1> QED BY <1>5, <1>10, <1>11, <1>12, <1>13
(* A usable entry has the whole of each page it reaches. *)
LEMMA WholePages ==
    ASSUME memmap \in MemMaps, NEW e \in Entries, NEW t \in Nat, NEW p \in 0 .. t - 1
    PROVE  /\ p \in mark_range(e.base, e.length, t)
                 <=> Bytes(p) \subseteq e.base .. EndOf(e) - 1
           /\ p \in mark_range(e.base, e.length, t) => p > 0
<1> USE SizesAssumption
<1> DEFINE lo == p * PageSize
           hi == (p + 1) * PageSize
<1>1. lo \in Nat /\ hi = lo + PageSize
  BY MultNat
<1>2. e.base \in Nat /\ e.length \in Nat /\ EndOf(e) = e.base + e.length /\ e.base >= PageSize
  BY EntryFacts DEF EndOf
<1>3. PICK b \in Nat : e.base = b * PageSize
  BY EntryFacts, Aligned
<1>4. PICK c \in Nat : EndOf(e) = c * PageSize
  BY EntryFacts, Aligned
<1>5. p \in mark_range(e.base, e.length, t) <=> e.base < hi /\ lo < EndOf(e)
  BY <1>2, MarkRange
<1>6. e.base < hi <=> e.base <= lo
  <2>1. (p + 1) * PageSize <= b * PageSize <=> p + 1 <= b
    BY MultMono
  <2>2. b * PageSize <= p * PageSize <=> b <= p
    BY MultMono
  <2> HIDE DEF lo, hi
  <2>3. hi <= e.base <=> p + 1 <= b
    BY <1>3, <2>1 DEF hi
  <2>4. e.base <= lo <=> b <= p
    BY <1>3, <2>2 DEF lo
  <2> QED BY <1>1, <1>2, <2>3, <2>4
<1>7. lo < EndOf(e) <=> hi <= EndOf(e)
  <2>1. (p + 1) * PageSize <= c * PageSize <=> p + 1 <= c
    BY MultMono
  <2>2. c * PageSize <= p * PageSize <=> c <= p
    BY MultMono
  <2> HIDE DEF lo, hi
  <2>3. hi <= EndOf(e) <=> p + 1 <= c
    BY <1>4, <2>1 DEF hi
  <2>4. EndOf(e) <= lo <=> c <= p
    BY <1>4, <2>2 DEF lo
  <2> QED BY <1>1, <1>2, <2>3, <2>4
<1>8. Bytes(p) = lo .. hi - 1
  BY DEF Bytes
<1> HIDE DEF lo, hi
<1>9. e.base <= lo /\ hi <= EndOf(e) <=> lo .. hi - 1 \subseteq e.base .. EndOf(e) - 1
  <2>1. lo \in lo .. hi - 1 /\ hi - 1 \in lo .. hi - 1
    BY <1>1
  <2> QED BY <1>1, <1>2, <2>1
<1>10. e.base <= lo => p > 0
  BY <1>2 DEF lo
<1> QED BY <1>5, <1>6, <1>7, <1>8, <1>9, <1>10

(* A range of bytes that is not empty marks the pages it has a byte on. *)
LEMMA TouchedPages ==
    ASSUME NEW a \in Nat, NEW l \in Nat, l > 0, NEW t \in Nat, NEW p \in 0 .. t - 1
    PROVE  p \in mark_range(a, l, t) <=> Bytes(p) \cap (a .. a + l - 1) # {}
<1> USE SizesAssumption
<1> DEFINE lo == p * PageSize
           hi == (p + 1) * PageSize
<1>1. lo \in Nat /\ hi = lo + PageSize /\ Bytes(p) = lo .. hi - 1
  BY MultNat DEF Bytes
<1>2. p \in mark_range(a, l, t) <=> a < hi /\ lo < a + l
  BY MarkRange
<1> HIDE DEF lo, hi
<1>3. ASSUME a < hi, lo < a + l PROVE (lo .. hi - 1) \cap (a .. a + l - 1) # {}
  <2>1. CASE a <= lo
    <3>1. lo \in lo .. hi - 1 /\ lo \in a .. a + l - 1
      BY <1>1, <1>3, <2>1
    <3> QED BY <3>1
  <2>2. CASE lo <= a
    <3>1. a \in lo .. hi - 1 /\ a \in a .. a + l - 1
      BY <1>1, <1>3, <2>2
    <3> QED BY <3>1
  <2> QED BY <1>1, <2>1, <2>2
<1>4. ASSUME NEW x \in (lo .. hi - 1) \cap (a .. a + l - 1) PROVE a < hi /\ lo < a + l
  BY <1>1
<1> QED BY <1>1, <1>2, <1>3, <1>4

(* What pmm_init leaves free is what there is to hand out. *)
LEMMA InitFree ==
    ASSUME memmap \in MemMaps, kernel \in Kernels, pmm_init
    PROVE  FreePages' = Available'
<1> DEFINE T == TotalPages
           B == BitmapBytes
           at == place_bitmap_phys
<1>1. T \in Nat /\ B \in Nat /\ B > 0 /\ T <= B * BitsPerByte /\ at \in Nat
  BY BitmapCovers, PlaceFacts DEF pmm_init
<1>2. kernel.start \in Nat /\ kernel.end \in Nat /\ kernel.start < kernel.end
  BY KernelAssumption
<1>3. /\ g_total_pages' = T /\ g_bitmap_bytes' = B /\ g_bitmap' = at /\ memmap' = memmap
      /\ kernel' = kernel /\ pc' = "idle"
      /\ bits' = ((0 .. B * BitsPerByte - 1) \ Usable(T)) \cup Reserved(at)
  BY DEF pmm_init, info
<1>4. FreePages' = (0 .. T - 1) \ bits'
  BY <1>3 DEF FreePages, Running
<1>5. Available' = {p \in 1 .. T - 1 :
        /\ \E e \in Entries : Bytes(p) \subseteq e.base .. EndOf(e) - 1
        /\ Bytes(p) \cap (KernelRange \cup (at .. at + B - 1)) = {}}
  BY <1>3 DEF Available, Entries, EndOf, Bytes, KernelRange, BitmapRange
<1> HIDE DEF T, B, at
<1>6. ASSUME NEW p \in 0 .. T - 1
      PROVE  /\ p \in Usable(T) <=> \E e \in Entries : Bytes(p) \subseteq e.base .. EndOf(e) - 1
             /\ p \in Usable(T) => p > 0
  BY <1>1, WholePages DEF Usable
<1>7. ASSUME NEW p \in 0 .. T - 1
      PROVE  p \in Reserved(at) <=> Bytes(p) \cap (KernelRange \cup (at .. at + B - 1)) # {}
  <2>1. p \in mark_range(kernel.start, kernel.end - kernel.start, T)
          <=> Bytes(p) \cap KernelRange # {}
    <3> DEFINE l == kernel.end - kernel.start
    <3>1. l \in Nat /\ l > 0 /\ kernel.start + l - 1 = kernel.end - 1
      BY <1>2
    <3> HIDE DEF l
    <3>2. p \in mark_range(kernel.start, l, T)
            <=> Bytes(p) \cap (kernel.start .. kernel.start + l - 1) # {}
      BY <1>1, <1>2, <3>1, TouchedPages
    <3> QED BY <3>1, <3>2 DEF KernelRange, l
  <2>2. p \in mark_range(at, B, T) <=> Bytes(p) \cap (at .. at + B - 1) # {}
    BY <1>1, TouchedPages
  <2>3. Reserved(at) = mark_range(kernel.start, kernel.end - kernel.start, T)
                            \cup mark_range(at, B, T)
    BY DEF Reserved, T, B
  <2> QED BY <2>1, <2>2, <2>3
<1>8. \A p \in 0 .. T - 1 : p \in 0 .. B * BitsPerByte - 1
  BY <1>1, SizesAssumption, MultNat
<1>9. ASSUME NEW p \in 0 .. T - 1
      PROVE  p \notin bits' <=> p \in Usable(T) /\ p \notin Reserved(at)
  BY <1>3, <1>8
<1>10. \A p : p \in FreePages' <=> p \in Available'
  <2>1. \A p \in 0 .. T - 1 : p \in 1 .. T - 1 <=> p > 0
    BY <1>1
  <2>2. \A p \in 1 .. T - 1 : p \in 0 .. T - 1
    BY <1>1
  <2> QED BY <1>4, <1>5, <1>6, <1>7, <1>9, <2>1, <2>2
<1> QED BY <1>10
(***************************************************************************)
(* The inductive invariant.  What the properties say is not inductive: the *)
(* scan finds the first run because of what it knows of the pages it has   *)
(* passed.                                                                 *)
(***************************************************************************)

AtBoot ==
    /\ ~ Running => held = {}
    /\ pc = "boot" => i = 0 /\ run = 0 /\ run_start = 0 /\ ret = 0 /\ bits = {}

(* The run that ends at i is free, goes back as far as it can, and no run of
   page_count pages lies wholly before i. *)
ScanOK ==
    pc = "scan" =>
        /\ page_count > 0 /\ run < page_count /\ run <= i
        /\ run > 0 => run_start + run = i
        /\ \A q \in i - run .. i - 1 : q \notin bits
        /\ run < i => i - run - 1 \in bits
        /\ \A s \in Nat : s + page_count <= i => \E q \in s .. s + page_count - 1 : q \in bits

IInv ==
    /\ TypeOK /\ AtBoot /\ ScanOK
    /\ NothingLost /\ Accounted /\ BitmapPlaced

LEMMA InitIInv == Init => IInv
<1> USE SizesAssumption, RequestAssumption
<1> SUFFICES ASSUME Init PROVE IInv
  OBVIOUS
<1>1. ~ Running /\ pc # "scan"
  BY DEF Init, InitialState, Running
<1>2. TypeOK
  <2>1. ret \in {p * PageSize : p \in 0 .. g_total_pages}
    BY DEF Init, InitialState, NULL
  <2> QED BY <2>1 DEF Init, InitialState, TypeOK, NULL
<1> QED BY <1>1, <1>2 DEF IInv, AtBoot, ScanOK, NothingLost, Accounted, BitmapPlaced,
              Init, InitialState, NULL

(* The pages a client can have: below g_total_pages, not page 0, with their bit set. *)
LEMMA HeldFacts ==
    ASSUME IInv, Running
    PROVE  /\ FreePages = (0 .. g_total_pages - 1) \ bits
           /\ held \subseteq 1 .. g_total_pages - 1
           /\ held \subseteq bits
           /\ 0 \notin FreePages
<1>1. FreePages = (0 .. g_total_pages - 1) \ bits
  BY DEF FreePages
<1>2. FreePages \cup held = Available /\ FreePages \cap held = {} /\ g_total_pages \in Nat
  BY DEF IInv, NothingLost, TypeOK
<1>3. Available \subseteq 1 .. g_total_pages - 1
  BY DEF Available
<1>4. held \subseteq 1 .. g_total_pages - 1 /\ FreePages \subseteq 1 .. g_total_pages - 1
  BY <1>2, <1>3
<1>5. held \subseteq bits
  BY <1>1, <1>2, <1>4
<1>6. 0 \notin FreePages
  BY <1>2, <1>4
<1> QED BY <1>1, <1>4, <1>5, <1>6

(* Where the run that ends with page i starts, and that its pages are free. *)
LEMMA RunFacts ==
    ASSUME IInv, Scanning, i \notin bits
    PROVE  /\ RunStart = i - run /\ RunStart \in 0 .. i
           /\ \A q \in RunStart .. i : q \notin bits
<1>1. pc = "scan" /\ i \in Nat /\ run \in Nat /\ run <= i /\ run_start \in Nat
  BY DEF IInv, ScanOK, Scanning, TypeOK
<1>2. RunStart = i - run
  BY <1>1 DEF IInv, ScanOK, RunStart
<1>3. \A q \in i - run .. i - 1 : q \notin bits
  BY <1>1 DEF IInv, ScanOK
<1> QED BY <1>1, <1>2, <1>3

(* The page pmm_alloc_pages returns starts the lowest run of free pages. *)
LEMMA FoundFirst ==
    ASSUME IInv, ScanFound
    PROVE  /\ page_count \in 1 .. MaxRequest
           /\ Taken = RunStart .. i /\ Taken \subseteq FreePages
           /\ \A s \in Nat : s .. s + page_count - 1 \subseteq FreePages => RunStart <= s
<1>1. /\ pc = "scan" /\ i \notin bits /\ Scanning /\ run + 1 = page_count /\ i < g_total_pages
      /\ i \in Nat /\ run \in Nat /\ g_total_pages \in Nat /\ page_count \in 1 .. MaxRequest
  BY DEF ScanFound, Scanning, IInv, TypeOK, ScanOK
<1>2. RunStart = i - run /\ RunStart \in 0 .. i /\ \A q \in RunStart .. i : q \notin bits
  BY <1>1, RunFacts
<1>3. FreePages = (0 .. g_total_pages - 1) \ bits
  BY <1>1 DEF FreePages, Running
<1>4. RunStart + page_count - 1 = i
  BY <1>1, <1>2
<1>5. ASSUME NEW s \in Nat, s .. s + page_count - 1 \subseteq FreePages, s < RunStart
      PROVE  FALSE
  <2>1. s + page_count <= i
    BY <1>1, <1>2, <1>4, <1>5
  <2>2. \E q \in s .. s + page_count - 1 : q \in bits
    BY <1>1, <2>1 DEF IInv, ScanOK
  <2> QED BY <1>3, <1>5, <2>2
<1>6. Taken = RunStart .. i
  BY <1>4 DEF Taken
<1>7. Taken \subseteq FreePages
  BY <1>1, <1>2, <1>3, <1>6
<1>8. \A s \in Nat : s .. s + page_count - 1 \subseteq FreePages => RunStart <= s
  BY <1>2, <1>5
<1> QED BY <1>1, <1>6, <1>7, <1>8

(* A scan that has reached the end has seen every run. *)
LEMMA FailsNone ==
    ASSUME IInv, ScanFails
    PROVE  \A s \in Nat : ~ (s .. s + page_count - 1 \subseteq FreePages)
<1> SUFFICES ASSUME NEW s \in Nat, s .. s + page_count - 1 \subseteq FreePages PROVE FALSE
  OBVIOUS
<1>1. /\ pc = "scan" /\ i = g_total_pages /\ i \in Nat /\ page_count \in Nat /\ page_count > 0
  BY DEF ScanFails, Scanning, IInv, TypeOK, ScanOK
<1>2. FreePages = (0 .. g_total_pages - 1) \ bits
  BY <1>1 DEF FreePages, Running
<1>3. s + page_count - 1 \in FreePages
  BY <1>1
<1>4. s + page_count <= i
  BY <1>1, <1>2, <1>3
<1>5. \E q \in s .. s + page_count - 1 : q \in bits
  BY <1>1, <1>4 DEF IInv, ScanOK
<1> QED BY <1>2, <1>5
(***************************************************************************)
(* Every step keeps the invariant.                                         *)
(***************************************************************************)

(* Available does not change once pmm_init has run. *)
LEMMA AvailableFixed ==
    ASSUME UNCHANGED <<info, shape>>
    PROVE  Available' = Available
BY DEF info, shape, Available, Entries, EndOf, Bytes, KernelRange, BitmapRange

LEMMA PlacedFixed ==
    ASSUME IInv, UNCHANGED <<info, shape>>, Running
    PROVE  BitmapPlaced'
BY DEF info, shape, BitmapPlaced, Entries, EndOf, BitmapRange, KernelRange, IInv

LEMMA BootStep ==
    ASSUME IInv, pmm_init
    PROVE  IInv'
<1> USE SizesAssumption
<1> DEFINE at == place_bitmap_phys
<1>1. /\ pc = "boot" /\ at # NULL /\ memmap \in MemMaps /\ kernel \in Kernels
      /\ held = {} /\ i = 0 /\ run = 0 /\ run_start = 0 /\ ret = 0
      /\ page_count \in 0 .. MaxRequest
  BY DEF pmm_init, IInv, TypeOK, AtBoot, Running
<1>2. /\ g_total_pages' = TotalPages /\ g_bitmap_bytes' = BitmapBytes /\ g_bitmap' = at
      /\ bits' = ((0 .. BitmapBytes * BitsPerByte - 1) \ Usable(TotalPages)) \cup Reserved(at)
      /\ pc' = "idle" /\ g_free_bytes' = Cardinality(FreePages') * PageSize
      /\ UNCHANGED <<memmap, kernel, page_count, i, run, run_start, ret, held>>
  BY DEF pmm_init, info, scan
<1>3. /\ TotalPages \in Nat /\ BitmapBytes \in Nat /\ BitmapBytes > 0
      /\ TotalPages <= BitmapBytes * BitsPerByte /\ at \in Nat
      /\ \E e \in Entries : e.base <= at /\ at + BitmapBytes <= EndOf(e)
      /\ ~ (at < kernel.end /\ kernel.start < at + BitmapBytes)
  BY <1>1, BitmapCovers, PlaceFacts
<1>4. BitmapBytes * BitsPerByte \in Nat
  BY <1>3, MultNat
<1>5. bits' \subseteq 0 .. BitmapBytes * BitsPerByte - 1
  <2>1. Reserved(at) \subseteq 0 .. TotalPages - 1
    BY DEF Reserved, mark_range
  <2> QED BY <1>2, <1>3, <1>4, <2>1
<1>6. IsFiniteSet(FreePages)' /\ Cardinality(FreePages') \in Nat
  <2>1. IsFiniteSet(0 .. TotalPages - 1)
    BY <1>3, FS_Interval
  <2>2. FreePages' \in SUBSET (0 .. TotalPages - 1)
    BY <1>2 DEF FreePages
  <2> QED BY <2>1, <2>2, FS_Subset, FS_CardinalityType
<1>7. g_free_bytes' \in Nat
  BY <1>2, <1>6, MultNat
<1>8. TypeOK'
  <2>1. 0 \in {p * PageSize : p \in 0 .. TotalPages}
    <3>1. 0 \in 0 .. TotalPages /\ 0 = 0 * PageSize
      BY <1>3
    <3> QED BY <3>1
  <2>2. ret' \in {p * PageSize : p \in 0 .. g_total_pages'}
    BY <1>1, <1>2, <2>1
  <2>3. 0 \in 0 .. g_total_pages'
    BY <1>2, <1>3
  <2>4. bits' \subseteq 0 .. g_bitmap_bytes' * BitsPerByte - 1
    BY <1>2, <1>5
  <2>5. held' \subseteq 0 .. g_total_pages' - 1
    BY <1>1, <1>2
  <2> QED BY <1>1, <1>2, <1>3, <1>7, <2>2, <2>3, <2>4, <2>5 DEF TypeOK
<1>9. NothingLost'
  <2>1. FreePages' = Available' /\ held' = {}
    BY <1>1, <1>2, InitFree
  <2> QED BY <2>1 DEF NothingLost
<1>10. BitmapPlaced'
  <2>1. KernelRange' \cap BitmapRange' = {}
    <3>1. kernel.start \in Nat /\ kernel.end \in Nat /\ kernel.start < kernel.end
      BY <1>1, KernelAssumption
    <3>2. KernelRange' = kernel.start .. kernel.end - 1 /\ BitmapRange' = at .. at + BitmapBytes - 1
      BY <1>2 DEF KernelRange, BitmapRange
    <3> HIDE DEF at
    <3> QED BY <1>3, <3>1, <3>2
  <2>2. PICK e \in Entries : e.base <= at /\ at + BitmapBytes <= EndOf(e)
    BY <1>3
  <2>3. e.base \in Nat /\ EndOf(e) \in Nat
    BY <1>1, EntryFacts
  <2>4. at .. at + BitmapBytes - 1 \subseteq e.base .. EndOf(e) - 1
    <3> HIDE DEF at
    <3> QED BY <1>3, <2>2, <2>3
  <2>5. e \in Entries' /\ BitmapRange' \subseteq e.base .. EndOf(e) - 1
    BY <1>2, <2>4 DEF Entries, BitmapRange
  <2> QED BY <1>2, <1>3, <2>1, <2>5 DEF BitmapPlaced, EndOf
<1>11. Accounted' /\ AtBoot' /\ ScanOK'
  BY <1>2 DEF Accounted, AtBoot, ScanOK, Running
<1> QED BY <1>8, <1>9, <1>10, <1>11 DEF IInv
(* A step of the client or of the scan that leaves the bitmap alone. *)
LEMMA QuietStep ==
    ASSUME IInv, Running, Running', UNCHANGED <<info, shape, bits, g_free_bytes, held>>
    PROVE  NothingLost' /\ Accounted' /\ BitmapPlaced' /\ AtBoot' /\ FreePages' = FreePages
<1>1. FreePages' = FreePages /\ Available' = Available
  BY AvailableFixed DEF FreePages, shape
<1>2. NothingLost' /\ Accounted'
  BY <1>1 DEF IInv, NothingLost, Accounted
<1>3. AtBoot'
  BY DEF AtBoot, Running
<1> QED BY <1>1, <1>2, <1>3, PlacedFixed

LEMMA HaltStep ==
    ASSUME IInv, pmm_init_halts
    PROVE  IInv'
<1> USE SizesAssumption
<1>1. /\ pc = "boot" /\ held = {} /\ i = 0 /\ run = 0 /\ run_start = 0 /\ ret = 0 /\ pc' = "halt"
      /\ memmap \in MemMaps
  BY DEF pmm_init_halts, IInv, AtBoot, Running, TypeOK
<1>2. TotalPages \in Nat /\ BitmapBytes \in Nat
  BY <1>1, BitmapCovers
<1>3. g_total_pages' = TotalPages /\ g_bitmap_bytes' = BitmapBytes
      /\ UNCHANGED <<memmap, kernel, g_bitmap, bits, g_free_bytes, page_count, i, run, run_start, ret, held>>
  BY DEF pmm_init_halts, info, scan
<1>4. bits = {}
  BY <1>1 DEF IInv, AtBoot
<1>5. ret' \in {p * PageSize : p \in 0 .. g_total_pages'}
  <2>1. 0 \in 0 .. TotalPages /\ 0 = 0 * PageSize
    BY <1>2
  <2> QED BY <1>1, <1>3, <2>1
<1>6. TypeOK'
  <2>1. 0 \in 0 .. g_total_pages'
    BY <1>2, <1>3
  <2> QED BY <1>1, <1>2, <1>3, <1>4, <1>5, <2>1 DEF IInv, TypeOK
<1>7. ~ Running' /\ held' = {} /\ pc' = "halt"
  BY <1>1, <1>3 DEF Running
<1> QED BY <1>6, <1>7 DEF IInv, NothingLost, Accounted, BitmapPlaced, AtBoot, ScanOK

LEMMA CallStep ==
    ASSUME IInv, NEW n \in 1 .. MaxRequest, Alloc(n)
    PROVE  IInv'
<1> USE RequestAssumption
<1>1. /\ pc = "idle" /\ pc' = "scan" /\ page_count' = n /\ i' = 0 /\ run' = 0 /\ run_start' = 0
      /\ UNCHANGED <<info, shape, bits, g_free_bytes, ret, held>>
  BY DEF Alloc
<1>2. TypeOK'
  BY <1>1 DEF IInv, TypeOK, info, shape
<1>3. ScanOK'
  BY <1>1 DEF ScanOK
<1> QED BY <1>1, <1>2, <1>3, QuietStep DEF IInv, Running

LEMMA RefusalStep ==
    ASSUME IInv, AllocNothing \/ ScanFails
    PROVE  IInv'
<1> USE SizesAssumption
<1>1. /\ pc \in {"idle", "scan"} /\ pc' = "idle" /\ ret' = 0
      /\ UNCHANGED <<info, shape, bits, g_free_bytes, page_count, i, run, run_start, held>>
  BY DEF AllocNothing, ScanFails, NULL, scan
<1>2. ret' \in {p * PageSize : p \in 0 .. g_total_pages'}
  <2>1. 0 \in 0 .. g_total_pages' /\ 0 = 0 * PageSize
    BY <1>1 DEF IInv, TypeOK, shape
  <2> QED BY <1>1, <2>1
<1>3. TypeOK'
  BY <1>1, <1>2 DEF IInv, TypeOK, info, shape
<1>4. ScanOK'
  BY <1>1 DEF ScanOK
<1> QED BY <1>1, <1>3, <1>4, QuietStep DEF IInv, Running

LEMMA UsedStep ==
    ASSUME IInv, ScanUsed
    PROVE  IInv'
<1>1. /\ pc = "scan" /\ pc' = "scan" /\ i < g_total_pages /\ i \in bits /\ run' = 0 /\ i' = i + 1
      /\ UNCHANGED <<info, shape, bits, g_free_bytes, page_count, run_start, ret, held>>
  BY DEF ScanUsed, Scanning, Broken
<1>2. i \in Nat /\ g_total_pages \in Nat /\ page_count \in Nat
  BY DEF IInv, TypeOK
<1>3. TypeOK'
  BY <1>1, <1>2 DEF IInv, TypeOK, info, shape
<1>4. ScanOK'
  <2>1. ASSUME NEW s \in Nat, s + page_count <= i + 1
        PROVE  \E q \in s .. s + page_count - 1 : q \in bits
    <3>1. CASE s + page_count <= i
      BY <1>1, <3>1 DEF IInv, ScanOK
    <3>2. CASE s + page_count = i + 1
      <4>1. page_count > 0
        BY <1>1 DEF IInv, ScanOK
      <4>2. i \in s .. s + page_count - 1
        BY <1>2, <3>2, <4>1
      <4> QED BY <1>1, <4>2
    <3> QED BY <1>2, <2>1, <3>1, <3>2
  <2>2. page_count > 0
    BY <1>1 DEF IInv, ScanOK
  <2>3. i' - run' - 1 \in bits' /\ run' <= i' /\ run' < page_count' /\ page_count' = page_count
    BY <1>1, <1>2, <2>2
  <2>4. \A q \in i' - run' .. i' - 1 : q \notin bits'
    BY <1>1, <1>2
  <2> QED BY <1>1, <2>1, <2>2, <2>3, <2>4 DEF ScanOK
<1> QED BY <1>1, <1>3, <1>4, QuietStep DEF IInv, Running

LEMMA FreeStep ==
    ASSUME IInv, ScanFree
    PROVE  IInv'
<1>1. /\ pc = "scan" /\ pc' = "scan" /\ i < g_total_pages /\ i \notin bits /\ Scanning
      /\ run + 1 # page_count /\ run' = run + 1 /\ run_start' = RunStart /\ i' = i + 1
      /\ UNCHANGED <<info, shape, bits, g_free_bytes, page_count, ret, held>>
  BY DEF ScanFree, Scanning
<1>2. /\ i \in Nat /\ g_total_pages \in Nat /\ page_count \in Nat /\ run \in Nat
      /\ run <= i /\ run < page_count
  BY <1>1 DEF IInv, TypeOK, ScanOK
<1>3. RunStart = i - run /\ RunStart \in 0 .. i /\ \A q \in RunStart .. i : q \notin bits
  BY <1>1, RunFacts
<1>4. TypeOK'
  BY <1>1, <1>2, <1>3 DEF IInv, TypeOK, info, shape
<1>5. ScanOK'
  <2>1. ASSUME NEW s \in Nat, s + page_count <= i + 1
        PROVE  \E q \in s .. s + page_count - 1 : q \in bits
    <3>1. CASE s + page_count <= i
      BY <1>1, <3>1 DEF IInv, ScanOK
    <3>2. CASE s + page_count = i + 1
      <4>1. i - run - 1 \in s .. s + page_count - 1 /\ run < i
        BY <1>1, <1>2, <3>2
      <4>2. i - run - 1 \in bits
        BY <1>1, <4>1 DEF IInv, ScanOK
      <4> QED BY <4>1, <4>2
    <3> QED BY <1>2, <2>1, <3>1, <3>2
  <2>2. /\ page_count' > 0 /\ run' < page_count' /\ run' <= i' /\ run_start' + run' = i'
        /\ i' - run' = RunStart /\ i' - 1 = i
    BY <1>1, <1>2, <1>3
  <2>3. run' < i' => i' - run' - 1 \in bits'
    <3>1. i' - run' - 1 = i - run - 1 /\ (run' < i' => run < i)
      BY <1>1, <1>2
    <3>2. run < i => i - run - 1 \in bits
      BY <1>1 DEF IInv, ScanOK
    <3> QED BY <1>1, <3>1, <3>2
  <2>4. \A q \in i' - run' .. i' - 1 : q \notin bits'
    BY <1>1, <1>3, <2>2
  <2>5. \A s \in Nat : s + page_count' <= i' => \E q \in s .. s + page_count' - 1 : q \in bits'
    BY <1>1, <2>1
  <2> QED BY <2>2, <2>3, <2>4, <2>5 DEF ScanOK
<1> QED BY <1>1, <1>4, <1>5, QuietStep DEF IInv, Running
LEMMA FoundStep ==
    ASSUME IInv, ScanFound
    PROVE  IInv'
<1> USE SizesAssumption
<1>1. /\ pc = "scan" /\ pc' = "idle" /\ i < g_total_pages /\ i \notin bits /\ Scanning
      /\ run + 1 = page_count /\ run' = run + 1 /\ run_start' = RunStart
      /\ bits' = bits \cup Taken /\ held' = held \cup Taken
      /\ g_free_bytes' = g_free_bytes - page_count * PageSize /\ ret' = RunStart * PageSize
      /\ UNCHANGED <<info, shape, page_count, i>>
  BY DEF ScanFound, Scanning, Charge
<1>2. /\ page_count \in 1 .. MaxRequest /\ page_count \in Nat /\ MaxRequest \in Nat
      /\ Taken = RunStart .. i /\ Taken \subseteq FreePages /\ RunStart \in 0 .. i
      /\ Taken = RunStart .. RunStart + page_count - 1
  BY <1>1, FoundFirst, RunFacts, RequestAssumption DEF Taken
<1>3. i \in Nat /\ g_total_pages \in Nat /\ RunStart \in Nat /\ run \in Nat /\ run <= i
  BY <1>1, <1>2 DEF IInv, TypeOK, ScanOK
<1>4. FreePages = (0 .. g_total_pages - 1) \ bits /\ FreePages' = FreePages \ Taken
  BY <1>1 DEF FreePages, Running, shape
<1>5. /\ IsFiniteSet(FreePages') /\ Cardinality(FreePages') \in Nat
      /\ Cardinality(FreePages) = Cardinality(FreePages') + page_count
  <2>1. IsFiniteSet(FreePages)
    BY <1>3, FreeFinite
  <2>2. FreePages' \in SUBSET FreePages
    BY <1>4
  <2>3. IsFiniteSet(FreePages')
    BY <2>1, <2>2, FS_Subset
  <2>4. Cardinality(FreePages' \cup (RunStart .. RunStart + page_count - 1))
            = Cardinality(FreePages') + page_count
    <3>1. FreePages' \cap (RunStart .. RunStart + page_count - 1) = {}
      BY <1>2, <1>4
    <3>2. page_count \in Nat \ {0}
      BY <1>2
    <3> QED BY <1>3, <2>3, <3>1, <3>2, RunCardinality
  <2>5. FreePages' \cup (RunStart .. RunStart + page_count - 1) = FreePages
    BY <1>2, <1>4
  <2>6. Cardinality(FreePages) = Cardinality(FreePages') + page_count
    BY <2>4, <2>5, Zenon
  <2> QED BY <2>3, <2>6, FS_CardinalityType
<1>6. g_free_bytes' = Cardinality(FreePages') * PageSize /\ g_free_bytes' \in Nat
  <2> DEFINE c == Cardinality(FreePages')
  <2>1. g_free_bytes = Cardinality(FreePages) * PageSize
    BY <1>1 DEF IInv, Accounted, Running
  <2>2. (c + page_count) * PageSize = c * PageSize + page_count * PageSize
    BY <1>2, <1>5, MultDistributes
  <2>3. c * PageSize \in Nat /\ page_count * PageSize \in Nat
    BY <1>2, <1>5, MultNat
  <2>4. g_free_bytes = (c + page_count) * PageSize
    BY <1>5, <2>1
  <2> HIDE DEF c
  <2>5. g_free_bytes' = c * PageSize
    BY <1>1, <2>2, <2>3, <2>4
  <2> QED BY <2>3, <2>5 DEF c
<1>7. Taken \subseteq 0 .. g_total_pages - 1
  BY <1>2, <1>4
<1>8. TypeOK'
  <2>1. bits' \subseteq 0 .. g_bitmap_bytes * BitsPerByte - 1
    <3>1. g_total_pages <= g_bitmap_bytes * BitsPerByte /\ g_bitmap_bytes \in Nat
      BY <1>1 DEF IInv, BitmapPlaced, Running, TypeOK
    <3>2. g_bitmap_bytes * BitsPerByte \in Nat
      BY <3>1, MultNat
    <3>3. Taken \subseteq 0 .. g_bitmap_bytes * BitsPerByte - 1
      BY <1>3, <1>7, <3>1, <3>2
    <3> QED BY <1>1, <3>3 DEF IInv, TypeOK
  <2>2. ret' \in {p * PageSize : p \in 0 .. g_total_pages}
    BY <1>1, <1>2, <1>3
  <2>3. held' \subseteq 0 .. g_total_pages - 1
    BY <1>1, <1>7 DEF IInv, TypeOK
  <2>4. run' \in 0 .. g_total_pages /\ run_start' \in 0 .. g_total_pages
    BY <1>1, <1>2, <1>3
  <2>5. UNCHANGED <<memmap, kernel, g_total_pages, g_bitmap, g_bitmap_bytes, page_count, i>>
    BY <1>1 DEF info, shape
  <2> QED BY <1>1, <1>6, <2>1, <2>2, <2>3, <2>4, <2>5 DEF IInv, TypeOK
<1>9. NothingLost'
  <2>1. FreePages \cup held = Available /\ FreePages \cap held = {}
    BY <1>1 DEF IInv, NothingLost, Running
  <2>2. Available' = Available
    BY <1>1, AvailableFixed
  <2> QED BY <1>1, <1>2, <1>4, <2>1, <2>2 DEF NothingLost
<1>10. Accounted' /\ AtBoot' /\ ScanOK' /\ BitmapPlaced'
  BY <1>1, <1>6, PlacedFixed DEF Accounted, AtBoot, ScanOK, Running
<1> QED BY <1>8, <1>9, <1>10 DEF IInv

(* The pages that come back were clear of the free ones, each of them. *)
LEMMA ReturnStep ==
    ASSUME IInv, NEW p \in held, NEW n \in 1 .. MaxRequest, pmm_free_pages(p, n)
    PROVE  /\ IInv'
           /\ FreePages' = FreePages \cup (p .. p + n - 1)
           /\ held' = held \ (p .. p + n - 1)
           /\ p .. p + n - 1 \subseteq held
<1> USE SizesAssumption, RequestAssumption
<1> DEFINE R == p .. p + n - 1
<1>1. /\ pc = "idle" /\ R \subseteq held /\ held' = held \ R
      /\ bits' = bits \ {q \in R : q < g_total_pages}
      /\ g_free_bytes' = g_free_bytes + n * PageSize
      /\ UNCHANGED <<info, shape, pc, page_count, i, run, run_start, ret>>
  BY DEF pmm_free_pages, scan
<1>2. g_total_pages \in Nat /\ n \in Nat \ {0} /\ p \in Nat
  BY DEF IInv, TypeOK
<1>3. /\ FreePages = (0 .. g_total_pages - 1) \ bits
      /\ held \subseteq 1 .. g_total_pages - 1 /\ held \subseteq bits
  BY <1>1, HeldFacts DEF Running
<1>4. bits' = bits \ R
  <2>1. {q \in R : q < g_total_pages} = R
    BY <1>1, <1>2, <1>3
  <2> QED BY <1>1, <2>1
<1>5. FreePages' = FreePages \cup R /\ FreePages \cap R = {}
  <2>1. FreePages' = (0 .. g_total_pages - 1) \ bits'
    BY <1>1 DEF FreePages, Running, shape
  <2>2. R \subseteq 0 .. g_total_pages - 1 /\ R \subseteq bits
    BY <1>1, <1>2, <1>3
  <2> HIDE DEF R
  <2> QED BY <1>3, <1>4, <2>1, <2>2
<1>6. Cardinality(FreePages) \in Nat /\ Cardinality(FreePages') = Cardinality(FreePages) + n
  <2>1. IsFiniteSet(FreePages) /\ Cardinality(FreePages) \in Nat
    BY <1>2, FreeFinite
  <2>2. Cardinality(FreePages \cup R) = Cardinality(FreePages) + n
    BY <1>2, <1>5, <2>1, RunCardinality
  <2>3. Cardinality(FreePages') = Cardinality(FreePages \cup R)
    BY <1>5, Zenon
  <2> HIDE DEF R
  <2> QED BY <2>1, <2>2, <2>3
<1>7. g_free_bytes' = Cardinality(FreePages') * PageSize /\ g_free_bytes' \in Nat
  <2> DEFINE c == Cardinality(FreePages)
  <2>1. g_free_bytes = c * PageSize
    BY <1>1 DEF IInv, Accounted, Running
  <2>2. (c + n) * PageSize = c * PageSize + n * PageSize
    BY <1>2, <1>6, MultDistributes
  <2>3. c * PageSize \in Nat /\ n * PageSize \in Nat
    BY <1>2, <1>6, MultNat
  <2>4. Cardinality(FreePages') = c + n
    BY <1>6
  <2> HIDE DEF c
  <2> QED BY <1>1, <2>1, <2>2, <2>3, <2>4
<1>8. TypeOK'
  <2>1. UNCHANGED <<memmap, kernel, g_total_pages, g_bitmap, g_bitmap_bytes, pc, page_count, i, run, run_start, ret>>
    BY <1>1 DEF info, shape
  <2>2. bits' \subseteq bits /\ held' \subseteq held
    BY <1>1
  <2> HIDE DEF R
  <2> QED BY <1>7, <2>1, <2>2 DEF IInv, TypeOK
<1>9. NothingLost'
  <2>1. FreePages \cup held = Available /\ FreePages \cap held = {}
    BY <1>1 DEF IInv, NothingLost, Running
  <2>2. Available' = Available
    BY <1>1, AvailableFixed
  <2> HIDE DEF R
  <2>3. FreePages' \cup held' = Available' /\ FreePages' \cap held' = {}
    BY <1>1, <1>5, <2>1, <2>2
  <2> QED BY <2>3 DEF NothingLost
<1>10. Accounted' /\ AtBoot' /\ ScanOK' /\ BitmapPlaced'
  BY <1>1, <1>7, PlacedFixed DEF Accounted, AtBoot, ScanOK, Running
<1> QED BY <1>1, <1>5, <1>8, <1>9, <1>10 DEF IInv
LEMMA NextIInv == IInv /\ [Next]_vars => IInv'
<1> SUFFICES ASSUME IInv, [Next]_vars PROVE IInv'
  OBVIOUS
<1>1. CASE pmm_init
  BY <1>1, BootStep
<1>2. CASE pmm_init_halts
  BY <1>2, HaltStep
<1>3. ASSUME NEW n \in 1 .. MaxRequest, Alloc(n) PROVE IInv'
  BY <1>3, CallStep
<1>4. CASE AllocNothing \/ ScanFails
  BY <1>4, RefusalStep
<1>5. CASE ScanUsed
  BY <1>5, UsedStep
<1>6. CASE ScanFree
  BY <1>6, FreeStep
<1>7. CASE ScanFound
  BY <1>7, FoundStep
<1>8. ASSUME NEW p \in held, NEW n \in 1 .. MaxRequest, pmm_free_pages(p, n) PROVE IInv'
  BY <1>8, ReturnStep
<1>9. CASE UNCHANGED vars
  BY <1>9 DEF IInv, TypeOK, AtBoot, ScanOK, NothingLost, Accounted, BitmapPlaced, Running,
              FreePages, Available, Entries, EndOf, Bytes, KernelRange, BitmapRange,
              vars, info, shape, scan
<1> QED BY <1>1, <1>2, <1>3, <1>4, <1>5, <1>6, <1>7, <1>8, <1>9 DEF Next

(***************************************************************************)
(* The theorems.                                                           *)
(***************************************************************************)

LEMMA Invariant == Spec => []IInv
BY InitIInv, NextIInv, PTL DEF Spec

(* The allocator's variables keep their types: no page number past the end of
   memory is ever looked at, and the count of free bytes never goes below zero. *)
THEOREM TypeCorrect == Spec => []TypeOK
<1>1. IInv => TypeOK
  BY DEF IInv
<1> QED BY <1>1, Invariant, PTL

(* pmm_init, pmm_alloc_pages and pmm_free_pages together neither lose a page of
   usable memory nor let one of the kernel's or of the bitmap's own be handed out. *)
THEOREM PagesConserved == Spec => []NothingLost
<1>1. IInv => NothingLost
  BY DEF IInv
<1> QED BY <1>1, Invariant, PTL

(* g_free_bytes counts the free pages, whatever is allocated and freed. *)
THEOREM FreeBytesTrue == Spec => []Accounted
<1>1. IInv => Accounted
  BY DEF IInv
<1> QED BY <1>1, Invariant, PTL

(* The bitmap place_bitmap_phys chooses is large enough, in usable memory, and
   clear of the kernel, for every memory map. *)
THEOREM BitmapSafe == Spec => []BitmapPlaced
<1>1. IInv => BitmapPlaced
  BY DEF IInv
<1> QED BY <1>1, Invariant, PTL

(* pmm_alloc_pages returns a null pointer only when there is no such run. *)
THEOREM RefusalHonest == Spec => NoFalseRefusal
<1>1. IInv => (ScanFails => \A s \in 0 .. g_total_pages - 1 :
                                ~ (s .. s + page_count - 1 \subseteq FreePages))
  BY FailsNone
<1> QED BY <1>1, Invariant, PTL DEF NoFalseRefusal
(* An address is the null pointer, as a page number, only for page 0. *)
LEMMA NullIsNoPage == 0 \div PageSize = 0
<1>1. 0 * PageSize = 0
  BY SizesAssumption
<1>2. (0 * PageSize) \div PageSize = 0
  BY SizesAssumption, DivMult
<1> QED BY <1>1, <1>2

LEMMA PoolStutter ==
    ASSUME IInv, pc \in {"idle", "scan"}, pc' \in {"idle", "scan"},
           UNCHANGED <<shape, bits, ret, held>>
    PROVE  UNCHANGED Pool!vars
BY DEF Pool!vars, FreePages, Running, shape

(* The steps of the scan are invisible; each of the others is one of PagePool. *)
LEMMA PoolStep ==
    ASSUME IInv, IInv', [Next]_vars
    PROVE  [Pool!Next]_Pool!vars
<1>1. CASE pmm_init
  <2>1. FreePages = {} /\ held = {} /\ held' = held /\ ret' = ret /\ Running'
    BY <1>1 DEF pmm_init, FreePages, Running, IInv, AtBoot
  <2>2. 0 \notin FreePages'
    <3>1. FreePages' \subseteq Available' /\ Available' \subseteq 1 .. g_total_pages' - 1
      BY <2>1 DEF IInv, NothingLost, Available
    <3> QED BY <3>1
  <2>3. Pool!Open
    BY <2>1, <2>2 DEF Pool!Open
  <2> QED BY <2>3 DEF Pool!Next
<1>2. CASE pmm_init_halts
  <2>1. FreePages = {} /\ FreePages' = {} /\ held' = held /\ ret' = ret
    BY <1>2 DEF pmm_init_halts, FreePages, Running, scan
  <2> QED BY <2>1 DEF Pool!vars
<1>3. CASE AllocNothing
  <2>1. /\ pc = "idle" /\ ret' = 0 /\ UNCHANGED <<shape, bits, pc, held>>
    BY <1>3 DEF AllocNothing, NULL
  <2>2. FreePages' = FreePages /\ ret' \div PageSize = 0
    BY <2>1, NullIsNoPage DEF FreePages, Running, shape
  <2>3. Pool!Refuse(0)
    BY <2>1, <2>2 DEF Pool!Refuse
  <2>4. 0 \in 0 .. MaxRequest
    BY RequestAssumption
  <2> QED BY <2>3, <2>4 DEF Pool!Next
<1>4. ASSUME NEW n \in 1 .. MaxRequest, Alloc(n) PROVE UNCHANGED Pool!vars
  <2>1. pc = "idle" /\ pc' = "scan" /\ UNCHANGED <<shape, bits, ret, held>>
    BY <1>4 DEF Alloc
  <2> QED BY <2>1, PoolStutter
<1>5. CASE ScanUsed \/ ScanFree
  <2>1. pc = "scan" /\ pc' = "scan" /\ UNCHANGED <<shape, bits, ret, held>>
    BY <1>5 DEF ScanUsed, ScanFree, Scanning
  <2> QED BY <2>1, PoolStutter
<1>6. CASE ScanFound
  <2> DEFINE R == RunStart .. RunStart + page_count - 1
  <2>1. /\ page_count \in 1 .. MaxRequest /\ R = RunStart .. i /\ R \subseteq FreePages
        /\ \A s \in Nat : s .. s + page_count - 1 \subseteq FreePages => RunStart <= s
    BY <1>6, FoundFirst DEF Taken
  <2>2. /\ pc = "scan" /\ pc' = "idle" /\ bits' = bits \cup R /\ held' = held \cup R
        /\ ret' = RunStart * PageSize /\ Scanning /\ i \notin bits /\ g_total_pages' = g_total_pages
    BY <1>6 DEF ScanFound, Taken, Scanning, shape
  <2>3. RunStart \in 0 .. i /\ i \in Nat /\ g_total_pages \in Nat
    BY <2>2, RunFacts DEF IInv, TypeOK
  <2>4. FreePages = (0 .. g_total_pages - 1) \ bits /\ FreePages' = FreePages \ R
    BY <2>2 DEF FreePages, Running
  <2>5. ret' \div PageSize = RunStart
    BY <2>2, <2>3, DivMult, SizesAssumption
  <2>6. RunStart \in FreePages
    BY <2>1, <2>3
  <2>7. \A r \in FreePages : r \in Nat
    BY <2>3, <2>4
  <2>8. Pool!FirstRun(RunStart, page_count)
    BY <2>1, <2>7 DEF Pool!FirstRun, Pool!IsRun, Pool!Run
  <2>9. Pool!Take(RunStart, page_count)
    BY <2>2, <2>4, <2>5, <2>8 DEF Pool!Take, Pool!Run
  <2>10. page_count \in (0 .. MaxRequest) \ {0}
    BY <2>1, RequestAssumption
  <2> QED BY <2>6, <2>9, <2>10 DEF Pool!Next
<1>7. CASE ScanFails
  <2>1. /\ pc = "scan" /\ pc' = "idle" /\ ret' = 0 /\ UNCHANGED <<shape, bits, held>>
    BY <1>7 DEF ScanFails, NULL
  <2>2. FreePages' = FreePages /\ ret' \div PageSize = 0
    BY <2>1, NullIsNoPage DEF FreePages, Running, shape
  <2>3. \A s \in FreePages : ~ (s .. s + page_count - 1 \subseteq FreePages)
    <3>1. FreePages \subseteq Nat
      BY DEF FreePages, IInv, TypeOK
    <3> QED BY <1>7, <3>1, FailsNone
  <2>4. Pool!Refuse(page_count)
    BY <2>1, <2>2, <2>3 DEF Pool!Refuse, Pool!IsRun, Pool!Run
  <2>5. page_count \in 0 .. MaxRequest
    BY DEF IInv, TypeOK
  <2> QED BY <2>4, <2>5 DEF Pool!Next
<1>8. ASSUME NEW p \in held, NEW n \in 1 .. MaxRequest, pmm_free_pages(p, n)
      PROVE  Pool!Next
  <2>1. /\ FreePages' = FreePages \cup (p .. p + n - 1) /\ held' = held \ (p .. p + n - 1)
        /\ p .. p + n - 1 \subseteq held /\ ret' = ret
    BY <1>8, ReturnStep DEF pmm_free_pages
  <2>2. Pool!Return(p, n)
    BY <2>1 DEF Pool!Return, Pool!Run
  <2>3. n \in (0 .. MaxRequest) \ {0}
    BY RequestAssumption
  <2> QED BY <2>2, <2>3 DEF Pool!Next
<1>9. CASE UNCHANGED vars
  BY <1>9 DEF vars, shape, Pool!vars, FreePages, Running
<1> QED BY <1>1, <1>2, <1>3, <1>4, <1>5, <1>6, <1>7, <1>8, <1>9 DEF Next

(* mm/pmm.c implements PagePool: first fit, and every page with one owner. *)
THEOREM RefinesPagePool == Spec => PagePoolSpec
<1>1. Init => Pool!Init
  BY NullIsNoPage DEF Init, InitialState, NULL, Pool!Init, FreePages, Running
<1>2. IInv /\ IInv' /\ [Next]_vars => [Pool!Next]_Pool!vars
  BY PoolStep
<1> QED BY <1>1, <1>2, Invariant, PTL DEF Spec, PagePoolSpec, Pool!Spec

(***************************************************************************)
(* BootInfo.                                                               *)
(***************************************************************************)

(* A function can be defined by recursion over an interval. *)
Recursive(f, a, N, g) == f[0] = a /\ \A n \in 1 .. N : f[n] = g[<<n, f[n - 1]>>]

LEMMA Recursion ==
    ASSUME NEW A, NEW a \in A, NEW N \in Nat, NEW g \in [(1 .. N) \X A -> A]
    PROVE  \E f \in [0 .. N -> A] : Recursive(f, a, N, g)
<1> DEFINE Good(k, f) == Recursive(f, a, k, g)
           T == {k \in 0 .. N : \E f \in [0 .. k -> A] : Good(k, f)}
<1>1. 0 \in T
  <2> DEFINE f == [n \in 0 .. 0 |-> a]
  <2>1. f \in [0 .. 0 -> A] /\ Good(0, f)
    BY DEF Recursive
  <2> HIDE DEF f, Good
  <2>2. \E h \in [0 .. 0 -> A] : Good(0, h)
    BY <2>1
  <2> QED BY <2>2
<1>2. ASSUME NEW k \in 0 .. N - 1, k \in T PROVE k + 1 \in T
  <2>1. PICK f \in [0 .. k -> A] : Good(k, f)
    BY <1>2
  <2> DEFINE x == g[<<k + 1, f[k]>>]
             h == [n \in 0 .. k + 1 |-> IF n <= k THEN f[n] ELSE x]
  <2>2. f[k] \in A /\ x \in A
    OBVIOUS
  <2> HIDE DEF x
  <2>3. h \in [0 .. k + 1 -> A]
    BY <2>2
  <2>4. h[0] = a /\ h[k + 1] = x /\ h[k] = f[k]
    BY <2>1 DEF Recursive
  <2>5. ASSUME NEW n \in 1 .. k + 1 PROVE h[n] = g[<<n, h[n - 1]>>]
    <3>1. CASE n = k + 1
      <4>1. n - 1 = k
        BY <3>1
      <4> HIDE DEF h
      <4> QED BY <2>4, <3>1, <4>1 DEF x
    <3>2. CASE n # k + 1
      <4>1. n \in 1 .. k /\ h[n] = f[n] /\ h[n - 1] = f[n - 1]
        BY <3>2
      <4> HIDE DEF h
      <4> QED BY <2>1, <4>1 DEF Recursive
    <3> QED BY <3>1, <3>2
  <2> HIDE DEF h
  <2>6. Good(k + 1, h)
    BY <2>4, <2>5 DEF Recursive
  <2> HIDE DEF Good
  <2> QED BY <2>3, <2>6
<1>3. N \in T
  <2> HIDE DEF T
  <2>1. \A l \in 0 .. N : l \in T
    BY <1>1, <1>2, Upwards
  <2> QED BY <2>1
<1> QED BY <1>3

(* Horner's scheme takes its steps, *)
LEMMA HornerSteps ==
    ASSUME NEW b \in Nat, NEW s \in Seq(Nat)
    PROVE  \E f \in [0 .. Len(s) -> Nat] :
               /\ f[0] = 0 /\ \A n \in 1 .. Len(s) : f[n] = f[n - 1] * b + s[n]
               /\ Horner(b, s) = f[Len(s)]
<1> DEFINE N == Len(s)
           g == [p \in (1 .. N) \X Nat |-> p[2] * b + s[p[1]]]
           G(f, n) == IF n = 0 THEN 0 ELSE f[n - 1] * b + s[n]
<1>1. N \in Nat /\ \A n \in 1 .. N : s[n] \in Nat
  BY LenProperties, ElementOfSeq
<1>2. g \in [(1 .. N) \X Nat -> Nat]
  BY <1>1, MultNat
<1>3. PICK f \in [0 .. N -> Nat] : Recursive(f, 0, N, g)
  <2> HIDE DEF g, N
  <2> QED BY <1>1, <1>2, Recursion
<1> HIDE DEF N
<1>4. ASSUME NEW n \in 1 .. N PROVE f[n] = f[n - 1] * b + s[n]
  <2>1. n - 1 \in 0 .. N /\ f[n - 1] \in Nat
    BY <1>1, <1>3
  <2>2. g[<<n, f[n - 1]>>] = f[n - 1] * b + s[n]
    BY <2>1
  <2> HIDE DEF g
  <2> QED BY <1>3, <2>2 DEF Recursive
<1> HIDE DEF g
<1>5. f = [n \in 0 .. N |-> G(f, n)]
  BY <1>1, <1>3, <1>4 DEF Recursive
<1> DEFINE v == CHOOSE h : h = [n \in 0 .. N |-> G(h, n)]
<1>6. v = [n \in 0 .. N |-> G(v, n)]
  <2> HIDE DEF G
  <2> QED BY <1>5
<1>7. Horner(b, s) = v[N]
  BY DEF Horner, N
<1> HIDE DEF v
<1>8. \A n \in 0 .. N : v[n] = f[n]
  <2> DEFINE T == {n \in 0 .. N : v[n] = f[n]}
  <2>1. 0 \in T
    BY <1>1, <1>3, <1>6 DEF Recursive
  <2>2. ASSUME NEW k \in 0 .. N - 1, k \in T PROVE k + 1 \in T
    BY <1>1, <1>4, <1>6, <2>2
  <2> HIDE DEF T
  <2>3. \A l \in 0 .. N : l \in T
    BY <1>1, <2>1, <2>2, Upwards
  <2> QED BY <2>3 DEF T
<1>9. Horner(b, s) = f[N]
  BY <1>1, <1>7, <1>8
<1> QED BY <1>3, <1>4, <1>9 DEF N, Recursive

(* and no others. *)
LEMMA HornerIs ==
    ASSUME NEW b \in Nat, NEW s \in Seq(Nat), NEW f,
           f[0] = 0, \A n \in 1 .. Len(s) : f[n] = f[n - 1] * b + s[n]
    PROVE  Horner(b, s) = f[Len(s)]
<1> DEFINE N == Len(s)
<1>1. PICK v \in [0 .. N -> Nat] : /\ v[0] = 0 /\ \A n \in 1 .. N : v[n] = v[n - 1] * b + s[n]
                                   /\ Horner(b, s) = v[N]
  BY HornerSteps
<1>2. N \in Nat
  BY LenProperties
<1> HIDE DEF N
<1>3. \A n \in 0 .. N : v[n] = f[n]
  <2> DEFINE T == {n \in 0 .. N : v[n] = f[n]}
  <2>1. 0 \in T
    BY <1>1, <1>2
  <2>2. ASSUME NEW k \in 0 .. N - 1, k \in T PROVE k + 1 \in T
    <3>1. k + 1 \in 1 .. N /\ (k + 1) - 1 = k
      BY <1>2
    <3>2. f[k + 1] = f[k] * b + s[k + 1] /\ v[k + 1] = v[k] * b + s[k + 1]
      BY <1>1, <3>1 DEF N
    <3> QED BY <1>2, <2>2, <3>1, <3>2
  <2> HIDE DEF T
  <2>3. \A l \in 0 .. N : l \in T
    BY <1>2, <2>1, <2>2, Upwards
  <2> QED BY <2>3 DEF T
<1> QED BY <1>1, <1>2, <1>3 DEF N

-----------------------------------------------------------------------------
(* Powers of 16, as far as there are digits. *)
LEMMA Sizes ==
    /\ Digits[8] \in Nat \ {0} /\ Digits[16] \in Nat \ {0} /\ Digits[32] \in Nat \ {0} /\ Digits[64] \in Nat \ {0}
    /\ \A width \in {8, 16, 32, 64} : Digits[width] \in 1 .. Digits[64]
<1>1. \A width \in {8, 16, 32, 64} : Digits[width] \in Nat \ {0}
  BY DigitsAssumption
<1> QED BY <1>1, DigitsAssumption

LEMMA Powers ==
    /\ Power[0] = 1 /\ \A n \in 0 .. Digits[64] : Power[n] \in Nat \ {0}
    /\ \A n \in 1 .. Digits[64] : Power[n] = 16 * Power[n - 1]
<1> DEFINE N == Digits[64]
           g == [p \in (1 .. N) \X Nat |-> 16 * p[2]]
           G(f, n) == IF n = 0 THEN 1 ELSE 16 * f[n - 1]
<1>1. N \in Nat
  BY Sizes
<1>2. g \in [(1 .. N) \X Nat -> Nat]
  OBVIOUS
<1>3. PICK f \in [0 .. N -> Nat] : Recursive(f, 1, N, g)
  <2> HIDE DEF g, N
  <2> QED BY <1>1, <1>2, Recursion
<1> HIDE DEF N
<1>4. ASSUME NEW n \in 1 .. N PROVE f[n] = 16 * f[n - 1]
  <2>1. n - 1 \in 0 .. N /\ f[n - 1] \in Nat
    BY <1>1, <1>3
  <2>2. g[<<n, f[n - 1]>>] = 16 * f[n - 1]
    BY <2>1
  <2> HIDE DEF g
  <2> QED BY <1>3, <2>2 DEF Recursive
<1> HIDE DEF g
<1>5. f = [n \in 0 .. N |-> G(f, n)]
  BY <1>1, <1>3, <1>4 DEF Recursive
<1>6. Power = [n \in 0 .. N |-> G(Power, n)]
  <2> HIDE DEF G
  <2> DEFINE v == CHOOSE h : h = [n \in 0 .. N |-> G(h, n)]
  <2>1. v = [n \in 0 .. N |-> G(v, n)]
    BY <1>5
  <2>2. Power = v
    BY DEF Power, N, G
  <2> QED BY <2>1, <2>2
<1>7. Power[0] = 1 /\ \A n \in 1 .. N : Power[n] = 16 * Power[n - 1]
  BY <1>1, <1>6
<1>8. \A n \in 0 .. N : Power[n] \in Nat \ {0}
  <2> DEFINE T == {n \in 0 .. N : Power[n] \in Nat \ {0}}
  <2>1. 0 \in T
    BY <1>1, <1>7
  <2>2. ASSUME NEW k \in 0 .. N - 1, k \in T PROVE k + 1 \in T
    <3>1. k + 1 \in 1 .. N /\ (k + 1) - 1 = k
      BY <1>1
    <3>2. Power[k + 1] = 16 * Power[k]
      BY <1>7, <3>1
    <3> QED BY <1>1, <2>2, <3>1, <3>2
  <2> HIDE DEF T
  <2>3. \A l \in 0 .. N : l \in T
    BY <1>1, <2>1, <2>2, Upwards
  <2> QED BY <2>3 DEF T
<1> QED BY <1>7, <1>8 DEF N

LEMMA ValuesGrow ==
    /\ \A width \in {8, 16, 32, 64} : Values(width) \in Nat /\ Values(width) >= 16
    /\ Values(8) <= Values(32) /\ Values(16) <= Values(32)
<1> DEFINE N == Digits[64]
<1>1. /\ \A n \in 0 .. N : Power[n] \in Nat \ {0}
      /\ \A n \in 1 .. N : Power[n] = 16 * Power[n - 1]
  BY Powers
<1>2. N \in Nat /\ \A width \in {8, 16, 32, 64} : Digits[width] \in 1 .. N
  BY Sizes
<1> HIDE DEF N
<1>3. ASSUME NEW width \in {8, 16, 32, 64} PROVE Values(width) \in Nat /\ Values(width) >= 16
  <2> DEFINE d == Digits[width]
  <2>1. d \in 1 .. N /\ d - 1 \in 0 .. N
    BY <1>2
  <2> HIDE DEF d
  <2>2. Power[d] = 16 * Power[d - 1] /\ Power[d - 1] \in Nat \ {0}
    BY <1>1, <2>1
  <2> QED BY <2>2 DEF Values, d
<1>4. ASSUME NEW a \in 0 .. N, NEW b \in 0 .. N, a <= b PROVE Power[a] <= Power[b]
  <2> DEFINE T == {n \in a .. b : Power[a] <= Power[n]}
  <2>1. a \in T
    BY <1>1, <1>2, <1>4
  <2>2. ASSUME NEW k \in a .. b - 1, k \in T PROVE k + 1 \in T
    <3>1. k + 1 \in 1 .. N /\ (k + 1) - 1 = k /\ k \in 0 .. N
      BY <1>2
    <3>2. Power[k + 1] = 16 * Power[k] /\ Power[k] \in Nat /\ Power[a] \in Nat
      BY <1>1, <3>1
    <3> QED BY <1>2, <2>2, <3>1, <3>2
  <2> HIDE DEF T
  <2>3. a \in Nat /\ b \in Nat
    BY <1>2
  <2>4. \A l \in a .. b : l \in T
    BY <2>1, <2>2, <2>3, Upwards
  <2>5. b \in T
    BY <1>4, <2>3, <2>4
  <2> QED BY <2>5 DEF T
<1>5. Values(8) <= Values(32) /\ Values(16) <= Values(32)
  <2>1. Digits[8] \in 0 .. N /\ Digits[16] \in 0 .. N /\ Digits[32] \in 0 .. N
    BY <1>2
  <2>2. Digits[8] <= Digits[32] /\ Digits[16] <= Digits[32]
    BY <2>1, DigitsAssumption, <1>2
  <2> QED BY <1>4, <2>1, <2>2 DEF Values
<1> QED BY <1>3, <1>5

-----------------------------------------------------------------------------
(* The digits print_hex_fixed takes out are those of the number. *)
LEMMA DivDiv ==
    ASSUME NEW v \in Nat, NEW q \in Nat \ {0}
    PROVE  v \div q = 16 * (v \div (16 * q)) + ((v \div q) % 16)
<1> DEFINE a == v \div q
           b == v \div (16 * q)
<1>1. 16 * q \in Nat \ {0}
  OBVIOUS
<1>2. a \in Nat /\ a * q <= v /\ v < a * q + q
  BY DivBounds
<1>3. b \in Nat /\ b * (16 * q) <= v /\ v < b * (16 * q) + 16 * q
  BY <1>1, DivBounds
<1> HIDE DEF a, b
<1>4. b * (16 * q) = (16 * b) * q /\ b * (16 * q) + 16 * q = (16 * b + 16) * q
  BY <1>3, SMT
<1>5. a * q + q = (a + 1) * q
  BY <1>2, MultNat
<1>6. a * q \in Nat /\ (a + 1) * q \in Nat /\ (16 * b) * q \in Nat /\ (16 * b + 16) * q \in Nat
  BY <1>2, <1>3, MultNat
<1>7. 16 * b <= a
  <2>1. (16 * b) * q < (a + 1) * q
    BY <1>2, <1>3, <1>4, <1>5, <1>6
  <2>2. ~ (a + 1 <= 16 * b)
    BY <1>2, <1>3, <1>6, <2>1, MultMono
  <2> QED BY <1>2, <1>3, <2>2
<1>8. a < 16 * b + 16
  <2>1. a * q < (16 * b + 16) * q
    BY <1>2, <1>3, <1>4, <1>6
  <2>2. ~ (16 * b + 16 <= a)
    BY <1>2, <1>3, <1>6, <2>1, MultMono
  <2> QED BY <1>2, <1>3, <2>2
<1>9. a = 16 * b + (a % 16)
  <2> DEFINE c == a - 16 * b
  <2>1. c \in 0 .. 15 /\ a = 16 * b + c
    BY <1>2, <1>3, <1>7, <1>8
  <2> HIDE DEF c
  <2>2. (16 * b + c) % 16 = c
    BY <1>3, <2>1, SMT
  <2>3. a % 16 = c
    BY <2>1, <2>2, Zenon
  <2> QED BY <2>1, <2>3
<1> QED BY <1>9 DEF a, b

LEMMA HexFixed ==
    ASSUME NEW width \in {8, 16, 32, 64}, NEW v \in 0 .. Values(width) - 1
    PROVE  /\ print_hex_fixed(v, width) \in Seq(Nat) /\ Len(print_hex_fixed(v, width)) = Digits[width]
           /\ Horner(16, print_hex_fixed(v, width)) = v
<1> DEFINE D == Digits[width]
           s == print_hex_fixed(v, width)
           f == [n \in 0 .. D |-> v \div Power[D - n]]
<1>1. D \in 1 .. Digits[64] /\ Digits[64] \in Nat /\ D \in Nat
  BY Sizes
<1>2. Values(width) = Power[D] /\ Power[D] \in Nat /\ v \in Nat /\ v < Power[D]
  BY ValuesGrow DEF Values
<1>3. s = [n \in 1 .. D |-> (v \div Power[D - n]) % 16]
  BY DEF print_hex_fixed
<1> HIDE DEF D
<1>4. \A n \in 0 .. D : D - n \in 0 .. Digits[64] /\ Power[D - n] \in Nat \ {0}
  BY <1>1, Powers
<1>5. \A n \in 0 .. D : v \div Power[D - n] \in Nat
  BY <1>2, <1>4, DivBounds
<1>6. s \in [1 .. D -> Nat]
  <2>1. \A n \in 1 .. D : (v \div Power[D - n]) % 16 \in Nat
    BY <1>5
  <2> QED BY <1>3, <2>1
<1>7. s \in Seq(Nat) /\ Len(s) = D
  BY <1>1, <1>6, SeqDef, LenProperties
<1>8. f[0] = 0
  <2>1. v \div Power[D] = 0
    BY <1>2, SMT
  <2> QED BY <1>1, <2>1
<1>9. ASSUME NEW n \in 1 .. D PROVE f[n] = f[n - 1] * 16 + s[n]
  <2> DEFINE q == Power[D - n]
             r == Power[D - (n - 1)]
  <2>1. D - (n - 1) \in 1 .. Digits[64] /\ (D - (n - 1)) - 1 = D - n /\ n - 1 \in 0 .. D
    BY <1>1
  <2>2. r = 16 * q
    BY <2>1, Powers
  <2>3. q \in Nat \ {0}
    BY <1>1, <1>4
  <2>4. v \div q = 16 * (v \div r) + ((v \div q) % 16)
    BY <1>2, <2>2, <2>3, DivDiv
  <2>5. f[n] = v \div q /\ f[n - 1] = v \div r /\ s[n] = (v \div q) % 16
    BY <1>1, <1>3, <2>1
  <2>6. v \div r \in Nat
    BY <1>5, <2>1
  <2> DEFINE x == v \div r
  <2>7. x \in Nat /\ 16 * x = x * 16
    BY <2>6
  <2>8. f[n] = 16 * x + s[n] /\ f[n - 1] = x
    BY <2>4, <2>5
  <2> HIDE DEF q, r, f, s, x
  <2> QED BY <2>7, <2>8
<1>10. f[D] = v
  <2>1. D - D = 0 /\ v \div 1 = v
    BY <1>1, <1>2
  <2> QED BY <1>1, <2>1, Powers
<1> HIDE DEF f, s
<1>11. Horner(16, s) = f[Len(s)]
  <2>1. 16 \in Nat /\ \A n \in 1 .. Len(s) : f[n] = f[n - 1] * 16 + s[n]
    BY <1>7, <1>9
  <2> QED BY <1>7, <1>8, <2>1, HornerIs
<1> QED BY <1>7, <1>10, <1>11 DEF s, D

-----------------------------------------------------------------------------
(* The number that digits denote. *)
LEMMA HornerNat ==
    ASSUME NEW b \in Nat, NEW s \in Seq(Nat)
    PROVE  Horner(b, s) \in Nat
<1>1. Len(s) \in Nat
  BY LenProperties
<1>2. PICK f \in [0 .. Len(s) -> Nat] : Horner(b, s) = f[Len(s)]
  BY HornerSteps
<1> QED BY <1>1, <1>2

LEMMA HornerAppend ==
    ASSUME NEW b \in Nat, NEW s \in Seq(Nat), NEW d \in Nat
    PROVE  Append(s, d) \in Seq(Nat) /\ Horner(b, Append(s, d)) = Horner(b, s) * b + d
<1> DEFINE N == Len(s)
           t == Append(s, d)
<1>1. PICK f \in [0 .. N -> Nat] : /\ f[0] = 0 /\ \A n \in 1 .. N : f[n] = f[n - 1] * b + s[n]
                                   /\ Horner(b, s) = f[N]
  BY HornerSteps
<1>2. /\ N \in Nat /\ t \in Seq(Nat) /\ Len(t) = N + 1 /\ t[N + 1] = d
      /\ \A n \in 1 .. N : t[n] = s[n]
  BY AppendProperties, LenProperties
<1> HIDE DEF N, t
<1> DEFINE h == [n \in 0 .. N + 1 |-> IF n <= N THEN f[n] ELSE f[N] * b + d]
<1>3. h[0] = 0 /\ h[N + 1] = f[N] * b + d /\ \A n \in 0 .. N : h[n] = f[n]
  BY <1>1, <1>2
<1> HIDE DEF h
<1>4. ASSUME NEW n \in 1 .. Len(t) PROVE h[n] = h[n - 1] * b + t[n]
  <2>1. CASE n = N + 1
    <3>1. n - 1 = N /\ N \in 0 .. N
      BY <1>2, <2>1
    <3> QED BY <1>2, <1>3, <2>1, <3>1
  <2>2. CASE n # N + 1
    <3>1. n \in 1 .. N /\ n \in 0 .. N /\ n - 1 \in 0 .. N
      BY <1>2, <2>2
    <3> QED BY <1>1, <1>2, <1>3, <3>1
  <2> QED BY <2>1, <2>2
<1>5. Horner(b, t) = h[Len(t)]
  BY <1>2, <1>3, <1>4, HornerIs
<1> QED BY <1>1, <1>2, <1>3, <1>5 DEF t

(* print.c, print_uint: the digits that % and / put out, first to last, are those of
   the number, in every base, and a reader gets it back. *)
THEOREM PrintUint ==
    ASSUME NEW v \in Nat, NEW base \in Nat \ {0, 1}
    PROVE  print_uint(v, base) \in Seq(Nat) /\ Horner(base, print_uint(v, base)) = v
<1> DEFINE G(f, n) == IF n < base THEN <<n>> ELSE Append(f[n \div base], n % base)
           T == {k \in 0 .. v : \E f : f = [n \in 0 .. k |-> G(f, n)]}
<1>0. ASSUME NEW n \in Nat, n >= base
      PROVE  n \div base \in 0 .. n - 1 /\ n % base \in Nat /\ (n \div base) * base + (n % base) = n
  <2>1. n \div base \in Nat /\ (n \div base) * base <= n /\ n < (n \div base) * base + base
    BY DivBounds
  <2> DEFINE q == n \div base
  <2>2. (n \div base) * base + (n % base) = n /\ n % base \in Nat
    BY SMT
  <2>3. q < n
    <3> HIDE DEF q
    <3>1. q \in Nat /\ q * base <= n /\ n \in Nat \ {0}
      BY <1>0, <2>1 DEF q
    <3>2. q * 2 <= q * base
      BY <3>1, SMT
    <3> QED BY <3>1, <3>2
  <2> QED BY <2>1, <2>2, <2>3
<1>1. 0 \in T
  <2> DEFINE f == [n \in 0 .. 0 |-> <<0>>]
  <2>1. f = [n \in 0 .. 0 |-> G(f, n)]
    OBVIOUS
  <2> HIDE DEF f, G
  <2>2. \E h : h = [n \in 0 .. 0 |-> G(h, n)]
    BY <2>1
  <2> QED BY <2>2
<1>2. ASSUME NEW k \in 0 .. v - 1, k \in T PROVE k + 1 \in T
  <2>1. PICK f : f = [n \in 0 .. k |-> G(f, n)]
    BY <1>2
  <2> DEFINE h == [n \in 0 .. k + 1 |-> IF n <= k THEN f[n] ELSE G(f, n)]
  <2>2. ASSUME NEW n \in 0 .. k + 1 PROVE h[n] = G(h, n)
    <3> DEFINE q == n \div base
    <3>1. n < base \/ (n \div base \in 0 .. k /\ h[n \div base] = f[n \div base])
      <4>1. n < base \/ q \in 0 .. n - 1
        BY <1>0
      <4> HIDE DEF q
      <4>2. n < base \/ (q \in 0 .. k /\ q \in 0 .. k + 1 /\ q <= k)
        BY <4>1
      <4>3. n < base \/ (q \in 0 .. k /\ h[q] = f[q])
        BY <4>2
      <4> QED BY <4>3 DEF q
    <3>2. G(h, n) = G(f, n)
      <4> HIDE DEF h
      <4> QED BY <3>1
    <3>3. h[n] = G(f, n)
      <4>1. CASE n = k + 1
        <5> HIDE DEF G
        <5> QED BY <4>1
      <4>2. CASE n # k + 1
        <5>1. n \in 0 .. k
          BY <4>2
        <5> HIDE DEF G
        <5>2. h[n] = f[n] /\ f[n] = G(f, n)
          BY <2>1, <5>1
        <5> QED BY <5>2
      <4> QED BY <4>1, <4>2
    <3> QED BY <3>2, <3>3
  <2> HIDE DEF G
  <2>3. h = [n \in 0 .. k + 1 |-> h[n]]
    OBVIOUS
  <2> HIDE DEF h
  <2>4. h = [n \in 0 .. k + 1 |-> G(h, n)]
    BY <2>2, <2>3
  <2> QED BY <2>4
<1>3. PICK f : f = [n \in 0 .. v |-> G(f, n)]
  <2> HIDE DEF T
  <2>1. \A k \in 0 .. v : k \in T
    BY <1>1, <1>2, Upwards
  <2>2. v \in T
    BY <2>1
  <2> QED BY <2>2 DEF T
<1> DEFINE r == CHOOSE h : h = [n \in 0 .. v |-> G(h, n)]
<1>4. r = [n \in 0 .. v |-> G(r, n)]
  <2> HIDE DEF G
  <2> QED BY <1>3
<1>5. print_uint(v, base) = r[v]
  BY DEF print_uint
<1> HIDE DEF r
<1> DEFINE Right(n) == r[n] \in Seq(Nat) /\ Horner(base, r[n]) = n
           Wrong == {n \in 0 .. v : ~ Right(n)}
<1>6. Wrong = {}
  <2> SUFFICES ASSUME Wrong # {} PROVE FALSE
    OBVIOUS
  <2>1. Wrong \in SUBSET Nat
    OBVIOUS
  <2>2. PICK m \in Wrong : \A n \in Wrong : m <= n
    BY <2>1, LeastNat
  <2>3. m \in 0 .. v /\ ~ Right(m) /\ r[m] = G(r, m)
    BY <1>4
  <2>4. \A n \in 0 .. m - 1 : Right(n)
    BY <2>2, <2>3
  <2> HIDE DEF Wrong
  <2>5. CASE m < base
    <3>1. r[m] = <<m>> /\ m \in Nat
      BY <2>3, <2>5
    <3>2. <<m>> = Append(<<>>, m) /\ <<>> \in Seq(Nat)
      BY <3>1
    <3>3. Horner(base, <<>>) = 0
      <4>1. Len(<<>>) = 0
        OBVIOUS
      <4>2. PICK g \in [0 .. Len(<<>>) -> Nat] : g[0] = 0 /\ Horner(base, <<>>) = g[Len(<<>>)]
        BY <3>2, HornerSteps
      <4> QED BY <4>1, <4>2
    <3>4. Append(<<>>, m) \in Seq(Nat) /\ Horner(base, Append(<<>>, m)) = 0 * base + m
      BY <3>1, <3>2, <3>3, HornerAppend
    <3>5. Right(m)
      BY <3>1, <3>2, <3>4
    <3> QED BY <2>3, <3>5
  <2>6. CASE ~ (m < base)
    <3> DEFINE q == m \div base
    <3>1. q \in 0 .. m - 1 /\ m % base \in Nat /\ q * base + (m % base) = m
      <4>1. m \in Nat /\ m >= base
        BY <2>3, <2>6
      <4> QED BY <1>0, <4>1
    <3>2. r[m] = Append(r[q], m % base)
      BY <2>3, <2>6
    <3> HIDE DEF q
    <3>3. r[q] \in Seq(Nat) /\ Horner(base, r[q]) = q
      BY <2>4, <3>1
    <3>4. Append(r[q], m % base) \in Seq(Nat) /\ Horner(base, Append(r[q], m % base)) = q * base + (m % base)
      BY <3>1, <3>3, HornerAppend
    <3>5. Right(m)
      BY <3>1, <3>2, <3>4
    <3> QED BY <2>3, <3>5
  <2> QED BY <2>5, <2>6
<1>7. Right(v)
  BY <1>6
<1> QED BY <1>5, <1>7

-----------------------------------------------------------------------------
(* Digits, and sequences, put one after the other. *)
LEMMA HornerConcat ==
    ASSUME NEW s \in Seq(Nat), NEW t \in Seq(Nat), Len(t) <= Digits[64]
    PROVE  Horner(16, s \o t) = Horner(16, s) * Power[Len(t)] + Horner(16, t)
<1> DEFINE M == Len(s)
           N == Len(t)
           u == s \o t
<1>1. M \in Nat /\ N \in Nat /\ N <= Digits[64]
  BY LenProperties
<1>2. /\ u \in Seq(Nat) /\ Len(u) = M + N
      /\ \A n \in 1 .. M : u[n] = s[n]
      /\ \A n \in 1 .. N : u[M + n] = t[n]
  <2>1. /\ u \in Seq(Nat) /\ Len(u) = M + N
        /\ \A n \in 1 .. M + N : u[n] = IF n <= M THEN s[n] ELSE t[n - M]
    BY ConcatProperties
  <2> HIDE DEF u, M, N
  <2>2. \A n \in 1 .. M : u[n] = s[n]
    BY <1>1, <2>1
  <2>3. ASSUME NEW n \in 1 .. N PROVE u[M + n] = t[n]
    <3>1. M + n \in 1 .. M + N /\ ~ (M + n <= M) /\ (M + n) - M = n
      BY <1>1
    <3> QED BY <2>1, <3>1
  <2> QED BY <2>1, <2>2, <2>3
<1>3. PICK f \in [0 .. M -> Nat] : /\ f[0] = 0 /\ \A n \in 1 .. M : f[n] = f[n - 1] * 16 + s[n]
                                   /\ Horner(16, s) = f[M]
  BY HornerSteps
<1>4. PICK g \in [0 .. N -> Nat] : /\ g[0] = 0 /\ \A n \in 1 .. N : g[n] = g[n - 1] * 16 + t[n]
                                   /\ Horner(16, t) = g[N]
  BY HornerSteps
<1> HIDE DEF M, N, u
<1>5. \A n \in 0 .. N : Power[n] \in Nat /\ f[M] * Power[n] \in Nat /\ g[n] \in Nat /\ f[M] \in Nat
  <2>1. ASSUME NEW n \in 0 .. N PROVE Power[n] \in Nat /\ f[M] \in Nat
    <3>1. n \in 0 .. Digits[64]
      BY <1>1, Sizes
    <3> QED BY <1>1, <1>3, <3>1, Powers
  <2> QED BY <2>1, <1>4, MultNat
<1> DEFINE h == [n \in 0 .. M + N |-> IF n <= M THEN f[n] ELSE f[M] * Power[n - M] + g[n - M]]
<1>6. h[0] = 0 /\ (\A n \in 0 .. M : h[n] = f[n]) /\ \A n \in 0 .. N : h[M + n] = f[M] * Power[n] + g[n]
  <2>1. \A n \in 0 .. M : h[n] = f[n]
    BY <1>1
  <2>2. ASSUME NEW n \in 0 .. N PROVE h[M + n] = f[M] * Power[n] + g[n]
    <3>1. CASE n = 0
      <4>1. h[M] = f[M] /\ M + n = M
        BY <1>1, <3>1
      <4>2. f[M] * Power[0] + g[0] = f[M]
        BY <1>1, <1>3, <1>4, Powers
      <4> HIDE DEF h
      <4> QED BY <3>1, <4>1, <4>2
    <3>2. CASE n # 0
      <4>1. ~ (M + n <= M) /\ M + n \in 0 .. M + N /\ (M + n) - M = n
        BY <1>1, <3>2
      <4> QED BY <4>1
    <3> QED BY <3>1, <3>2
  <2>3. 0 \in 0 .. M
    BY <1>1
  <2> QED BY <1>3, <2>1, <2>2, <2>3
<1> HIDE DEF h
<1>7. ASSUME NEW n \in 1 .. M + N PROVE h[n] = h[n - 1] * 16 + u[n]
  <2>1. CASE n <= M
    <3>1. n \in 1 .. M /\ n \in 0 .. M /\ n - 1 \in 0 .. M
      BY <1>1, <2>1
    <3> QED BY <1>2, <1>3, <1>6, <3>1
  <2>2. CASE ~ (n <= M)
    <3> DEFINE k == n - M
               p == Power[k - 1]
               z == g[k - 1]
               w == f[M]
    <3>1. k \in 1 .. N /\ k \in 0 .. N /\ k - 1 \in 0 .. N /\ n = M + k /\ n - 1 = M + (k - 1)
      BY <1>1, <2>2
    <3> HIDE DEF k
    <3>2. p \in Nat /\ z \in Nat /\ w \in Nat /\ t[k] \in Nat
      <4>1. t[k] \in Nat
        BY <3>1, ElementOfSeq DEF N
      <4> QED BY <1>5, <3>1, <4>1
    <3>3. Power[k] = 16 * p
      <4>1. k \in 1 .. Digits[64]
        BY <1>1, <3>1, Sizes
      <4> QED BY <4>1, Powers
    <3>4. h[n] = w * (16 * p) + g[k] /\ h[n - 1] = w * p + z /\ u[n] = t[k] /\ g[k] = z * 16 + t[k]
      BY <1>2, <1>4, <1>6, <3>1, <3>3
    <3> DEFINE x == t[k]
    <3> HIDE DEF p, z, w, x
    <3>5. w * (16 * p) + (z * 16 + x) = (w * p + z) * 16 + x
      BY <3>2, SMT DEF x
    <3> QED BY <3>4, <3>5 DEF x
  <2> QED BY <2>1, <2>2
<1>8. Horner(16, u) = h[M + N]
  <2>1. 16 \in Nat /\ \A n \in 1 .. Len(u) : h[n] = h[n - 1] * 16 + u[n]
    BY <1>2, <1>7
  <2>2. Horner(16, u) = h[Len(u)]
    BY <1>2, <1>6, <2>1, HornerIs
  <2> QED BY <1>2, <2>2
<1>9. h[M + N] = f[M] * Power[N] + g[N]
  BY <1>1, <1>6
<1> QED BY <1>3, <1>4, <1>8, <1>9 DEF M, N, u

(* FlattenSeq joins one sequence after the other. *)
LEMMA FlattenSteps ==
    ASSUME NEW A, NEW ss \in Seq(Seq(A))
    PROVE  \E f \in [0 .. Len(ss) -> Seq(A)] :
               /\ f[0] = <<>> /\ \A n \in 1 .. Len(ss) : f[n] = f[n - 1] \o ss[n]
               /\ FlattenSeq(ss) = f[Len(ss)]
<1> DEFINE N == Len(ss)
           g == [p \in (1 .. N) \X Seq(A) |-> p[2] \o ss[p[1]]]
           G(f, n) == IF n = 1 THEN ss[n] ELSE f[n - 1] \o ss[n]
<1>1. N \in Nat /\ \A n \in 1 .. N : ss[n] \in Seq(A)
  BY LenProperties, ElementOfSeq
<1>2. g \in [(1 .. N) \X Seq(A) -> Seq(A)]
  <2>1. ASSUME NEW p \in (1 .. N) \X Seq(A) PROVE p[2] \o ss[p[1]] \in Seq(A)
    BY <1>1, ConcatProperties
  <2> QED BY <2>1
<1>3. PICK f \in [0 .. N -> Seq(A)] : Recursive(f, <<>>, N, g)
  <2> HIDE DEF g, N
  <2>1. <<>> \in Seq(A)
    OBVIOUS
  <2> QED BY <1>1, <1>2, <2>1, Recursion
<1> HIDE DEF N
<1>4. ASSUME NEW n \in 1 .. N PROVE f[n] = f[n - 1] \o ss[n]
  <2>1. n - 1 \in 0 .. N /\ f[n - 1] \in Seq(A)
    BY <1>1, <1>3
  <2>2. g[<<n, f[n - 1]>>] = f[n - 1] \o ss[n]
    BY <2>1
  <2> HIDE DEF g
  <2> QED BY <1>3, <2>2 DEF Recursive
<1>5. f[0] = <<>>
  BY <1>3 DEF Recursive
<1> HIDE DEF g
<1>6. FlattenSeq(ss) = f[N]
  <2>1. CASE N = 0
    <3>1. ss = <<>>
      BY <2>1, EmptySeq DEF N
    <3> QED BY <1>5, <2>1, <3>1 DEF FlattenSeq, N
  <2>2. CASE N # 0
    <3> DEFINE h == [n \in 1 .. N |-> f[n]]
    <3>0. f[1] = ss[1]
      <4>1. 1 \in 1 .. N /\ 1 - 1 = 0 /\ ss[1] \in Seq(A)
        BY <1>1, <2>2
      <4>2. f[1] = <<>> \o ss[1]
        BY <1>4, <1>5, <4>1
      <4> QED BY <4>1, <4>2
    <3>1. h = [n \in 1 .. N |-> G(h, n)]
      <4>1. ASSUME NEW n \in 1 .. N PROVE h[n] = G(h, n)
        <5>1. CASE n = 1
          BY <3>0, <5>1
        <5>2. CASE n # 1
          <6>1. n - 1 \in 1 .. N
            BY <1>1, <5>2
          <6>2. h[n] = f[n] /\ h[n - 1] = f[n - 1]
            BY <6>1
          <6> HIDE DEF h
          <6> QED BY <1>4, <5>2, <6>2
        <5> QED BY <5>1, <5>2
      <4>2. h = [n \in 1 .. N |-> h[n]]
        OBVIOUS
      <4> HIDE DEF h, G
      <4> QED BY <4>1, <4>2
    <3> DEFINE r == CHOOSE x : x = [n \in 1 .. N |-> G(x, n)]
    <3>2. r = [n \in 1 .. N |-> G(r, n)]
      <4> HIDE DEF G, h
      <4> QED BY <3>1
    <3>3. FlattenSeq(ss) = r[N]
      BY <2>2 DEF FlattenSeq, N
    <3> HIDE DEF r
    <3>4. \A n \in 1 .. N : r[n] = f[n]
      <4> DEFINE T == {n \in 1 .. N : r[n] = f[n]}
      <4>1. 1 \in T
        BY <1>1, <2>2, <3>0, <3>2
      <4>2. ASSUME NEW k \in 1 .. N - 1, k \in T PROVE k + 1 \in T
        <5>1. k + 1 \in 1 .. N /\ (k + 1) - 1 = k /\ k + 1 # 1
          BY <1>1
        <5>2. r[k + 1] = r[k] \o ss[k + 1] /\ f[k + 1] = f[k] \o ss[k + 1]
          BY <1>4, <3>2, <5>1
        <5> QED BY <4>2, <5>1, <5>2
      <4> HIDE DEF T
      <4>3. 1 \in Nat /\ N \in Nat
        BY <1>1
      <4>4. \A l \in 1 .. N : l \in T
        BY <4>1, <4>2, <4>3, Upwards
      <4> QED BY <4>4 DEF T
    <3> QED BY <1>1, <2>2, <3>3, <3>4
  <2> QED BY <2>1, <2>2
<1> QED BY <1>3, <1>4, <1>5, <1>6 DEF N

LEMMA Earlier ==
    ASSUME NEW m \in Nat
    PROVE  \A n \in 1 .. m : n - 1 \in 0 .. m /\ n \in 0 .. m
OBVIOUS

LEMMA FunctionSeq ==
    ASSUME NEW A, NEW n \in Nat, NEW s \in [1 .. n -> A]
    PROVE  s \in Seq(A) /\ Len(s) = n
<1>1. s \in Seq(A)
  BY SeqDef
<1>2. DOMAIN s = 1 .. n /\ DOMAIN s = 1 .. Len(s) /\ Len(s) \in Nat
  BY <1>1, LenProperties
<1>3. Len(s) = n
  BY <1>2
<1> QED BY <1>1, <1>3

-----------------------------------------------------------------------------
(* What a reader makes of the texts. *)
LEMMA ReadNumber ==
    ASSUME NEW v \in Nat, NEW base \in Nat \ {0, 1}
    PROVE  Read(Number(FALSE, base, print_uint(v, base))) = <<"number", v>>
<1>1. Horner(base, print_uint(v, base)) = v
  BY PrintUint
<1> DEFINE t == Number(FALSE, base, print_uint(v, base))
<1>2. t[1] = "number" /\ t[2] = FALSE /\ t[3] = base /\ t[4] = print_uint(v, base)
  BY DEF Number
<1> HIDE DEF t
<1>3. Read(t) = <<"number", 1 * v>>
  BY <1>1, <1>2 DEF Read
<1>4. 1 * v = v
  OBVIOUS
<1> QED BY <1>3, <1>4 DEF t

(* print_signed writes every 64-bit timestamp, the least one, which has no
   positive counterpart, among them: it is negated after one was added. *)
THEOREM ReadSigned ==
    ASSUME NEW v \in -(Values(64) \div 2) .. Values(64) \div 2 - 1
    PROVE  Read(print_signed(v)) = <<"number", v>>
<1> DEFINE W == Values(64)
           a == IF v < 0 THEN ((-(v + 1)) % W) + 1 ELSE v
           t == print_signed(v)
<1>1. W \in Nat /\ W >= 16
  BY ValuesGrow
<1>2. v \in -(W \div 2) .. W \div 2 - 1
  OBVIOUS
<1> HIDE DEF W
<1>3. a \in Nat /\ (IF v < 0 THEN -1 ELSE 1) * a = v
  <2>1. CASE v < 0
    <3> DEFINE b == -(v + 1)
    <3>1. b \in Nat /\ b < W /\ v = -1 * (b + 1)
      BY <1>1, <1>2, <2>1
    <3> HIDE DEF b
    <3>2. b % W = b
      BY <1>1, <3>1
    <3>3. a = b + 1
      BY <2>1, <3>2 DEF b
    <3> HIDE DEF a
    <3> QED BY <2>1, <3>1, <3>3
  <2>2. CASE ~ (v < 0)
    BY <1>1, <1>2, <2>2
  <2> QED BY <2>1, <2>2
<1>4. t = Number(v < 0, 10, print_uint(a, 10))
  BY DEF print_signed, W
<1> HIDE DEF a, t
<1>5. Horner(10, print_uint(a, 10)) = a
  BY <1>3, PrintUint
<1>6. t[1] = "number" /\ t[2] = (v < 0) /\ t[3] = 10 /\ t[4] = print_uint(a, 10)
  BY <1>4 DEF Number
<1>7. Read(t) = <<"number", (IF t[2] THEN -1 ELSE 1) * Horner(t[3], t[4])>>
  BY <1>6 DEF Read
<1>8. Read(t) = <<"number", (IF v < 0 THEN -1 ELSE 1) * a>>
  BY <1>5, <1>6, <1>7
<1> QED BY <1>3, <1>8 DEF t

(* The last group of a UUID is six bytes one after the other. *)
LEMMA HexBytes ==
    ASSUME NEW d \in [1 .. 8 -> 0 .. Values(8) - 1]
    PROVE  LET ss == [n \in 1 .. 6 |-> print_hex_fixed(d[n + 2], 8)]
           IN Horner(16, FlattenSeq(ss)) = Horner(Values(8), SubSeq(d, 3, 8))
<1> DEFINE D == Digits[8]
           V == Values(8)
           ss == [n \in 1 .. 6 |-> print_hex_fixed(d[n + 2], 8)]
           e == SubSeq(d, 3, 8)
<1>1. D \in Nat /\ D \in 1 .. Digits[64] /\ D <= Digits[64] /\ V = Power[D] /\ V \in Nat
  BY Sizes, ValuesGrow DEF Values
<1>2. ASSUME NEW n \in 1 .. 6
      PROVE  ss[n] \in Seq(Nat) /\ Len(ss[n]) = D /\ Horner(16, ss[n]) = d[n + 2] /\ d[n + 2] \in Nat
  <2>1. n + 2 \in 1 .. 8 /\ d[n + 2] \in 0 .. V - 1
    OBVIOUS
  <2>2. 8 \in {8, 16, 32, 64}
    OBVIOUS
  <2> DEFINE x == d[n + 2]
  <2>3. x \in 0 .. Values(8) - 1
    BY <2>1
  <2>4. ss[n] = print_hex_fixed(x, 8)
    OBVIOUS
  <2> HIDE DEF x, ss
  <2>5. /\ print_hex_fixed(x, 8) \in Seq(Nat) /\ Len(print_hex_fixed(x, 8)) = D
        /\ Horner(16, print_hex_fixed(x, 8)) = x
    BY <2>2, <2>3, HexFixed
  <2> HIDE DEF D
  <2>6. x \in Nat
    BY <1>1, <2>3
  <2> QED BY <2>4, <2>5, <2>6 DEF x
<1>3. ss \in Seq(Seq(Nat)) /\ Len(ss) = 6
  <2>1. ss \in [1 .. 6 -> Seq(Nat)]
    BY <1>2
  <2> HIDE DEF ss
  <2> DEFINE A == Seq(Nat)
  <2>2. 6 \in Nat /\ ss \in [1 .. 6 -> A]
    BY <2>1
  <2> HIDE DEF A
  <2>3. ss \in Seq(A) /\ Len(ss) = 6
    BY <2>2, FunctionSeq
  <2> QED BY <2>3 DEF A
<1>4. e \in Seq(Nat) /\ Len(e) = 6 /\ \A n \in 1 .. 6 : e[n] = d[n + 2]
  <2>1. \A j \in 3 .. 8 : d[j] \in Nat
    BY <1>1
  <2>2. 3 \in Int /\ 8 \in Int
    OBVIOUS
  <2>3. /\ e \in Seq(Nat) /\ Len(e) = (IF 3 <= 8 THEN 8 - 3 + 1 ELSE 0)
        /\ \A j \in 1 .. 8 - 3 + 1 : e[j] = d[3 + j - 1]
    BY <2>1, <2>2, SubSeqProperties
  <2> HIDE DEF e
  <2> QED BY <2>3
<1> HIDE DEF D, V, ss, e
<1>5. PICK f \in [0 .. 6 -> Seq(Nat)] :
          /\ f[0] = <<>> /\ \A n \in 1 .. 6 : f[n] = f[n - 1] \o ss[n]
          /\ FlattenSeq(ss) = f[6]
  <2>1. PICK f \in [0 .. Len(ss) -> Seq(Nat)] :
            /\ f[0] = <<>> /\ \A n \in 1 .. Len(ss) : f[n] = f[n - 1] \o ss[n]
            /\ FlattenSeq(ss) = f[Len(ss)]
    BY <1>3, FlattenSteps
  <2> QED BY <1>3, <2>1
<1> DEFINE w == [k \in 0 .. 6 |-> Horner(16, f[k])]
<1> HIDE DEF w
<1>6. w[0] = 0
  <2>1. <<>> \in Seq(Nat) /\ Len(<<>>) = 0 /\ 16 \in Nat
    OBVIOUS
  <2>2. PICK g \in [0 .. Len(<<>>) -> Nat] : g[0] = 0 /\ Horner(16, <<>>) = g[Len(<<>>)]
    BY <2>1, HornerSteps
  <2> QED BY <1>5, <2>1, <2>2 DEF w
<1>7. ASSUME NEW n \in 1 .. 6 PROVE w[n] = w[n - 1] * V + e[n]
  <2>0. n - 1 \in 0 .. 6 /\ n \in 0 .. 6
    BY 6 \in Nat, Earlier
  <2>1. n - 1 \in 0 .. 6 /\ n \in 0 .. 6 /\ f[n - 1] \in Seq(Nat) /\ f[n] = f[n - 1] \o ss[n]
    BY <1>5, <2>0
  <2>2. Horner(16, f[n]) = Horner(16, f[n - 1]) * Power[D] + Horner(16, ss[n])
    BY <1>1, <1>2, <2>1, HornerConcat
  <2>3. w[n] = Horner(16, f[n]) /\ w[n - 1] = Horner(16, f[n - 1])
    BY <2>0 DEF w
  <2> QED BY <1>1, <1>2, <1>4, <2>1, <2>2, <2>3
<1>8. Horner(V, e) = w[Len(e)]
  <2>1. \A n \in 1 .. Len(e) : w[n] = w[n - 1] * V + e[n]
    BY <1>4, <1>7
  <2> QED BY <1>1, <1>4, <1>6, <2>1, HornerIs
<1>9. Horner(V, e) = Horner(16, FlattenSeq(ss))
  BY <1>4, <1>5, <1>8 DEF w
<1> QED BY <1>9 DEF V, e, ss

(* print_uuid writes a UUID in its five groups, with every leading zero, so that each
   group is read as the bytes it is of. *)
THEOREM ReadUuid ==
    ASSUME NEW u \in [a : 0 .. Values(32) - 1, b : 0 .. Values(16) - 1,
                      c : 0 .. Values(16) - 1, d : [1 .. 8 -> 0 .. Values(8) - 1]]
    PROVE  Read(print_uuid(u)) = <<"uuid", Uuid(u)>>
<1> DEFINE last == FlattenSeq([n \in 1 .. 6 |-> print_hex_fixed(u.d[n + 2], 8)])
           two == print_hex_fixed(u.d[1], 8) \o print_hex_fixed(u.d[2], 8)
           g == <<print_hex_fixed(u.a, 32), print_hex_fixed(u.b, 16), print_hex_fixed(u.c, 16), two, last>>
<1>1. Horner(16, print_hex_fixed(u.a, 32)) = u.a
  <2>1. u.a \in 0 .. Values(32) - 1 /\ 32 \in {8, 16, 32, 64}
    OBVIOUS
  <2> QED BY <2>1, HexFixed
<1>2. Horner(16, print_hex_fixed(u.b, 16)) = u.b /\ Horner(16, print_hex_fixed(u.c, 16)) = u.c
  <2>1. u.b \in 0 .. Values(16) - 1 /\ u.c \in 0 .. Values(16) - 1 /\ 16 \in {8, 16, 32, 64}
    OBVIOUS
  <2> QED BY <2>1, HexFixed
<1>3. Horner(16, two) = u.d[1] * Values(8) + u.d[2]
  <2>1. u.d[1] \in 0 .. Values(8) - 1 /\ u.d[2] \in 0 .. Values(8) - 1 /\ 8 \in {8, 16, 32, 64}
    OBVIOUS
  <2> DEFINE x == print_hex_fixed(u.d[1], 8)
             y == print_hex_fixed(u.d[2], 8)
  <2>2. /\ x \in Seq(Nat) /\ Horner(16, x) = u.d[1]
        /\ y \in Seq(Nat) /\ Len(y) = Digits[8] /\ Horner(16, y) = u.d[2]
    BY <2>1, HexFixed
  <2>3. Digits[8] <= Digits[64]
    BY Sizes
  <2> HIDE DEF x, y
  <2>4. Horner(16, x \o y) = Horner(16, x) * Power[Len(y)] + Horner(16, y)
    BY <2>2, <2>3, HornerConcat
  <2> QED BY <2>2, <2>4 DEF Values, x, y
<1>4. Horner(16, last) = Horner(Values(8), SubSeq(u.d, 3, 8))
  <2>1. u.d \in [1 .. 8 -> 0 .. Values(8) - 1]
    OBVIOUS
  <2> QED BY <2>1, HexBytes
<1>5. print_uuid(u) = <<"uuid", g>>
  BY DEF print_uuid
<1> DEFINE t == print_uuid(u)
<1>6. t[1] = "uuid" /\ t[2] = g
  <2> HIDE DEF g
  <2> QED BY <1>5
<1> HIDE DEF t
<1>7. Read(t) = <<"uuid", [n \in 1 .. 5 |-> Horner(16, g[n])]>>
  <2> HIDE DEF g
  <2> QED BY <1>6 DEF Read
<1>8. [n \in 1 .. 5 |-> Horner(16, g[n])] = Uuid(u)
  <2>1. /\ g[1] = print_hex_fixed(u.a, 32) /\ g[2] = print_hex_fixed(u.b, 16) /\ g[3] = print_hex_fixed(u.c, 16)
        /\ g[4] = two /\ g[5] = last
    OBVIOUS
  <2> HIDE DEF g, two, last
  <2> DEFINE h == [n \in 1 .. 5 |-> Horner(16, g[n])]
  <2>2. h[1] = u.a /\ h[2] = u.b /\ h[3] = u.c /\ h[4] = u.d[1] * Values(8) + u.d[2]
        /\ h[5] = Horner(Values(8), SubSeq(u.d, 3, 8))
    BY <1>1, <1>2, <1>3, <1>4, <2>1
  <2>3. h = [n \in 1 .. 5 |-> h[n]]
    OBVIOUS
  <2> HIDE DEF h
  <2>4. h = <<h[1], h[2], h[3], h[4], h[5]>>
    BY <2>3
  <2>5. h = Uuid(u)
    BY <2>2, <2>4 DEF Uuid
  <2> QED BY <2>5 DEF h
<1> QED BY <1>7, <1>8 DEF t

-----------------------------------------------------------------------------
(* Sequences of anything. *)
IsSeq(s) == s \in Seq({s[j] : j \in DOMAIN s})

LEMMA SomeSeq == ASSUME NEW A, NEW s \in Seq(A) PROVE IsSeq(s)
<1>1. Len(s) \in Nat /\ s \in [1 .. Len(s) -> A] /\ DOMAIN s = 1 .. Len(s)
  BY LenProperties
<1> DEFINE R == {s[j] : j \in DOMAIN s}
<1>2. s \in [1 .. Len(s) -> R]
  BY <1>1
<1>3. s \in Seq(R)
  BY <1>1, <1>2, SeqDef
<1> QED BY <1>3 DEF IsSeq

LEMMA SeqDomain ==
    ASSUME NEW s, IsSeq(s)
    PROVE  Len(s) \in Nat /\ DOMAIN s = 1 .. Len(s)
BY LenProperties DEF IsSeq

LEMMA Joined ==
    ASSUME NEW s, IsSeq(s), NEW t, IsSeq(t)
    PROVE  /\ IsSeq(s \o t) /\ Len(s) \in Nat /\ Len(t) \in Nat
           /\ DOMAIN s = 1 .. Len(s) /\ DOMAIN t = 1 .. Len(t) /\ DOMAIN (s \o t) = 1 .. Len(s) + Len(t)
           /\ \A j \in 1 .. Len(s) : (s \o t)[j] = s[j]
           /\ \A j \in 1 .. Len(t) : (s \o t)[Len(s) + j] = t[j]
<1> DEFINE A == {s[j] : j \in DOMAIN s}
           B == {t[j] : j \in DOMAIN t}
           C == A \cup B
           u == s \o t
<1>1. s \in Seq(A) /\ t \in Seq(B)
  BY DEF IsSeq
<1> HIDE DEF A, B
<1>2. s \in Seq(C) /\ t \in Seq(C)
  BY <1>1, SeqMonotonic
<1> HIDE DEF C
<1>3. Len(s) \in Nat /\ Len(t) \in Nat /\ DOMAIN s = 1 .. Len(s) /\ DOMAIN t = 1 .. Len(t)
  BY <1>2, LenProperties
<1>4. /\ u \in Seq(C) /\ Len(u) = Len(s) + Len(t)
      /\ \A j \in 1 .. Len(s) + Len(t) : u[j] = IF j <= Len(s) THEN s[j] ELSE t[j - Len(s)]
  BY <1>2, ConcatProperties
<1> HIDE DEF u
<1>5. IsSeq(u) /\ DOMAIN u = 1 .. Len(s) + Len(t)
  BY <1>4, SomeSeq, LenProperties
<1>6. \A j \in 1 .. Len(s) : u[j] = s[j]
  BY <1>3, <1>4
<1>7. \A j \in 1 .. Len(t) : u[Len(s) + j] = t[j]
  BY <1>3, <1>4
<1> QED BY <1>3, <1>5, <1>6, <1>7 DEF u

LEMMA Lasts ==
    ASSUME NEW p, IsSeq(p), NEW x
    PROVE  /\ IsSeq(Append(p, x)) /\ Len(p) \in Nat /\ Len(Append(p, x)) = Len(p) + 1
           /\ \A j \in 1 .. Len(p) : Append(p, x)[j] = p[j]
           /\ Append(p, x)[Len(p) + 1] = x
<1> DEFINE A == {p[j] : j \in DOMAIN p}
           B == A \cup {x}
<1>1. p \in Seq(A)
  BY DEF IsSeq
<1> HIDE DEF A
<1>2. p \in Seq(B) /\ x \in B
  BY <1>1, SeqMonotonic
<1> HIDE DEF B
<1>3. /\ Append(p, x) \in Seq(B) /\ Len(Append(p, x)) = Len(p) + 1
      /\ \A j \in 1 .. Len(p) : Append(p, x)[j] = p[j]
      /\ Append(p, x)[Len(p) + 1] = x
  BY <1>2, AppendProperties
<1>4. Len(p) \in Nat
  BY <1>2, LenProperties
<1>5. IsSeq(Append(p, x))
  BY <1>3, SomeSeq
<1> QED BY <1>3, <1>4, <1>5

-----------------------------------------------------------------------------
(* N things that are the members of F, each once. *)
Once(p, N, F) == {p[n] : n \in 1 .. N} = F /\ \A n, m \in 1 .. N : p[n] = p[m] => n = m

LEMMA OnceBoth ==
    ASSUME NEW a \in Nat, NEW b \in Nat, NEW p, NEW q, NEW r, NEW F, NEW G,
           Once(p, a, F), Once(q, b, G), F \cap G = {},
           \A j \in 1 .. a : r[j] = p[j], \A j \in 1 .. b : r[a + j] = q[j]
    PROVE  Once(r, a + b, F \cup G)
<1>1. ASSUME NEW n \in 1 .. a + b
      PROVE  \/ n \in 1 .. a /\ r[n] = p[n] /\ r[n] \in F
             \/ n - a \in 1 .. b /\ r[n] = q[n - a] /\ r[n] \in G
  <2>1. CASE n <= a
    <3>1. n \in 1 .. a /\ r[n] = p[n]
      BY <2>1
    <3> QED BY <3>1 DEF Once
  <2>2. CASE ~ (n <= a)
    <3>1. n - a \in 1 .. b /\ a + (n - a) = n
      BY <2>2
    <3>2. r[n] = q[n - a]
      BY <3>1
    <3> QED BY <3>1, <3>2 DEF Once
  <2> QED BY <2>1, <2>2
<1>2. {r[n] : n \in 1 .. a + b} = F \cup G
  <2>1. ASSUME NEW x \in F PROVE \E n \in 1 .. a + b : r[n] = x
    <3>1. PICK n \in 1 .. a : p[n] = x
      BY DEF Once
    <3>2. n \in 1 .. a + b /\ r[n] = p[n]
      OBVIOUS
    <3> QED BY <3>1, <3>2
  <2>2. ASSUME NEW x \in G PROVE \E n \in 1 .. a + b : r[n] = x
    <3>1. PICK n \in 1 .. b : q[n] = x
      BY DEF Once
    <3>2. a + n \in 1 .. a + b /\ r[a + n] = q[n]
      OBVIOUS
    <3> QED BY <3>1, <3>2
  <2> QED BY <1>1, <2>1, <2>2
<1>3. ASSUME NEW n \in 1 .. a + b, NEW m \in 1 .. a + b, r[n] = r[m] PROVE n = m
  <2>1. CASE r[n] \in F
    <3>1. r[n] \notin G /\ r[m] \notin G
      BY <1>3, <2>1
    <3>2. n \in 1 .. a /\ r[n] = p[n] /\ m \in 1 .. a /\ r[m] = p[m]
      BY <1>1, <3>1
    <3> QED BY <1>3, <3>2 DEF Once
  <2>2. CASE r[n] \notin F
    <3>1. r[m] \notin F
      BY <1>3, <2>2
    <3>2. n - a \in 1 .. b /\ r[n] = q[n - a] /\ m - a \in 1 .. b /\ r[m] = q[m - a]
      BY <1>1, <2>2, <3>1
    <3>3. n - a = m - a
      BY <1>3, <3>2 DEF Once
    <3> QED BY <3>3
  <2> QED BY <2>1, <2>2
<1> QED BY <1>2, <1>3 DEF Once

-----------------------------------------------------------------------------
(* Lines that say the facts F, each once. *)
Said(line) == <<line.path, Read(line.text)>>
Says(s, F) ==
    /\ IsSeq(s) /\ {Said(s[n]) : n \in DOMAIN s} = F
    /\ \A n, m \in DOMAIN s : Said(s[n]) = Said(s[m]) => n = m

LEMMA SaysNothing == Says(<<>>, {})
<1>1. <<>> \in Seq({}) /\ DOMAIN <<>> = {}
  OBVIOUS
<1>2. IsSeq(<<>>)
  BY <1>1, SomeSeq
<1> QED BY <1>1, <1>2 DEF Says

LEMMA SaysOne ==
    ASSUME NEW line
    PROVE  Says(<<line>>, {Said(line)})
<1> DEFINE s == <<line>>
<1>1. s \in Seq({line}) /\ DOMAIN s = {1} /\ s[1] = line
  OBVIOUS
<1> HIDE DEF s
<1>2. IsSeq(s)
  BY <1>1, SomeSeq
<1>3. {Said(s[n]) : n \in DOMAIN s} = {Said(line)}
  BY <1>1
<1> QED BY <1>1, <1>2, <1>3 DEF Says, s

LEMMA SaysBoth ==
    ASSUME NEW s, NEW t, NEW F, NEW G, Says(s, F), Says(t, G), F \cap G = {}
    PROVE  Says(s \o t, F \cup G)
<1> DEFINE u == s \o t
           a == Len(s)
           b == Len(t)
           p == [n \in DOMAIN s |-> Said(s[n])]
           q == [n \in DOMAIN t |-> Said(t[n])]
           r == [n \in DOMAIN u |-> Said(u[n])]
<1>1. /\ IsSeq(u) /\ a \in Nat /\ b \in Nat
      /\ DOMAIN s = 1 .. a /\ DOMAIN t = 1 .. b /\ DOMAIN u = 1 .. a + b
      /\ \A j \in 1 .. a : u[j] = s[j]
      /\ \A j \in 1 .. b : u[a + j] = t[j]
  BY Joined DEF Says
<1> HIDE DEF u, a, b
<1>2. Once(p, a, F) /\ Once(q, b, G)
  BY <1>1 DEF Says, Once
<1>3. \A j \in 1 .. a : r[j] = p[j]
  BY <1>1
<1>4. \A j \in 1 .. b : r[a + j] = q[j]
  BY <1>1
<1> HIDE DEF p, q, r
<1>5. Once(r, a + b, F \cup G)
  BY <1>1, <1>2, <1>3, <1>4, OnceBoth
<1>6. \A n \in DOMAIN u : r[n] = Said(u[n])
  BY DEF r
<1>7. {Said(u[n]) : n \in DOMAIN u} = F \cup G
  <2>1. {Said(u[n]) : n \in DOMAIN u} = {r[n] : n \in 1 .. a + b}
    BY <1>1, <1>6
  <2> QED BY <1>5, <2>1 DEF Once
<1>8. \A n, m \in DOMAIN u : Said(u[n]) = Said(u[m]) => n = m
  BY <1>1, <1>5, <1>6 DEF Once
<1> QED BY <1>1, <1>7, <1>8 DEF Says, u

(* Blocks of lines one after the other. *)
LEMMA SaysAll ==
    ASSUME NEW N \in Nat, NEW ss, ss = [n \in 1 .. N |-> ss[n]], NEW G,
           \A n \in 1 .. N : Says(ss[n], G[n]),
           \A n, m \in 1 .. N : n # m => G[n] \cap G[m] = {}
    PROVE  Says(FlattenSeq(ss), UNION {G[n] : n \in 1 .. N})
<1> DEFINE A == UNION {{ss[n][j] : j \in DOMAIN ss[n]} : n \in 1 .. N}
           B == Seq(A)
           U(k) == UNION {G[n] : n \in 1 .. k}
<1>1. ss \in Seq(B) /\ Len(ss) = N
  <2>1. ASSUME NEW n \in 1 .. N PROVE ss[n] \in B
    <3> DEFINE C == {ss[n][j] : j \in DOMAIN ss[n]}
    <3>1. ss[n] \in Seq(C)
      BY DEF Says, IsSeq
    <3>2. C \subseteq A
      OBVIOUS
    <3> HIDE DEF A, C
    <3> QED BY <3>1, <3>2, SeqMonotonic
  <2> HIDE DEF B
  <2>2. ss \in [1 .. N -> B]
    BY <2>1
  <2> QED BY <2>2, FunctionSeq
<1> HIDE DEF A
<1>2. PICK f \in [0 .. N -> Seq(A)] :
          /\ f[0] = <<>> /\ \A n \in 1 .. N : f[n] = f[n - 1] \o ss[n]
          /\ FlattenSeq(ss) = f[N]
  <2>1. ss \in Seq(Seq(A))
    BY <1>1
  <2>2. PICK f \in [0 .. Len(ss) -> Seq(A)] :
            /\ f[0] = <<>> /\ \A n \in 1 .. Len(ss) : f[n] = f[n - 1] \o ss[n]
            /\ FlattenSeq(ss) = f[Len(ss)]
    BY <2>1, FlattenSteps
  <2> QED BY <1>1, <2>2
<1> DEFINE T == {k \in 0 .. N : Says(f[k], U(k))}
<1>3. 0 \in T
  <2>1. U(0) = {}
    OBVIOUS
  <2>2. Says(f[0], U(0))
    <3> HIDE DEF U
    <3> QED BY <1>2, <2>1, SaysNothing
  <2> QED BY <2>2
<1>4. ASSUME NEW k \in 0 .. N - 1, k \in T PROVE k + 1 \in T
  <2>1. k + 1 \in 1 .. N /\ (k + 1) - 1 = k
    OBVIOUS
  <2>2. f[k + 1] = f[k] \o ss[k + 1]
    BY <1>2, <2>1
  <2>3. U(k + 1) = U(k) \cup G[k + 1]
    <3>1. 1 .. k + 1 = 1 .. k \cup {k + 1}
      OBVIOUS
    <3> QED BY <3>1
  <2>4. U(k) \cap G[k + 1] = {}
    <3>1. \A n \in 1 .. k : n \in 1 .. N /\ n # k + 1
      OBVIOUS
    <3> QED BY <2>1, <3>1
  <2> HIDE DEF U
  <2>5. Says(f[k], U(k)) /\ Says(ss[k + 1], G[k + 1])
    BY <1>4, <2>1
  <2>6. Says(f[k] \o ss[k + 1], U(k) \cup G[k + 1])
    BY <2>4, <2>5, SaysBoth
  <2>7. Says(f[k + 1], U(k + 1))
    BY <2>2, <2>3, <2>6
  <2> QED BY <2>1, <2>7
<1>5. N \in T
  <2> HIDE DEF T
  <2>1. \A l \in 0 .. N : l \in T
    BY <1>3, <1>4, Upwards
  <2> QED BY <2>1
<1> QED BY <1>2, <1>5

-----------------------------------------------------------------------------
(* The tables of the protocol. *)
LEMMA BitsTable ==
    /\ DOMAIN Bits = {"u8", "u16", "u32", "u64"}
    /\ Bits["u8"] = 8 /\ Bits["u16"] = 16 /\ Bits["u32"] = 32 /\ Bits["u64"] = 64
BY DEF Bits

LEMMA ElementTable ==
    /\ DOMAIN Element = {"files", "memmap_entries", "mp_infos", "screens", "modes"}
    /\ Element["files"] = "file" /\ Element["memmap_entries"] = "memmap_entry" /\ Element["mp_infos"] = "mp_info"
    /\ Element["screens"] = "screen" /\ Element["modes"] = "mode"
BY DEF Element

LEMMA CountTable ==
    /\ CountOf["modules"] = "module_count" /\ CountOf["entries"] = "entry_count" /\ CountOf["cpus"] = "cpu_count"
    /\ CountOf["framebuffers"] = "framebuffer_count" /\ CountOf["modes"] = "mode_count"
BY DEF CountOf

LEMMA NamedTable == DOMAIN Named = {"firmware_type", "mode", "type", "media_type", "memory_model"}
BY DEF Named

-----------------------------------------------------------------------------
(* Lines that fit a structure: each is of a field whose type its conversion prints
   whole, and together they tell of every field that points to nothing once its
   value, and once its name or mode where it has one. *)
Integral == {"u8", "u16", "u32", "u64"}
Scalar   == Integral \cup {"i64", "string", "uuid"}
Scalars(type) == {f \in DOMAIN type : type[f] \in Scalar}

Suits(l, type) ==
    /\ l.field \in DOMAIN type
    /\ CASE l.how \in {"llu", "llx"} -> type[l.field] \in Integral
         [] l.how \in {"u", "x"}     -> type[l.field] \in {"u8", "u16", "u32"}
         [] l.how = "signed"         -> type[l.field] = "i64"
         [] l.how = "s"              -> type[l.field] = "string"
         [] l.how = "uuid"           -> type[l.field] = "uuid"
         [] l.how = "name"           -> type[l.field] \in Integral /\ l.field \in DOMAIN Named
         [] l.how = "x2apic"         -> type[l.field] \in Integral /\ l.field = "flags"
         [] OTHER                    -> FALSE

Kind(l) == IF l.how \in {"name", "x2apic"} THEN l.how ELSE "value"
Key(l)  == <<l.field, Kind(l)>>
Keys(type) ==
    {<<f, "value">> : f \in Scalars(type)}
    \cup {<<f, "name">> : f \in {g \in Scalars(type) : type[g] \in Integral \cup {"i64"} /\ g \in DOMAIN Named}}
    \cup {<<f, "x2apic">> : f \in {g \in Scalars(type) : type[g] \in Integral \cup {"i64"} /\ g = "flags"}}

Keyed(own, K, type) ==
    /\ IsSeq(own) /\ {Key(own[n]) : n \in DOMAIN own} = K
    /\ \A n, m \in DOMAIN own : Key(own[n]) = Key(own[m]) => n = m
    /\ \A n \in DOMAIN own : Suits(own[n], type)

(* What the line of a key says. *)
Told(key, type, v) ==
    CASE key[2] = "name"   -> type_name(key[1], v[key[1]])
      [] key[2] = "x2apic" -> Word(IF v[key[1]] % 2 = 1 THEN "yes" ELSE "no")
      [] OTHER -> CASE type[key[1]] \in Integral \cup {"i64"} -> <<"number", v[key[1]]>>
                    [] type[key[1]] = "string" ->
                           IF v[key[1]] = Null THEN Word("null") ELSE <<"string", v[key[1]]>>
                    [] OTHER -> <<"uuid", Uuid(v[key[1]])>>

LEMMA FieldIs ==
    ASSUME NEW path, NEW s, NEW v, v # Null, Sound(<<path, s, v>>), NEW f \in DOMAIN Layout[s]
    PROVE  LET t == Layout[s][f] IN
           /\ t = "u8" => v[f] \in 0 .. Values(8) - 1
           /\ t = "u16" => v[f] \in 0 .. Values(16) - 1
           /\ t = "u32" => v[f] \in 0 .. Values(32) - 1
           /\ t = "u64" => v[f] \in 0 .. Values(64) - 1
           /\ t = "i64" => v[f] \in -(Values(64) \div 2) .. Values(64) \div 2 - 1
           /\ t = "uuid" => v[f] \in [a : 0 .. Values(32) - 1, b : 0 .. Values(16) - 1,
                                      c : 0 .. Values(16) - 1, d : [1 .. 8 -> 0 .. Values(8) - 1]]
           /\ t \in Integral => v[f] \in Nat
<1> DEFINE t == Layout[s][f]
<1>1. Fits(t, f, v)
  BY DEF Sound
<1> HIDE DEF t
<1>2. t \in DOMAIN Bits => v[f] \in 0 .. Values(Bits[t]) - 1
  BY <1>1 DEF Fits
<1>3. t = "i64" => v[f] \in -(Values(64) \div 2) .. Values(64) \div 2 - 1
  BY <1>1 DEF Fits
<1>4. t = "uuid" => v[f] \in [a : 0 .. Values(32) - 1, b : 0 .. Values(16) - 1,
                              c : 0 .. Values(16) - 1, d : [1 .. 8 -> 0 .. Values(8) - 1]]
  BY <1>1 DEF Fits
<1>5. /\ t = "u8" => v[f] \in 0 .. Values(8) - 1
      /\ t = "u16" => v[f] \in 0 .. Values(16) - 1
      /\ t = "u32" => v[f] \in 0 .. Values(32) - 1
      /\ t = "u64" => v[f] \in 0 .. Values(64) - 1
  BY <1>2, BitsTable
<1>6. t \in Integral => v[f] \in Nat
  <2>1. \A n : v[f] \in 0 .. n => v[f] \in Nat
    OBVIOUS
  <2> QED BY <1>5, <2>1 DEF Integral
<1> QED BY <1>3, <1>4, <1>5, <1>6 DEF t

(* A line that suits its field is read as what it is to tell. *)
LEMMA LineTells ==
    ASSUME NEW path, NEW s, NEW v, v # Null, Sound(<<path, s, v>>), NEW l, Suits(l, Layout[s])
    PROVE  Read(PrintLine(l, v)) = Told(Key(l), Layout[s], v)
<1> DEFINE f == l.field
           t == Layout[s][f]
           x == v[f]
           told == Told(Key(l), Layout[s], v)
<1>1. f \in DOMAIN Layout[s]
  BY DEF Suits
<1>2. /\ t = "u8" => x \in 0 .. Values(8) - 1
      /\ t = "u16" => x \in 0 .. Values(16) - 1
      /\ t = "u32" => x \in 0 .. Values(32) - 1
      /\ t = "i64" => x \in -(Values(64) \div 2) .. Values(64) \div 2 - 1
      /\ t = "uuid" => x \in [a : 0 .. Values(32) - 1, b : 0 .. Values(16) - 1,
                              c : 0 .. Values(16) - 1, d : [1 .. 8 -> 0 .. Values(8) - 1]]
      /\ t \in Integral => x \in Nat
  BY <1>1, FieldIs
<1>3. /\ Values(8) \in Nat /\ Values(16) \in Nat /\ Values(32) \in Nat
      /\ Values(8) <= Values(32) /\ Values(16) <= Values(32)
  BY ValuesGrow
<1>4. Key(l)[1] = f /\ Key(l)[2] = Kind(l)
  BY DEF Key
<1> HIDE DEF x
<1>5. CASE l.how \in {"llu", "llx"}
  <2>1. t \in Integral /\ x \in Nat
    BY <1>2, <1>5 DEF Suits
  <2>2. told = <<"number", x>>
    <3>1. Key(l)[2] = "value" /\ t \in Integral \cup {"i64"}
      BY <1>4, <1>5, <2>1 DEF Kind
    <3> QED BY <1>4, <3>1 DEF Told, Integral, x
  <2>3. PrintLine(l, v) \in {Number(FALSE, 10, print_uint(x, 10)), Number(FALSE, 16, print_uint(x, 16))}
    BY <1>5 DEF PrintLine, kvprintf, x
  <2>4. Read(PrintLine(l, v)) = <<"number", x>>
    <3>1. 10 \in Nat \ {0, 1} /\ 16 \in Nat \ {0, 1}
      OBVIOUS
    <3>2. Read(Number(FALSE, 10, print_uint(x, 10))) = <<"number", x>>
      BY <2>1, <3>1, ReadNumber
    <3>3. Read(Number(FALSE, 16, print_uint(x, 16))) = <<"number", x>>
      BY <2>1, <3>1, ReadNumber
    <3> QED BY <2>3, <3>2, <3>3
  <2> QED BY <2>2, <2>4
<1>6. CASE l.how \in {"u", "x"}
  <2>1. t \in {"u8", "u16", "u32"}
    BY <1>6 DEF Suits
  <2>2. x \in Nat /\ x < Values(32)
    BY <1>2, <1>3, <2>1
  <2>3. x % Values(32) = x
    BY <1>3, <2>2
  <2>4. told = <<"number", x>>
    BY <1>4, <1>6, <2>1 DEF Told, Kind, x, Integral
  <2>5. PrintLine(l, v) \in {Number(FALSE, 10, print_uint(x, 10)), Number(FALSE, 16, print_uint(x, 16))}
    BY <1>6, <2>3 DEF PrintLine, kvprintf, x
  <2>6. Read(PrintLine(l, v)) = <<"number", x>>
    <3>1. 10 \in Nat \ {0, 1} /\ 16 \in Nat \ {0, 1}
      OBVIOUS
    <3>2. Read(Number(FALSE, 10, print_uint(x, 10))) = <<"number", x>>
      BY <2>2, <3>1, ReadNumber
    <3>3. Read(Number(FALSE, 16, print_uint(x, 16))) = <<"number", x>>
      BY <2>2, <3>1, ReadNumber
    <3> QED BY <2>5, <3>2, <3>3
  <2> QED BY <2>4, <2>6
<1>7. CASE l.how = "signed"
  <2>1. t = "i64"
    BY <1>7 DEF Suits
  <2>2. told = <<"number", x>>
    BY <1>4, <1>7, <2>1 DEF Told, Kind, x
  <2>3. PrintLine(l, v) = print_signed(x)
    BY <1>7 DEF PrintLine, x
  <2>4. Read(print_signed(x)) = <<"number", x>>
    BY <1>2, <2>1, ReadSigned
  <2> QED BY <2>2, <2>3, <2>4
<1>8. CASE l.how = "uuid"
  <2>1. t = "uuid"
    BY <1>8 DEF Suits
  <2>2. told = <<"uuid", Uuid(x)>>
    BY <1>4, <1>8, <2>1 DEF Told, Kind, x, Integral
  <2>3. PrintLine(l, v) = print_uuid(x)
    BY <1>8 DEF PrintLine, x
  <2>4. Read(print_uuid(x)) = <<"uuid", Uuid(x)>>
    BY <1>2, <2>1, ReadUuid
  <2> QED BY <2>2, <2>3, <2>4
<1>9. CASE l.how = "s"
  <2>1. t = "string"
    BY <1>9 DEF Suits
  <2>2. told = IF x = Null THEN Word("null") ELSE <<"string", x>>
    BY <1>4, <1>9, <2>1 DEF Told, Kind, x, Integral
  <2>3. PrintLine(l, v) = IF x = Null THEN Word("null") ELSE <<"string", x>>
    BY <1>9 DEF PrintLine, kvprintf, x
  <2>4. Read(told) = told
    <3>1. told[1] \in {"null", "string"}
      BY <2>2 DEF Word
    <3> HIDE DEF told
    <3> QED BY <3>1 DEF Read
  <2> QED BY <2>2, <2>3, <2>4
<1>10. CASE l.how = "name"
  <2>1. told = type_name(f, x)
    BY <1>4, <1>10 DEF Told, Kind, x
  <2>2. PrintLine(l, v) = type_name(f, x)
    BY <1>10 DEF PrintLine, x
  <2>3. Read(told) = told
    <3>1. told[1] = "name"
      BY <2>1 DEF type_name
    <3> HIDE DEF told
    <3> QED BY <3>1 DEF Read
  <2> QED BY <2>1, <2>2, <2>3
<1>11. CASE l.how = "x2apic"
  <2>1. told = Word(IF x % 2 = 1 THEN "yes" ELSE "no")
    BY <1>4, <1>11 DEF Told, Kind, x
  <2>2. PrintLine(l, v) = Word(IF x % 2 = 1 THEN "yes" ELSE "no")
    BY <1>11 DEF PrintLine, x
  <2>3. Read(told) = told
    <3>1. told[1] \in {"yes", "no"}
      BY <2>1 DEF Word
    <3> HIDE DEF told
    <3> QED BY <3>1 DEF Read
  <2> QED BY <2>1, <2>2, <2>3
<1>12. l.how \in {"llu", "llx", "u", "x", "signed", "s", "uuid", "name", "x2apic"}
  BY DEF Suits
<1> QED BY <1>5, <1>6, <1>7, <1>8, <1>9, <1>10, <1>11, <1>12

-----------------------------------------------------------------------------
(* What the scalar fields of a structure have to tell. *)
OwnFacts(path, type, v) ==
    UNION {{<<Append(path, Single(f)), t>> : t \in FieldFacts(type[f], f, v)} : f \in Scalars(type)}

LEMMA ScalarFacts ==
    ASSUME NEW type, NEW v, NEW f \in Scalars(type)
    PROVE  \A t : t \in FieldFacts(type[f], f, v) <=> \E k \in Keys(type) : k[1] = f /\ t = Told(k, type, v)
<1> DEFINE a == <<f, "value">>
           b == <<f, "name">>
           c == <<f, "x2apic">>
           named == type[f] \in Integral \cup {"i64"} /\ f \in DOMAIN Named
           flags == type[f] \in Integral \cup {"i64"} /\ f = "flags"
<1>1. \A k : (k \in Keys(type) /\ k[1] = f) <=> (k = a \/ (k = b /\ named) \/ (k = c /\ flags))
  BY DEF Keys
<1>2. DOMAIN Bits = Integral
  BY BitsTable DEF Integral
<1>3. Told(b, type, v) = type_name(f, v[f])
  BY DEF Told
<1>4. Told(c, type, v) = Word(IF v[f] % 2 = 1 THEN "yes" ELSE "no")
  BY DEF Told
<1> HIDE DEF b, c
<1>5. CASE type[f] \in Integral \cup {"i64"}
  <2>1. Told(a, type, v) = <<"number", v[f]>>
    BY <1>5 DEF Told, Integral
  <2>3. type[f] \in DOMAIN Bits \cup {"i64"}
    BY <1>2, <1>5
  <2> DEFINE x == v[f]
  <2>2. \A t : t \in FieldFacts(type[f], f, v) <=>
            \/ t = <<"number", x>> \/ (f \in DOMAIN Named /\ t = type_name(f, x))
            \/ (f = "flags" /\ t = Word(IF x % 2 = 1 THEN "yes" ELSE "no"))
    <3> DEFINE w == Word(IF x % 2 = 1 THEN "yes" ELSE "no")
    <3>1. FieldFacts(type[f], f, v) =
            {<<"number", x>>} \cup (IF f \in DOMAIN Named THEN {type_name(f, x)} ELSE {})
            \cup (IF f = "flags" THEN {w} ELSE {})
      BY <2>3, BitsTable DEF FieldFacts
    <3> HIDE DEF w
    <3>2. QED BY <3>1 DEF w
  <2> HIDE DEF a
  <2> QED BY <1>1, <1>3, <1>4, <1>5, <2>1, <2>2
<1>6. CASE type[f] = "string"
  <2>0. "string" \notin Integral \cup {"i64"}
    BY DEF Integral
  <2>1. Told(a, type, v) = IF v[f] = Null THEN Word("null") ELSE <<"string", v[f]>>
    BY <1>6, <2>0 DEF Told
  <2>2. FieldFacts(type[f], f, v) = {IF v[f] = Null THEN Word("null") ELSE <<"string", v[f]>>}
    BY <1>2, <1>6, <2>0 DEF FieldFacts
  <2> HIDE DEF a
  <2> QED BY <1>1, <1>6, <2>0, <2>1, <2>2
<1>7. CASE type[f] = "uuid"
  <2>0. "uuid" \notin Integral \cup {"i64"}
    BY DEF Integral
  <2>1. Told(a, type, v) = <<"uuid", Uuid(v[f])>>
    BY <1>7, <2>0 DEF Told
  <2>2. FieldFacts(type[f], f, v) = {<<"uuid", Uuid(v[f])>>}
    BY <1>2, <1>7, <2>0 DEF FieldFacts
  <2> HIDE DEF a
  <2> QED BY <1>1, <1>7, <2>0, <2>1, <2>2
<1> QED BY <1>5, <1>6, <1>7 DEF Scalars, Scalar

(* The facts of one field differ. *)
LEMMA ToldApart ==
    ASSUME NEW type, NEW v, NEW k \in Keys(type), NEW j \in Keys(type), k[1] = j[1],
           Told(k, type, v) = Told(j, type, v)
    PROVE  k = j
<1>1. /\ k = <<k[1], k[2]>> /\ j = <<j[1], j[2]>>
      /\ k[2] \in {"value", "name", "x2apic"} /\ j[2] \in {"value", "name", "x2apic"}
      /\ k[1] \in Scalars(type)
  BY DEF Keys
<1>2. ASSUME NEW key, key[2] = "name" PROVE Told(key, type, v)[1] = "name"
  BY <1>2 DEF Told, type_name
<1>3. ASSUME NEW key, key[2] = "x2apic" PROVE Told(key, type, v)[1] \in {"yes", "no"}
  <2>1. Told(key, type, v) = Word(IF v[key[1]] % 2 = 1 THEN "yes" ELSE "no")
    BY <1>3 DEF Told
  <2>2. \A w : Word(w)[1] = w
    BY DEF Word
  <2> QED BY <2>1, <2>2
<1>4. ASSUME NEW key, key[2] = "value" PROVE Told(key, type, v)[1] \in {"number", "null", "string", "uuid"}
  <2> DEFINE x == v[key[1]]
             t == type[key[1]]
  <2>1. CASE t \in Integral \cup {"i64"}
    <3>1. Told(key, type, v) = <<"number", x>>
      BY <1>4, <2>1 DEF Told, Integral
    <3> QED BY <3>1
  <2>2. CASE t = "string"
    <3>1. t \notin Integral \cup {"i64"}
      BY <2>2 DEF Integral
    <3>2. Told(key, type, v) = IF x = Null THEN Word("null") ELSE <<"string", x>>
      BY <1>4, <2>2, <3>1 DEF Told
    <3>3. Word("null")[1] = "null" /\ <<"string", x>>[1] = "string"
      BY DEF Word
    <3> QED BY <3>2, <3>3
  <2>3. CASE t \notin Integral \cup {"i64", "string"}
    <3>1. Told(key, type, v) = <<"uuid", Uuid(x)>>
      BY <1>4, <2>3 DEF Told
    <3> QED BY <3>1
  <2> QED BY <2>1, <2>2, <2>3
<1>5. k[2] = j[2]
  BY <1>1, <1>2, <1>3, <1>4
<1> QED BY <1>1, <1>5

LEMMA OwnSays ==
    ASSUME NEW path, IsSeq(path), NEW s, NEW v, v # Null, Sound(<<path, s, v>>),
           NEW own, Keyed(own, Keys(Layout[s]), Layout[s])
    PROVE  Says(Own(path, own, v), OwnFacts(path, Layout[s], v))
<1> DEFINE type == Layout[s]
           u == Own(path, own, v)
           N == Len(own)
<1>1. N \in Nat /\ DOMAIN own = 1 .. N
  BY SeqDomain DEF Keyed
<1>2. DOMAIN u = 1 .. N
  BY <1>1 DEF Own
<1>3. ASSUME NEW n \in 1 .. N
      PROVE  /\ Said(u[n]) = <<Append(path, Single(Key(own[n])[1])), Told(Key(own[n]), type, v)>>
             /\ Key(own[n]) \in Keys(type)
  <2>1. u[n] = [path |-> Append(path, Single(own[n].field)), text |-> PrintLine(own[n], v)]
    BY <1>1 DEF Own
  <2>2. u[n].path = Append(path, Single(own[n].field)) /\ u[n].text = PrintLine(own[n], v)
    BY <2>1
  <2>3. Suits(own[n], Layout[s]) /\ Key(own[n]) \in Keys(type)
    BY <1>1 DEF Keyed
  <2>4. Read(PrintLine(own[n], v)) = Told(Key(own[n]), type, v)
    BY <2>3, LineTells
  <2>5. Key(own[n])[1] = own[n].field
    BY DEF Key
  <2> HIDE DEF u
  <2> QED BY <2>2, <2>3, <2>4, <2>5 DEF Said
<1>4. IsSeq(u)
  <2> DEFINE A == {u[n] : n \in 1 .. N}
  <2>1. u \in [1 .. N -> A]
    BY <1>1 DEF Own
  <2> HIDE DEF A, u
  <2>2. u \in Seq(A)
    BY <1>1, <2>1, FunctionSeq
  <2> QED BY <2>2, SomeSeq
<1> HIDE DEF u, N, type
<1>5. \A f, g : Append(path, Single(f)) = Append(path, Single(g)) => f = g
  <2>1. \A x : Append(path, x)[Len(path) + 1] = x
    BY Lasts
  <2>2. \A f, g : Single(f) = Single(g) => f = g
    BY DEF Single
  <2> QED BY <2>1, <2>2
<1>6. {Said(u[n]) : n \in DOMAIN u} = OwnFacts(path, type, v)
  <2>1. ASSUME NEW n \in 1 .. N PROVE Said(u[n]) \in OwnFacts(path, type, v)
    <3> DEFINE k == Key(own[n])
    <3>1. k[1] \in Scalars(type)
      BY <1>3 DEF Keys
    <3>2. Told(k, type, v) \in FieldFacts(type[k[1]], k[1], v)
      BY <1>3, <3>1, ScalarFacts
    <3> QED BY <1>3, <3>1, <3>2 DEF OwnFacts
  <2>2. ASSUME NEW x \in OwnFacts(path, type, v) PROVE \E n \in 1 .. N : x = Said(u[n])
    <3>1. PICK f \in Scalars(type) : x \in {<<Append(path, Single(f)), t>> : t \in FieldFacts(type[f], f, v)}
      BY DEF OwnFacts
    <3>4. PICK t \in FieldFacts(type[f], f, v) : x = <<Append(path, Single(f)), t>>
      BY <3>1
    <3>2. PICK k \in Keys(type) : k[1] = f /\ t = Told(k, type, v)
      <4>1. \A y : y \in FieldFacts(type[f], f, v) <=> \E k \in Keys(type) : k[1] = f /\ y = Told(k, type, v)
        BY ScalarFacts
      <4> QED BY <3>4, <4>1
    <3>3. PICK n \in 1 .. N : Key(own[n]) = k
      BY <1>1 DEF Keyed, type
    <3> QED BY <1>3, <3>4, <3>2, <3>3
  <2> QED BY <1>2, <2>1, <2>2
<1>7. ASSUME NEW n \in 1 .. N, NEW m \in 1 .. N, Said(u[n]) = Said(u[m]) PROVE n = m
  <2>1. /\ Append(path, Single(Key(own[n])[1])) = Append(path, Single(Key(own[m])[1]))
        /\ Told(Key(own[n]), type, v) = Told(Key(own[m]), type, v)
    BY <1>3, <1>7
  <2>2. Key(own[n])[1] = Key(own[m])[1]
    BY <1>5, <2>1
  <2>3. Key(own[n]) = Key(own[m])
    BY <1>3, <2>1, <2>2, ToldApart
  <2> QED BY <1>1, <2>3 DEF Keyed
<1> QED BY <1>2, <1>4, <1>6, <1>7 DEF Says, u, type

-----------------------------------------------------------------------------
(* A nest that fits a structure: it follows the one field that points to others,
   by the count the protocol names. *)
Others(type) == DOMAIN type \ Scalars(type)
NestFits(l, type) ==
    \/ l.how = "none" /\ Others(type) = {}
    \/ l.how = "pointed" /\ Others(type) = {l.field} /\ type[l.field] = "file"
    \/ /\ l.how = "each" /\ Others(type) = {l.field} /\ type[l.field] \in DOMAIN Element
       /\ CountOf[l.field] \in DOMAIN type /\ type[CountOf[l.field]] \in Integral
Pointee(l, type) == IF l.how = "pointed" THEN "file" ELSE Element[type[l.field]]

(* The facts of a field that points to others. *)
PointerFacts(path, type, v) ==
    UNION {{<<Append(path, Single(f)), t>> : t \in FieldFacts(type[f], f, v)} : f \in Others(type)}

LEMMA FactsSplit ==
    ASSUME NEW path, NEW s, NEW v, v # Null
    PROVE  Facts(<<path, s, v>>) = OwnFacts(path, Layout[s], v) \cup PointerFacts(path, Layout[s], v)
<1> DEFINE type == Layout[s]
           P(f) == {<<Append(path, Single(f)), t>> : t \in FieldFacts(type[f], f, v)}
<1>1. Facts(<<path, s, v>>) = UNION {P(f) : f \in DOMAIN type}
  BY DEF Facts
<1>2. DOMAIN type = Scalars(type) \cup Others(type)
  BY DEF Others, Scalars
<1>3. OwnFacts(path, type, v) = UNION {P(f) : f \in Scalars(type)}
  BY DEF OwnFacts
<1>4. PointerFacts(path, type, v) = UNION {P(f) : f \in Others(type)}
  BY DEF PointerFacts
<1> HIDE DEF P, type
<1> QED BY <1>1, <1>2, <1>3, <1>4 DEF type

Leads(path, l, type, v, Q) ==
    \A q : q \in Q <=>
            \E n \in DOMAIN Steps(l, v) : q = <<Append(path, Steps(l, v)[n]), Pointee(l, type), Item(l, v, n)>>

(* The steps of a nest: N different ones, none of a field that has a line of its
   own; with what is there they are the places the structure points to. *)
LEMMA StepsLead ==
    ASSUME NEW path, NEW s, NEW v, v # Null, Sound(<<path, s, v>>), NEW l, NestFits(l, Layout[s])
    PROVE  LET steps == Steps(l, v) IN
           /\ \E N \in Nat : DOMAIN steps = 1 .. N
           /\ \A n, m \in DOMAIN steps : steps[n] = steps[m] => n = m
           /\ \A n \in DOMAIN steps : \A f \in Scalars(Layout[s]) : steps[n] # Single(f)
           /\ l.how = "each" => \A n \in DOMAIN steps : \A f : steps[n] # Single(f)
           /\ Leads(path, l, Layout[s], v, Pointees(<<path, s, v>>))
<1> DEFINE type == Layout[s]
           steps == Steps(l, v)
           Q == Pointees(<<path, s, v>>)
           A == {g \in DOMAIN type : type[g] = "file"}
           B == {g \in DOMAIN type : type[g] \in DOMAIN Element}
           Put(f, j) == <<Append(path, <<f, j>>), Element[type[f]], IF v[f] = Null THEN Null ELSE v[f][j]>>
<1>1. Q = {<<Append(path, Single(f)), "file", v[f]>> : f \in A}
          \cup UNION {{Put(f, j) : j \in 1 .. v[CountOf[f]]} : f \in B}
  BY DEF Pointees
<1> HIDE DEF Put
<1>2. "file" \notin DOMAIN Element /\ "file" \notin Scalar /\ DOMAIN Element \cap Scalar = {}
  BY ElementTable DEF Scalar, Integral
<1>3. CASE l.how = "none"
  <2>1. steps = <<>> /\ DOMAIN steps = 1 .. 0
    BY <1>3 DEF Steps
  <2>2. A = {} /\ B = {}
    BY <1>2, <1>3 DEF NestFits, Others, Scalars
  <2>3. Q = {}
    BY <1>1, <2>2
  <2>4. DOMAIN steps = {} /\ 0 \in Nat
    BY <2>1
  <2> HIDE DEF steps, Q
  <2>5. \A q : q \in Q <=> \E n \in DOMAIN steps : q = <<Append(path, steps[n]), Pointee(l, type), Item(l, v, n)>>
    BY <2>3, <2>4
  <2> QED BY <1>3, <2>1, <2>4, <2>5 DEF steps, Q, Leads
<1>4. CASE l.how = "pointed"
  <2> DEFINE f == l.field
  <2>1. steps = <<Single(f)>> /\ DOMAIN steps = 1 .. 1 /\ steps[1] = Single(f)
    BY <1>4 DEF Steps
  <2>2. A = {f} /\ B = {} /\ f \notin Scalars(type)
    BY <1>2, <1>4 DEF NestFits, Others, Scalars
  <2>3. Q = {<<Append(path, Single(f)), "file", v[f]>>}
    BY <1>1, <2>2
  <2>4. DOMAIN steps = {1} /\ 1 \in Nat
    BY <2>1
  <2>5. Pointee(l, type) = "file" /\ \A n : Item(l, v, n) = v[f]
    BY <1>4 DEF Pointee, Item
  <2> HIDE DEF steps, Q, type, f
  <2>6. \A q : q \in Q <=> \E n \in DOMAIN steps : q = <<Append(path, steps[n]), Pointee(l, type), Item(l, v, n)>>
    BY <2>1, <2>3, <2>4, <2>5
  <2>7. \A g \in Scalars(type) : Single(f) # Single(g)
    BY <2>2 DEF Single
  <2> QED BY <1>4, <2>1, <2>4, <2>6, <2>7 DEF steps, Q, type, Leads
<1>5. CASE l.how = "each"
  <2> DEFINE f == l.field
             c == v[CountOf[f]]
  <2>1. steps = [j \in 1 .. c |-> <<f, j>>]
    BY <1>5 DEF Steps
  <2>2. A = {} /\ B = {f} /\ f \notin Scalars(type)
    BY <1>2, <1>5 DEF NestFits, Others, Scalars
  <2>3. c \in Nat
    <3>1. CountOf[f] \in DOMAIN Layout[s] /\ Layout[s][CountOf[f]] \in Integral
      BY <1>5 DEF NestFits
    <3> QED BY <3>1, FieldIs
  <2>4. Q = {Put(f, j) : j \in 1 .. c}
    BY <1>1, <2>2
  <2>5. Pointee(l, type) = Element[type[f]] /\ \A n : Item(l, v, n) = IF v[f] = Null THEN Null ELSE v[f][n]
    BY <1>5 DEF Pointee, Item
  <2>6. DOMAIN steps = 1 .. c /\ \A n \in 1 .. c : steps[n] = <<f, n>>
    BY <2>1
  <2> HIDE DEF steps, Q, type, f, c
  <2>7. \A q : q \in Q <=> \E n \in DOMAIN steps : q = <<Append(path, steps[n]), Pointee(l, type), Item(l, v, n)>>
    <3>1. \A n \in 1 .. c : Put(f, n) = <<Append(path, steps[n]), Pointee(l, type), Item(l, v, n)>>
      BY <2>5, <2>6 DEF Put
    <3> QED BY <2>4, <2>6, <3>1
  <2>8. \A n \in DOMAIN steps : \A g : steps[n] # Single(g)
    <3>1. \A n \in 1 .. c : n # -1
      BY <2>3
    <3> QED BY <2>6, <3>1 DEF Single
  <2>9. \A n, m \in DOMAIN steps : steps[n] = steps[m] => n = m
    BY <2>6
  <2>10. \E N \in Nat : DOMAIN steps = 1 .. N
    BY <2>3, <2>6
  <2> QED BY <2>7, <2>8, <2>9, <2>10 DEF steps, Q, type, Leads
<1> QED BY <1>3, <1>4, <1>5 DEF NestFits

(* What is said of an array that is missing. *)
LEMMA MissingSays ==
    ASSUME NEW path, NEW s, NEW v, NEW l, NestFits(l, Layout[s])
    PROVE  Says(Missing(path, l, v), PointerFacts(path, Layout[s], v))
<1> DEFINE type == Layout[s]
           f == l.field
<1>1. CASE l.how = "none"
  <2>1. Missing(path, l, v) = <<>>
    BY <1>1 DEF Missing
  <2>2. PointerFacts(path, type, v) = {}
    BY <1>1 DEF PointerFacts, NestFits
  <2> QED BY <2>1, <2>2, SaysNothing
<1>2. CASE l.how = "pointed"
  <2>1. Missing(path, l, v) = <<>>
    BY <1>2 DEF Missing
  <2>2. FieldFacts(type[f], f, v) = {} /\ Others(type) = {f}
    <3>1. type[f] = "file" /\ Others(type) = {f}
      BY <1>2 DEF NestFits
    <3>2. "file" \notin DOMAIN Bits \cup {"i64"}
      BY BitsTable
    <3> QED BY <3>1, <3>2 DEF FieldFacts
  <2>3. PointerFacts(path, type, v) = {}
    BY <2>2 DEF PointerFacts
  <2> QED BY <2>1, <2>3, SaysNothing
<1>3. CASE l.how = "each"
  <2> DEFINE gone == v[f] = Null /\ v[CountOf[f]] > 0
             fact == <<Append(path, Single(f)), Word("null")>>
  <2>1. FieldFacts(type[f], f, v) = (IF gone THEN {Word("null")} ELSE {}) /\ Others(type) = {f}
    <3>1. type[f] \in DOMAIN Element /\ Others(type) = {f}
      BY <1>3 DEF NestFits
    <3>2. type[f] \notin DOMAIN Bits \cup {"i64", "string", "uuid", "file"}
      BY <3>1, BitsTable, ElementTable
    <3> QED BY <3>1, <3>2 DEF FieldFacts
  <2> HIDE DEF type, f
  <2>2. PointerFacts(path, type, v) = IF gone THEN {fact} ELSE {}
    BY <2>1 DEF PointerFacts
  <2>3. Missing(path, l, v) = IF gone THEN At(path, Single(f), Word("null")) ELSE <<>>
    BY <1>3 DEF Missing, f
  <2>4. CASE gone
    <3> DEFINE line == [path |-> Append(path, Single(f)), text |-> Word("null")]
    <3>1. Missing(path, l, v) = <<line>>
      BY <2>3, <2>4 DEF At
    <3>2. Said(line) = fact
      <4>1. Word("null")[1] = "null"
        BY DEF Word
      <4>2. Read(Word("null")) = Word("null")
        BY <4>1 DEF Read
      <4> QED BY <4>2 DEF Said
    <3> HIDE DEF line
    <3>3. Says(<<line>>, {Said(line)})
      BY SaysOne
    <3> QED BY <2>2, <2>4, <3>1, <3>2, <3>3 DEF type
  <2>5. CASE ~gone
    BY <2>2, <2>3, <2>5, SaysNothing DEF type
  <2> QED BY <2>4, <2>5
<1> QED BY <1>1, <1>2, <1>3 DEF NestFits

-----------------------------------------------------------------------------
(* Facts about what lies at a path or beyond it. *)
Under(path, F) == \A x \in F : \A j \in 1 .. Len(path) : x[1][j] = path[j]

LEMMA UnderLess ==
    ASSUME NEW path, IsSeq(path), NEW step, NEW F, Under(Append(path, step), F)
    PROVE  Under(path, F) /\ \A x \in F : x[1][Len(path) + 1] = step
<1> DEFINE q == Append(path, step)
           n == Len(path)
<1>1. n \in Nat /\ Len(q) = n + 1 /\ \A j \in 1 .. n : q[j] = path[j]
  BY Lasts
<1>2. q[n + 1] = step
  BY Lasts
<1> HIDE DEF q
<1>3. \A x \in F : \A j \in 1 .. n + 1 : x[1][j] = q[j]
  BY <1>1 DEF Under, q
<1>4. n + 1 \in 1 .. n + 1 /\ \A j \in 1 .. n : j \in 1 .. n + 1
  BY <1>1
<1> HIDE DEF n
<1>5. \A x \in F : \A j \in 1 .. n : x[1][j] = path[j]
  BY <1>1, <1>3, <1>4
<1>6. \A x \in F : x[1][n + 1] = step
  BY <1>2, <1>3, <1>4
<1> QED BY <1>5, <1>6 DEF Under, n

LEMMA FactsUnder ==
    ASSUME NEW path, IsSeq(path), NEW s, NEW v
    PROVE  Under(path, Facts(<<path, s, v>>))
<1>1. ASSUME NEW x \in Facts(<<path, s, v>>), NEW j \in 1 .. Len(path) PROVE x[1][j] = path[j]
  <2>1. CASE v = Null
    BY <2>1 DEF Facts
  <2>2. CASE v # Null
    <3>1. PICK f \in DOMAIN Layout[s] : x \in {<<Append(path, Single(f)), t>> : t \in FieldFacts(Layout[s][f], f, v)}
      BY <2>2 DEF Facts
    <3>2. x[1] = Append(path, Single(f))
      BY <3>1
    <3> QED BY <3>2, Lasts
  <2> QED BY <2>1, <2>2
<1> QED BY <1>1 DEF Under

-----------------------------------------------------------------------------
(* The facts of a place and of those it points to, and one pointer further. *)
Near(place) == UNION {Facts(p) : p \in {place} \cup Further({place})}
Far(place)  == UNION {Facts(p) : p \in {place} \cup Further({place}) \cup Further(Further({place}))}

(* A pointer to nothing is all there is to say. *)
LEMMA Nulls ==
    ASSUME NEW path, NEW s
    PROVE  /\ Near(<<path, s, Null>>) = {<<path, Word("null")>>}
           /\ Far(<<path, s, Null>>) = {<<path, Word("null")>>}
<1> DEFINE place == <<path, s, Null>>
<1>1. Further({place}) = {} /\ Further({}) = {}
  BY DEF Further
<1>2. Facts(place) = {<<path, Word("null")>>}
  BY DEF Facts
<1> HIDE DEF place
<1> QED BY <1>1, <1>2 DEF Near, Far, place

(* What is reached is reached by way of a pointee. *)
LEMMA Reach ==
    ASSUME NEW path, NEW s, NEW v, v # Null
    PROVE  LET place == <<path, s, v>> IN
           /\ Near(place) = Facts(place) \cup UNION {Facts(q) : q \in Pointees(place)}
           /\ Far(place) = Facts(place) \cup UNION {Near(q) : q \in Pointees(place)}
<1> DEFINE place == <<path, s, v>>
           P == Pointees(place)
<1>1. Further({place}) = P
  <2>1. place[3] # Null
    OBVIOUS
  <2> HIDE DEF place
  <2> QED BY <2>1 DEF Further
<1>2. ASSUME NEW q \in P PROVE Further({q}) = IF q[3] = Null THEN {} ELSE Pointees(q)
  BY DEF Further
<1>3. Further(P) = UNION {Further({q}) : q \in P}
  <2>1. Further(P) = UNION {Pointees(q) : q \in {p \in P : p[3] # Null}}
    BY DEF Further
  <2> HIDE DEF P
  <2> QED BY <1>2, <2>1
<1> HIDE DEF P, place
<1>4. Near(place) = Facts(place) \cup UNION {Facts(q) : q \in P}
  BY <1>1 DEF Near
<1>5. Far(place) = Facts(place) \cup (UNION {Facts(q) : q \in P}) \cup UNION {Facts(q) : q \in Further(P)}
  <2>1. Far(place) = UNION {Facts(p) : p \in {place} \cup P \cup Further(P)}
    BY <1>1 DEF Far
  <2> DEFINE A == UNION {Facts(p) : p \in {place} \cup P \cup Further(P)}
             B == UNION {Facts(q) : q \in P}
             C == UNION {Facts(q) : q \in Further(P)}
  <2>2. /\ \A x : x \in A <=> \E q \in {place} \cup P \cup Further(P) : x \in Facts(q)
        /\ \A x : x \in B <=> \E q \in P : x \in Facts(q)
        /\ \A x : x \in C <=> \E q \in Further(P) : x \in Facts(q)
    OBVIOUS
  <2> HIDE DEF A, B, C
  <2>3. A = Facts(place) \cup B \cup C
    BY <2>2
  <2> QED BY <2>1, <2>3 DEF A, B, C
<1>6. UNION {Near(q) : q \in P} = (UNION {Facts(q) : q \in P}) \cup UNION {Facts(q) : q \in Further(P)}
  <2> DEFINE A == UNION {Near(q) : q \in P}
             B == UNION {Facts(q) : q \in P}
             C == UNION {Facts(q) : q \in Further(P)}
  <2>1. \A q \in P : \A x : x \in Near(q) <=> (x \in Facts(q) \/ \E p \in Further({q}) : x \in Facts(p))
    BY DEF Near
  <2>2. \A p : p \in Further(P) <=> \E q \in P : p \in Further({q})
    BY <1>3
  <2>3. /\ \A x : x \in A <=> \E q \in P : x \in Near(q)
        /\ \A x : x \in B <=> \E q \in P : x \in Facts(q)
        /\ \A x : x \in C <=> \E q \in Further(P) : x \in Facts(q)
    OBVIOUS
  <2> HIDE DEF A, B, C
  <2>4. \A x : x \in A <=> (x \in B \/ x \in C)
    BY <2>1, <2>2, <2>3
  <2>5. A = B \cup C
    BY <2>4
  <2> QED BY <2>5 DEF A, B, C
<1>7. Far(place) = Facts(place) \cup UNION {Near(q) : q \in P}
  BY <1>5, <1>6
<1> QED BY <1>4, <1>7 DEF P, place

-----------------------------------------------------------------------------
(* The lines of a structure and those of what it points to, one block each. *)
LEMMA BlocksSay ==
    ASSUME NEW path, IsSeq(path), NEW s, NEW v, v # Null, Sound(<<path, s, v>>),
           NEW own, Keyed(own, Keys(Layout[s]), Layout[s]),
           NEW l, NestFits(l, Layout[s]),
           NEW ss, ss = [n \in DOMAIN Steps(l, v) |-> ss[n]], NEW G,
           \A n \in DOMAIN Steps(l, v) :
               Says(ss[n], G[n]) /\ Under(Append(path, Steps(l, v)[n]), G[n])
    PROVE  Says(Own(path, own, v) \o Missing(path, l, v) \o FlattenSeq(ss),
                Facts(<<path, s, v>>) \cup UNION {G[n] : n \in DOMAIN Steps(l, v)})
<1> DEFINE type == Layout[s]
           steps == Steps(l, v)
           K == Len(path) + 1
           U == UNION {G[n] : n \in DOMAIN steps}
           a == Own(path, own, v)
           b == Missing(path, l, v)
           c == FlattenSeq(ss)
           F == OwnFacts(path, type, v)
           M == PointerFacts(path, type, v)
<1>1. /\ \E N \in Nat : DOMAIN steps = 1 .. N
      /\ \A n, m \in DOMAIN steps : steps[n] = steps[m] => n = m
      /\ \A n \in DOMAIN steps : \A f \in Scalars(type) : steps[n] # Single(f)
      /\ l.how = "each" => \A n \in DOMAIN steps : \A f : steps[n] # Single(f)
  BY StepsLead
<1>2. PICK N \in Nat : DOMAIN steps = 1 .. N
  BY <1>1
<1>3. \A n \in 1 .. N : Says(ss[n], G[n]) /\ Under(Append(path, steps[n]), G[n])
  BY <1>2
<1>4. ss = [n \in 1 .. N |-> ss[n]]
  BY <1>2
<1>5. Says(a, F)
  BY OwnSays
<1>6. Says(b, M)
  BY MissingSays
<1>7. \A n \in 1 .. N : \A x \in G[n] : x[1][K] = steps[n]
  <2> SUFFICES ASSUME NEW n \in 1 .. N PROVE \A x \in G[n] : x[1][K] = steps[n]
    OBVIOUS
  <2>1. Under(Append(path, steps[n]), G[n])
    BY <1>3
  <2> HIDE DEF steps
  <2> QED BY <2>1, UnderLess
<1>8. \A f : Append(path, Single(f))[K] = Single(f)
  BY Lasts
<1>9. \A x \in F : \E f \in Scalars(type) : x[1][K] = Single(f)
  <2> SUFFICES ASSUME NEW x \in F PROVE \E f \in Scalars(type) : x[1][K] = Single(f)
    OBVIOUS
  <2>1. PICK f \in Scalars(type) : x \in {<<Append(path, Single(f)), t>> : t \in FieldFacts(type[f], f, v)}
    BY DEF OwnFacts
  <2>2. x[1] = Append(path, Single(f))
    BY <2>1
  <2> QED BY <1>8, <2>2
<1>10. \A x \in M : \E f \in Others(type) : x[1][K] = Single(f)
  <2> SUFFICES ASSUME NEW x \in M PROVE \E f \in Others(type) : x[1][K] = Single(f)
    OBVIOUS
  <2>1. PICK f \in Others(type) : x \in {<<Append(path, Single(f)), t>> : t \in FieldFacts(type[f], f, v)}
    BY DEF PointerFacts
  <2>2. x[1] = Append(path, Single(f))
    BY <2>1
  <2> QED BY <1>8, <2>2
<1>11. l.how = "each" \/ M = {}
  <2>1. l.how = "none" => M = {}
    BY DEF NestFits, PointerFacts
  <2>2. l.how = "pointed" => M = {}
    <3> SUFFICES ASSUME l.how = "pointed" PROVE M = {}
      OBVIOUS
    <3>1. Others(type) = {l.field} /\ type[l.field] = "file"
      BY DEF NestFits
    <3>2. "file" \notin DOMAIN Bits \cup {"i64"}
      BY BitsTable
    <3>3. FieldFacts(type[l.field], l.field, v) = {}
      BY <3>1, <3>2 DEF FieldFacts
    <3> QED BY <3>1, <3>3 DEF PointerFacts
  <2> QED BY <2>1, <2>2 DEF NestFits
<1> HIDE DEF type, steps, a, b, c, F, M, K
<1>12. Says(c, UNION {G[n] : n \in 1 .. N})
  <2>1. \A n, m \in 1 .. N : n # m => G[n] \cap G[m] = {}
    BY <1>1, <1>2, <1>7
  <2>2. \A n \in 1 .. N : Says(ss[n], G[n])
    BY <1>3
  <2> QED BY <1>4, <2>1, <2>2, SaysAll DEF c
<1>13. F \cap M = {}
  <2>1. \A f \in Scalars(type) : \A g \in Others(type) : Single(f) # Single(g)
    BY DEF Others, Single
  <2> QED BY <1>9, <1>10, <2>1
<1>14. (F \cup M) \cap U = {}
  <2> SUFFICES ASSUME NEW n \in 1 .. N, NEW x \in G[n] PROVE x \notin F /\ x \notin M
    BY <1>2
  <2>1. x[1][K] = steps[n] /\ n \in DOMAIN steps
    BY <1>2, <1>7
  <2>2. x \notin F
    BY <1>1, <1>9, <2>1
  <2>3. x \notin M
    BY <1>1, <1>10, <1>11, <2>1
  <2> QED BY <2>2, <2>3
<1>15. Says(a \o b, F \cup M)
  BY <1>5, <1>6, <1>13, SaysBoth
<1>16. Says(c, U)
  BY <1>2, <1>12
<1> HIDE DEF U
<1>17. Says((a \o b) \o c, (F \cup M) \cup U)
  BY <1>14, <1>15, <1>16, SaysBoth
<1>18. Facts(<<path, s, v>>) = F \cup M
  BY FactsSplit DEF F, M, type
<1> QED BY <1>17, <1>18 DEF a, b, c, U, steps

-----------------------------------------------------------------------------
(* Descriptions that fit a structure and all it leads to, by how far that is. *)
Level0(d, s) == Keyed(d.own, Keys(Layout[s]), Layout[s]) /\ Others(Layout[s]) = {}
Level1(d, s) ==
    /\ Keyed(d.own, Keys(Layout[s]), Layout[s]) /\ NestFits(d.nest, Layout[s])
    /\ d.nest.how # "none" => Level0(d.nest.of, Pointee(d.nest, Layout[s]))
Level2(d, s) ==
    /\ Keyed(d.own, Keys(Layout[s]), Layout[s]) /\ NestFits(d.nest, Layout[s])
    /\ d.nest.how # "none" => Level1(d.nest.of, Pointee(d.nest, Layout[s]))

LEMMA NullSays ==
    ASSUME NEW path, NEW step
    PROVE  Says(At(path, step, Word("null")), {<<Append(path, step), Word("null")>>})
<1> DEFINE line == [path |-> Append(path, step), text |-> Word("null")]
<1>1. At(path, step, Word("null")) = <<line>>
  BY DEF At
<1>2. Said(line) = <<Append(path, step), Word("null")>>
  <2>1. Word("null")[1] = "null"
    BY DEF Word
  <2>2. Read(Word("null")) = Word("null")
    BY <2>1 DEF Read
  <2> QED BY <2>2 DEF Said
<1> HIDE DEF line
<1>3. Says(<<line>>, {Said(line)})
  BY SaysOne
<1> QED BY <1>1, <1>2, <1>3

LEMMA FlatSay ==
    ASSUME NEW path, IsSeq(path), NEW s, NEW v, v # Null, Sound(<<path, s, v>>), NEW d, Level0(d, s)
    PROVE  Says(FlatLines(path, d, v), Facts(<<path, s, v>>))
<1>1. Says(Own(path, d.own, v), OwnFacts(path, Layout[s], v))
  BY OwnSays DEF Level0
<1>2. PointerFacts(path, Layout[s], v) = {}
  BY DEF PointerFacts, Level0
<1>3. Facts(<<path, s, v>>) = OwnFacts(path, Layout[s], v)
  BY <1>2, FactsSplit
<1> QED BY <1>1, <1>3 DEF FlatLines

LEMMA ItemSay ==
    ASSUME NEW path, IsSeq(path), NEW s, NEW v, v # Null, Sound(<<path, s, v>>), NEW d, Level1(d, s),
           \A q \in Pointees(<<path, s, v>>) : Sound(q)
    PROVE  Says(ItemLines(path, d, v), Near(<<path, s, v>>)) /\ Under(path, Near(<<path, s, v>>))
<1> DEFINE l == d.nest
           steps == Steps(l, v)
           sub == Pointee(l, Layout[s])
           Q == Pointees(<<path, s, v>>)
           ss == [n \in DOMAIN steps |->
                     IF Item(l, v, n) = Null THEN At(path, steps[n], Word("null"))
                     ELSE FlatLines(Append(path, steps[n]), l.of, Item(l, v, n))]
           G == [n \in DOMAIN steps |-> Facts(<<Append(path, steps[n]), sub, Item(l, v, n)>>)]
<1>1. NestFits(l, Layout[s]) /\ Keyed(d.own, Keys(Layout[s]), Layout[s])
  BY DEF Level1
<1>2. \A q : q \in Q <=> \E n \in DOMAIN steps : q = <<Append(path, steps[n]), sub, Item(l, v, n)>>
  <2> HIDE DEF l
  <2>1. Leads(path, l, Layout[s], v, Q)
    BY <1>1, StepsLead
  <2> QED BY <2>1 DEF Leads
<1>3. l.how = "none" => DOMAIN steps = {}
  <2>1. l.how = "none" => steps = <<>>
    BY DEF Steps
  <2> QED BY <2>1
<1>4. ItemLines(path, d, v) = Own(path, d.own, v) \o Missing(path, l, v) \o FlattenSeq(ss)
  BY DEF ItemLines, Lines
<1> HIDE DEF steps, sub, Q
<1>5. ASSUME NEW n \in DOMAIN steps
      PROVE  Says(ss[n], G[n]) /\ Under(Append(path, steps[n]), G[n])
  <2> DEFINE q == Append(path, steps[n])
             item == Item(l, v, n)
  <2>1. IsSeq(q)
    BY Lasts
  <2>2. Sound(<<q, sub, item>>)
    BY <1>2 DEF Q
  <2>3. Level0(l.of, sub)
    BY <1>3 DEF Level1, sub
  <2>4. Under(q, Facts(<<q, sub, item>>))
    BY <2>1, FactsUnder
  <2>5. CASE item = Null
    <3>1. Facts(<<q, sub, item>>) = {<<q, Word("null")>>}
      BY <2>5 DEF Facts
    <3>2. Says(At(path, steps[n], Word("null")), {<<q, Word("null")>>})
      BY NullSays
    <3> QED BY <2>4, <2>5, <3>1, <3>2
  <2>6. CASE item # Null
    <3> HIDE DEF q, item
    <3>1. Says(FlatLines(q, l.of, item), Facts(<<q, sub, item>>))
      BY <2>1, <2>2, <2>3, <2>6, FlatSay
    <3>2. ss[n] = FlatLines(q, l.of, item) /\ G[n] = Facts(<<q, sub, item>>)
      BY <2>6 DEF q, item
    <3> QED BY <2>4, <3>1, <3>2 DEF q
  <2> QED BY <2>5, <2>6
<1>6. ss = [n \in DOMAIN steps |-> ss[n]]
  OBVIOUS
<1>7. UNION {Facts(q) : q \in Q} = UNION {G[n] : n \in DOMAIN steps}
  <2> DEFINE A == UNION {Facts(q) : q \in Q}
             B == UNION {G[n] : n \in DOMAIN steps}
  <2>1. /\ \A x : x \in A <=> \E q \in Q : x \in Facts(q)
        /\ \A x : x \in B <=> \E n \in DOMAIN steps : x \in Facts(<<Append(path, steps[n]), sub, Item(l, v, n)>>)
    OBVIOUS
  <2> HIDE DEF A, B
  <2>2. A = B
    BY <1>2, <2>1
  <2> QED BY <2>2 DEF A, B
<1> HIDE DEF G
<1>8. \A x \in UNION {G[n] : n \in DOMAIN steps} : \A j \in 1 .. Len(path) : x[1][j] = path[j]
  <2> SUFFICES ASSUME NEW n \in DOMAIN steps PROVE \A x \in G[n] : \A j \in 1 .. Len(path) : x[1][j] = path[j]
    OBVIOUS
  <2>1. Under(path, G[n])
    BY <1>5, UnderLess
  <2> QED BY <2>1 DEF Under
<1> HIDE DEF ss, l
<1>9. Says(Own(path, d.own, v) \o Missing(path, l, v) \o FlattenSeq(ss),
           Facts(<<path, s, v>>) \cup UNION {G[n] : n \in DOMAIN steps})
  BY <1>1, <1>5, <1>6, BlocksSay DEF steps
<1>10. Near(<<path, s, v>>) = Facts(<<path, s, v>>) \cup UNION {G[n] : n \in DOMAIN steps}
  BY <1>7, Reach DEF Q
<1>11. Under(path, Facts(<<path, s, v>>))
  BY FactsUnder
<1>12. Under(path, Near(<<path, s, v>>))
  BY <1>8, <1>10, <1>11 DEF Under
<1> QED BY <1>4, <1>9, <1>10, <1>12

(* Descriptions that fit a structure two pointers deep print all that is reached
   from it: print_boot_info's sections and print_framebuffer_info's screens. *)
LEMMA AllSay ==
    ASSUME NEW path, IsSeq(path), NEW s, NEW v, v # Null, Sound(<<path, s, v>>), NEW d, Level2(d, s),
           \A q \in Pointees(<<path, s, v>>) : Sound(q) /\ (q[3] # Null => \A p \in Pointees(q) : Sound(p))
    PROVE  Says(AllLines(path, d, v), Far(<<path, s, v>>)) /\ Under(path, Far(<<path, s, v>>))
<1> DEFINE l == d.nest
           steps == Steps(l, v)
           sub == Pointee(l, Layout[s])
           Q == Pointees(<<path, s, v>>)
           ss == [n \in DOMAIN steps |->
                     IF Item(l, v, n) = Null THEN At(path, steps[n], Word("null"))
                     ELSE ItemLines(Append(path, steps[n]), l.of, Item(l, v, n))]
           G == [n \in DOMAIN steps |-> Near(<<Append(path, steps[n]), sub, Item(l, v, n)>>)]
<1>1. NestFits(l, Layout[s]) /\ Keyed(d.own, Keys(Layout[s]), Layout[s])
  BY DEF Level2
<1>2. \A q : q \in Q <=> \E n \in DOMAIN steps : q = <<Append(path, steps[n]), sub, Item(l, v, n)>>
  <2> HIDE DEF l
  <2>1. Leads(path, l, Layout[s], v, Q)
    BY <1>1, StepsLead
  <2> QED BY <2>1 DEF Leads
<1>3. l.how = "none" => DOMAIN steps = {}
  <2>1. l.how = "none" => steps = <<>>
    BY DEF Steps
  <2> QED BY <2>1
<1>4. AllLines(path, d, v) = Own(path, d.own, v) \o Missing(path, l, v) \o FlattenSeq(ss)
  BY DEF AllLines, Lines
<1> HIDE DEF steps, sub, Q
<1>5. ASSUME NEW n \in DOMAIN steps
      PROVE  Says(ss[n], G[n]) /\ Under(Append(path, steps[n]), G[n])
  <2> DEFINE q == Append(path, steps[n])
             item == Item(l, v, n)
             place == <<q, sub, item>>
  <2>1. IsSeq(q)
    BY Lasts
  <2>2. place \in Q /\ place[3] = item
    BY <1>2
  <2>3. Sound(place) /\ (item # Null => \A p \in Pointees(place) : Sound(p))
    BY <2>2 DEF Q
  <2>4. Level1(l.of, sub)
    BY <1>3 DEF Level2, sub
  <2>5. CASE item = Null
    <3>1. Near(<<q, sub, Null>>) = {<<q, Word("null")>>}
      BY Nulls
    <3>2. Says(At(path, steps[n], Word("null")), {<<q, Word("null")>>})
      BY NullSays
    <3>3. Under(q, {<<q, Word("null")>>})
      BY DEF Under
    <3> QED BY <2>5, <3>1, <3>2, <3>3
  <2>6. CASE item # Null
    <3> HIDE DEF q, item
    <3>1. Says(ItemLines(q, l.of, item), Near(<<q, sub, item>>)) /\ Under(q, Near(<<q, sub, item>>))
      BY <2>1, <2>3, <2>4, <2>6, ItemSay
    <3>2. ss[n] = ItemLines(q, l.of, item) /\ G[n] = Near(<<q, sub, item>>)
      BY <2>6 DEF q, item
    <3> QED BY <3>1, <3>2 DEF q
  <2> QED BY <2>5, <2>6
<1>6. ss = [n \in DOMAIN steps |-> ss[n]]
  OBVIOUS
<1>7. UNION {Near(q) : q \in Q} = UNION {G[n] : n \in DOMAIN steps}
  <2> DEFINE A == UNION {Near(q) : q \in Q}
             B == UNION {G[n] : n \in DOMAIN steps}
  <2>1. /\ \A x : x \in A <=> \E q \in Q : x \in Near(q)
        /\ \A x : x \in B <=> \E n \in DOMAIN steps : x \in Near(<<Append(path, steps[n]), sub, Item(l, v, n)>>)
    OBVIOUS
  <2> HIDE DEF A, B
  <2>2. A = B
    BY <1>2, <2>1
  <2> QED BY <2>2 DEF A, B
<1> HIDE DEF G
<1>8. \A x \in UNION {G[n] : n \in DOMAIN steps} : \A j \in 1 .. Len(path) : x[1][j] = path[j]
  <2> SUFFICES ASSUME NEW n \in DOMAIN steps PROVE \A x \in G[n] : \A j \in 1 .. Len(path) : x[1][j] = path[j]
    OBVIOUS
  <2>1. Under(path, G[n])
    BY <1>5, UnderLess
  <2> QED BY <2>1 DEF Under
<1> HIDE DEF ss, l
<1>9. Says(Own(path, d.own, v) \o Missing(path, l, v) \o FlattenSeq(ss),
           Facts(<<path, s, v>>) \cup UNION {G[n] : n \in DOMAIN steps})
  BY <1>1, <1>5, <1>6, BlocksSay DEF steps
<1>10. Far(<<path, s, v>>) = Facts(<<path, s, v>>) \cup UNION {G[n] : n \in DOMAIN steps}
  BY <1>7, Reach DEF Q
<1>11. Under(path, Facts(<<path, s, v>>))
  BY FactsUnder
<1>12. Under(path, Far(<<path, s, v>>))
  BY <1>8, <1>10, <1>11 DEF Under
<1> QED BY <1>4, <1>9, <1>10, <1>12

-----------------------------------------------------------------------------
(* Lines are put together as the functions of boot_info.c print them. *)
Vals(F) == {<<f, "value">> : f \in F}

LEMMA KeyOfLine ==
    ASSUME NEW how, NEW f
    PROVE  /\ Line(how, f).field = f /\ Line(how, f).how = how
           /\ how \in {"llu", "llx", "u", "x", "s", "uuid", "signed"} => Key(Line(how, f)) = <<f, "value">>
           /\ how \in {"name", "x2apic"} => Key(Line(how, f)) = <<f, how>>
<1>1. Line(how, f).field = f /\ Line(how, f).how = how
  BY DEF Line
<1> QED BY <1>1 DEF Key, Kind

LEMMA KeyedNone == ASSUME NEW type PROVE Keyed(<<>>, Vals({}), type)
<1>1. <<>> \in Seq({}) /\ DOMAIN <<>> = {}
  OBVIOUS
<1>2. IsSeq(<<>>)
  BY <1>1, SomeSeq
<1>3. Vals({}) = {}
  BY DEF Vals
<1> QED BY <1>1, <1>2, <1>3 DEF Keyed

LEMMA KeyedLine ==
    ASSUME NEW type, NEW l, Suits(l, type)
    PROVE  Keyed(<<l>>, {Key(l)}, type)
<1> DEFINE s == <<l>>
<1>1. s \in Seq({l}) /\ DOMAIN s = {1} /\ s[1] = l
  OBVIOUS
<1> HIDE DEF s
<1>2. IsSeq(s)
  BY <1>1, SomeSeq
<1>3. {Key(s[n]) : n \in DOMAIN s} = {Key(l)}
  BY <1>1
<1> QED BY <1>1, <1>2, <1>3 DEF Keyed, s

LEMMA KeyedBoth ==
    ASSUME NEW type, NEW s, NEW t, NEW K, NEW J, Keyed(s, K, type), Keyed(t, J, type), K \cap J = {}
    PROVE  Keyed(s \o t, K \cup J, type)
<1> DEFINE u == s \o t
           a == Len(s)
           b == Len(t)
           p == [n \in DOMAIN s |-> Key(s[n])]
           q == [n \in DOMAIN t |-> Key(t[n])]
           r == [n \in DOMAIN u |-> Key(u[n])]
<1>1. /\ IsSeq(u) /\ a \in Nat /\ b \in Nat
      /\ DOMAIN s = 1 .. a /\ DOMAIN t = 1 .. b /\ DOMAIN u = 1 .. a + b
      /\ \A j \in 1 .. a : u[j] = s[j]
      /\ \A j \in 1 .. b : u[a + j] = t[j]
  BY Joined DEF Keyed
<1> HIDE DEF u, a, b
<1>2. Once(p, a, K) /\ Once(q, b, J)
  <2>1. {p[n] : n \in 1 .. a} = K /\ {q[n] : n \in 1 .. b} = J
    BY <1>1 DEF Keyed
  <2>2. \A n, m \in 1 .. a : p[n] = p[m] => n = m
    BY <1>1 DEF Keyed
  <2>3. \A n, m \in 1 .. b : q[n] = q[m] => n = m
    BY <1>1 DEF Keyed
  <2> HIDE DEF p, q
  <2> QED BY <2>1, <2>2, <2>3 DEF Once
<1>3. \A j \in 1 .. a : r[j] = p[j]
  BY <1>1
<1>4. \A j \in 1 .. b : r[a + j] = q[j]
  BY <1>1
<1> HIDE DEF p, q, r
<1>5. Once(r, a + b, K \cup J)
  BY <1>1, <1>2, <1>3, <1>4, OnceBoth
<1>6. ASSUME NEW n \in DOMAIN u PROVE Suits(u[n], type)
  <2>1. CASE n <= a
    <3>1. n \in DOMAIN s /\ u[n] = s[n]
      BY <1>1, <2>1
    <3> QED BY <3>1 DEF Keyed
  <2>2. CASE ~ (n <= a)
    <3>1. n - a \in 1 .. b /\ a + (n - a) = n
      BY <1>1, <2>2
    <3>2. n - a \in DOMAIN t /\ u[n] = t[n - a]
      BY <1>1, <3>1
    <3> QED BY <3>2 DEF Keyed
  <2> QED BY <2>1, <2>2
<1>7. \A n \in DOMAIN u : r[n] = Key(u[n])
  BY DEF r
<1>8. {Key(u[n]) : n \in DOMAIN u} = K \cup J
  <2>1. {r[n] : n \in DOMAIN u} = K \cup J
    BY <1>1, <1>5 DEF Once
  <2>2. {Key(u[n]) : n \in DOMAIN u} = {r[n] : n \in DOMAIN u}
    BY <1>7
  <2> QED BY <2>1, <2>2
<1>9. \A n, m \in DOMAIN u : Key(u[n]) = Key(u[m]) => n = m
  BY <1>1, <1>5, <1>7 DEF Once
<1> QED BY <1>1, <1>6, <1>8, <1>9 DEF Keyed, u

LEMMA KeyedMore ==
    ASSUME NEW type, NEW s, NEW t, NEW F, NEW G, Keyed(s, Vals(F), type), Keyed(t, Vals(G), type), F \cap G = {}
    PROVE  Keyed(s \o t, Vals(F \cup G), type)
<1>1. Vals(F) \cap Vals(G) = {} /\ Vals(F \cup G) = Vals(F) \cup Vals(G)
  BY DEF Vals
<1> QED BY <1>1, KeyedBoth

(* Lists of fields that are printed one way. *)
Plainly == {"llu", "llx", "u", "x", "s", "uuid", "signed"}
Shown(how, fields) == [n \in DOMAIN fields |-> Line(how, fields[n])]

LEMMA KeyedList ==
    ASSUME NEW type, NEW how \in Plainly, NEW F, NEW fields \in Seq(F), F \subseteq {fields[n] : n \in DOMAIN fields},
           \A n, m \in DOMAIN fields : fields[n] = fields[m] => n = m,
           \A f \in F : Suits(Line(how, f), type)
    PROVE  Keyed(Shown(how, fields), Vals(F), type)
<1> DEFINE u == Shown(how, fields)
           N == Len(fields)
<1>1. N \in Nat /\ DOMAIN fields = 1 .. N /\ \A n \in 1 .. N : fields[n] \in F
  BY LenProperties
<1>2. DOMAIN u = 1 .. N /\ \A n \in 1 .. N : u[n] = Line(how, fields[n])
  BY <1>1 DEF Shown
<1>3. IsSeq(u)
  <2> DEFINE A == {u[n] : n \in 1 .. N}
  <2>1. u \in [1 .. N -> A]
    BY <1>1 DEF Shown
  <2> HIDE DEF A, u
  <2>2. u \in Seq(A)
    BY <1>1, <2>1, FunctionSeq
  <2> QED BY <2>2, SomeSeq
<1> HIDE DEF u, N
<1>4. \A n \in 1 .. N : Key(u[n]) = <<fields[n], "value">> /\ Suits(u[n], type)
  BY <1>1, <1>2, KeyOfLine DEF Plainly
<1>5. {Key(u[n]) : n \in DOMAIN u} = Vals(F)
  <2>1. \A n \in 1 .. N : Key(u[n]) \in Vals(F)
    BY <1>1, <1>4 DEF Vals
  <2>2. ASSUME NEW x \in Vals(F) PROVE \E n \in 1 .. N : x = Key(u[n])
    <3>1. PICK f \in F : x = <<f, "value">>
      BY DEF Vals
    <3>2. PICK n \in 1 .. N : fields[n] = f
      BY <1>1
    <3> QED BY <1>4, <3>1, <3>2
  <2> QED BY <1>2, <2>1, <2>2
<1>6. \A n, m \in DOMAIN u : Key(u[n]) = Key(u[m]) => n = m
  <2>1. \A n, m \in 1 .. N : Key(u[n]) = Key(u[m]) => fields[n] = fields[m]
    BY <1>4
  <2> QED BY <1>1, <1>2, <2>1
<1> QED BY <1>2, <1>3, <1>4, <1>5, <1>6 DEF Keyed, u

LEMMA Keyed1 ==
    ASSUME NEW type, NEW how \in Plainly, NEW a, Suits(Line(how, a), type)
    PROVE  Keyed(Shown(how, <<a>>), Vals({a}), type)
<1> DEFINE F == {a}
           fields == <<a>>
<1>1. /\ fields \in Seq(F) /\ DOMAIN fields = {1} /\ fields[1] = a
  OBVIOUS
<1> HIDE DEF fields
<1>2. F \subseteq {fields[n] : n \in DOMAIN fields} /\ \A n, m \in DOMAIN fields : fields[n] = fields[m] => n = m
  BY <1>1
<1>3. \A f \in F : Suits(Line(how, f), type)
  OBVIOUS
<1> HIDE DEF F
<1>4. Keyed(Shown(how, fields), Vals(F), type)
  BY <1>1, <1>2, <1>3, KeyedList
<1> QED BY <1>4 DEF F, fields

LEMMA Keyed2 ==
    ASSUME NEW type, NEW how \in Plainly, NEW a, NEW b, a # b, \A f \in {a, b} : Suits(Line(how, f), type)
    PROVE  Keyed(Shown(how, <<a, b>>), Vals({a, b}), type)
<1> DEFINE F == {a, b}
           fields == <<a, b>>
<1>1. /\ fields \in Seq(F) /\ DOMAIN fields = {1, 2} /\ fields[1] = a /\ fields[2] = b
  OBVIOUS
<1> HIDE DEF fields
<1>2. F \subseteq {fields[n] : n \in DOMAIN fields} /\ \A n, m \in DOMAIN fields : fields[n] = fields[m] => n = m
  BY <1>1
<1>3. \A f \in F : Suits(Line(how, f), type)
  OBVIOUS
<1> HIDE DEF F
<1>4. Keyed(Shown(how, fields), Vals(F), type)
  BY <1>1, <1>2, <1>3, KeyedList
<1> QED BY <1>4 DEF F, fields

LEMMA Keyed3 ==
    ASSUME NEW type, NEW how \in Plainly, NEW a, NEW b, NEW c, a # b, a # c, b # c,
           \A f \in {a, b, c} : Suits(Line(how, f), type)
    PROVE  Keyed(Shown(how, <<a, b, c>>), Vals({a, b, c}), type)
<1> DEFINE F == {a, b, c}
           fields == <<a, b, c>>
<1>1. /\ fields \in Seq(F) /\ DOMAIN fields = {1, 2, 3} /\ fields[1] = a /\ fields[2] = b /\ fields[3] = c
  OBVIOUS
<1> HIDE DEF fields
<1>2. F \subseteq {fields[n] : n \in DOMAIN fields} /\ \A n, m \in DOMAIN fields : fields[n] = fields[m] => n = m
  BY <1>1
<1>3. \A f \in F : Suits(Line(how, f), type)
  OBVIOUS
<1> HIDE DEF F
<1>4. Keyed(Shown(how, fields), Vals(F), type)
  BY <1>1, <1>2, <1>3, KeyedList
<1> QED BY <1>4 DEF F, fields

-----------------------------------------------------------------------------
(* The structures, field by field. *)
LEMMA HhdmFields ==
    LET type == Layout["hhdm"] IN
    /\ \A f \in {"offset", "revision"} : type[f] = "u64"
    /\ Scalars(type) = {"offset", "revision"}
    /\ Others(type) = {}
    /\ Keys(type) = Vals({"offset", "revision"})
<1> DEFINE type == Layout["hhdm"]
<1>1. DOMAIN type = {"offset", "revision"}
  BY DEF Layout, Plain, Of, ++
<1>2. \A f \in {"offset", "revision"} : type[f] = "u64"
  BY DEF Layout, Plain, Of, ++
<1> HIDE DEF type
<1>3. Scalars(type) = {"offset", "revision"} /\ Others(type) = {}
  BY <1>1, <1>2 DEF Scalars, Scalar, Integral, Others
<1>4. Keys(type) = Vals({"offset", "revision"})
  BY <1>2, <1>3, NamedTable DEF Keys, Vals, Integral
<1> QED BY <1>2, <1>3, <1>4 DEF type

LEMMA BootloaderInfoFields ==
    LET type == Layout["bootloader_info"] IN
    /\ \A f \in {"revision"} : type[f] = "u64"
    /\ \A f \in {"name", "version"} : type[f] = "string"
    /\ Scalars(type) = {"revision", "name", "version"}
    /\ Others(type) = {}
    /\ Keys(type) = Vals({"revision", "name", "version"})
<1> DEFINE type == Layout["bootloader_info"]
<1>1. DOMAIN type = {"revision", "name", "version"}
  BY DEF Layout, Plain, Of, ++
<1>2. /\ \A f \in {"revision"} : type[f] = "u64"
      /\ \A f \in {"name", "version"} : type[f] = "string"
  BY DEF Layout, Plain, Of, ++
<1> HIDE DEF type
<1>3. Scalars(type) = {"revision", "name", "version"} /\ Others(type) = {}
  BY <1>1, <1>2 DEF Scalars, Scalar, Integral, Others
<1>4. Keys(type) = Vals({"revision", "name", "version"})
  BY <1>2, <1>3, NamedTable DEF Keys, Vals, Integral
<1> QED BY <1>2, <1>3, <1>4 DEF type

LEMMA CmdlineFields ==
    LET type == Layout["cmdline"] IN
    /\ \A f \in {"revision"} : type[f] = "u64"
    /\ \A f \in {"cmdline"} : type[f] = "string"
    /\ Scalars(type) = {"revision", "cmdline"}
    /\ Others(type) = {}
    /\ Keys(type) = Vals({"revision", "cmdline"})
<1> DEFINE type == Layout["cmdline"]
<1>1. DOMAIN type = {"revision", "cmdline"}
  BY DEF Layout, Plain, Of, ++
<1>2. /\ \A f \in {"revision"} : type[f] = "u64"
      /\ \A f \in {"cmdline"} : type[f] = "string"
  BY DEF Layout, Plain, Of, ++
<1> HIDE DEF type
<1>3. Scalars(type) = {"revision", "cmdline"} /\ Others(type) = {}
  BY <1>1, <1>2 DEF Scalars, Scalar, Integral, Others
<1>4. Keys(type) = Vals({"revision", "cmdline"})
  BY <1>2, <1>3, NamedTable DEF Keys, Vals, Integral
<1> QED BY <1>2, <1>3, <1>4 DEF type

LEMMA FirmwareTypeFields ==
    LET type == Layout["firmware_type"] IN
    /\ \A f \in {"firmware_type", "revision"} : type[f] = "u64"
    /\ Scalars(type) = {"firmware_type", "revision"}
    /\ Others(type) = {}
    /\ Keys(type) = Vals({"firmware_type", "revision"}) \cup {<<"firmware_type", "name">>}
<1> DEFINE type == Layout["firmware_type"]
<1>1. DOMAIN type = {"firmware_type", "revision"}
  BY DEF Layout, Plain, Of, ++
<1>2. \A f \in {"firmware_type", "revision"} : type[f] = "u64"
  BY DEF Layout, Plain, Of, ++
<1> HIDE DEF type
<1>3. Scalars(type) = {"firmware_type", "revision"} /\ Others(type) = {}
  BY <1>1, <1>2 DEF Scalars, Scalar, Integral, Others
<1>4. Keys(type) = Vals({"firmware_type", "revision"}) \cup {<<"firmware_type", "name">>}
  BY <1>2, <1>3, NamedTable DEF Keys, Vals, Integral
<1> QED BY <1>2, <1>3, <1>4 DEF type

LEMMA StackSizeFields ==
    LET type == Layout["stack_size"] IN
    /\ \A f \in {"revision"} : type[f] = "u64"
    /\ Scalars(type) = {"revision"}
    /\ Others(type) = {}
    /\ Keys(type) = Vals({"revision"})
<1> DEFINE type == Layout["stack_size"]
<1>1. DOMAIN type = {"revision"}
  BY DEF Layout, Plain, Of, ++
<1>2. \A f \in {"revision"} : type[f] = "u64"
  BY DEF Layout, Plain, Of, ++
<1> HIDE DEF type
<1>3. Scalars(type) = {"revision"} /\ Others(type) = {}
  BY <1>1, <1>2 DEF Scalars, Scalar, Integral, Others
<1>4. Keys(type) = Vals({"revision"})
  BY <1>2, <1>3, NamedTable DEF Keys, Vals, Integral
<1> QED BY <1>2, <1>3, <1>4 DEF type

LEMMA PagingModeFields ==
    LET type == Layout["paging_mode"] IN
    /\ \A f \in {"mode", "revision"} : type[f] = "u64"
    /\ Scalars(type) = {"mode", "revision"}
    /\ Others(type) = {}
    /\ Keys(type) = Vals({"mode", "revision"}) \cup {<<"mode", "name">>}
<1> DEFINE type == Layout["paging_mode"]
<1>1. DOMAIN type = {"mode", "revision"}
  BY DEF Layout, Plain, Of, ++
<1>2. \A f \in {"mode", "revision"} : type[f] = "u64"
  BY DEF Layout, Plain, Of, ++
<1> HIDE DEF type
<1>3. Scalars(type) = {"mode", "revision"} /\ Others(type) = {}
  BY <1>1, <1>2 DEF Scalars, Scalar, Integral, Others
<1>4. Keys(type) = Vals({"mode", "revision"}) \cup {<<"mode", "name">>}
  BY <1>2, <1>3, NamedTable DEF Keys, Vals, Integral
<1> QED BY <1>2, <1>3, <1>4 DEF type

LEMMA EntryPointFields ==
    LET type == Layout["entry_point"] IN
    /\ \A f \in {"revision"} : type[f] = "u64"
    /\ Scalars(type) = {"revision"}
    /\ Others(type) = {}
    /\ Keys(type) = Vals({"revision"})
<1> DEFINE type == Layout["entry_point"]
<1>1. DOMAIN type = {"revision"}
  BY DEF Layout, Plain, Of, ++
<1>2. \A f \in {"revision"} : type[f] = "u64"
  BY DEF Layout, Plain, Of, ++
<1> HIDE DEF type
<1>3. Scalars(type) = {"revision"} /\ Others(type) = {}
  BY <1>1, <1>2 DEF Scalars, Scalar, Integral, Others
<1>4. Keys(type) = Vals({"revision"})
  BY <1>2, <1>3, NamedTable DEF Keys, Vals, Integral
<1> QED BY <1>2, <1>3, <1>4 DEF type

LEMMA KernelFields ==
    LET type == Layout["kernel"] IN
    /\ \A f \in {"revision"} : type[f] = "u64"
    /\ type["executable_file"] = "file"
    /\ Scalars(type) = {"revision"}
    /\ Others(type) = {"executable_file"}
    /\ Keys(type) = Vals({"revision"})
<1> DEFINE type == Layout["kernel"]
<1>1. DOMAIN type = {"revision", "executable_file"}
  BY DEF Layout, Plain, Of, ++
<1>2. /\ \A f \in {"revision"} : type[f] = "u64"
      /\ type["executable_file"] = "file"
  BY DEF Layout, Plain, Of, ++
<1> HIDE DEF type
<1>3. Scalars(type) = {"revision"} /\ Others(type) = {"executable_file"}
  BY <1>1, <1>2 DEF Scalars, Scalar, Integral, Others
<1>4. Keys(type) = Vals({"revision"})
  BY <1>2, <1>3, NamedTable DEF Keys, Vals, Integral
<1> QED BY <1>2, <1>3, <1>4 DEF type

LEMMA ModuleFields ==
    LET type == Layout["module"] IN
    /\ \A f \in {"module_count", "revision"} : type[f] = "u64"
    /\ type["modules"] = "files"
    /\ Scalars(type) = {"module_count", "revision"}
    /\ Others(type) = {"modules"}
    /\ Keys(type) = Vals({"module_count", "revision"})
<1> DEFINE type == Layout["module"]
<1>1. DOMAIN type = {"module_count", "revision", "modules"}
  BY DEF Layout, Plain, Of, ++
<1>2. /\ \A f \in {"module_count", "revision"} : type[f] = "u64"
      /\ type["modules"] = "files"
  BY DEF Layout, Plain, Of, ++
<1> HIDE DEF type
<1>3. Scalars(type) = {"module_count", "revision"} /\ Others(type) = {"modules"}
  BY <1>1, <1>2 DEF Scalars, Scalar, Integral, Others
<1>4. Keys(type) = Vals({"module_count", "revision"})
  BY <1>2, <1>3, NamedTable DEF Keys, Vals, Integral
<1> QED BY <1>2, <1>3, <1>4 DEF type

LEMMA SmbiosFields ==
    LET type == Layout["smbios"] IN
    /\ \A f \in {"entry_32", "entry_64", "revision"} : type[f] = "u64"
    /\ Scalars(type) = {"entry_32", "entry_64", "revision"}
    /\ Others(type) = {}
    /\ Keys(type) = Vals({"entry_32", "entry_64", "revision"})
<1> DEFINE type == Layout["smbios"]
<1>1. DOMAIN type = {"entry_32", "entry_64", "revision"}
  BY DEF Layout, Plain, Of, ++
<1>2. \A f \in {"entry_32", "entry_64", "revision"} : type[f] = "u64"
  BY DEF Layout, Plain, Of, ++
<1> HIDE DEF type
<1>3. Scalars(type) = {"entry_32", "entry_64", "revision"} /\ Others(type) = {}
  BY <1>1, <1>2 DEF Scalars, Scalar, Integral, Others
<1>4. Keys(type) = Vals({"entry_32", "entry_64", "revision"})
  BY <1>2, <1>3, NamedTable DEF Keys, Vals, Integral
<1> QED BY <1>2, <1>3, <1>4 DEF type

LEMMA EfiSystemTableFields ==
    LET type == Layout["efi_system_table"] IN
    /\ \A f \in {"address", "revision"} : type[f] = "u64"
    /\ Scalars(type) = {"address", "revision"}
    /\ Others(type) = {}
    /\ Keys(type) = Vals({"address", "revision"})
<1> DEFINE type == Layout["efi_system_table"]
<1>1. DOMAIN type = {"address", "revision"}
  BY DEF Layout, Plain, Of, ++
<1>2. \A f \in {"address", "revision"} : type[f] = "u64"
  BY DEF Layout, Plain, Of, ++
<1> HIDE DEF type
<1>3. Scalars(type) = {"address", "revision"} /\ Others(type) = {}
  BY <1>1, <1>2 DEF Scalars, Scalar, Integral, Others
<1>4. Keys(type) = Vals({"address", "revision"})
  BY <1>2, <1>3, NamedTable DEF Keys, Vals, Integral
<1> QED BY <1>2, <1>3, <1>4 DEF type

LEMMA EfiMemmapFields ==
    LET type == Layout["efi_memmap"] IN
    /\ \A f \in {"memmap", "memmap_size", "desc_size", "desc_version", "revision"} : type[f] = "u64"
    /\ Scalars(type) = {"memmap", "memmap_size", "desc_size", "desc_version", "revision"}
    /\ Others(type) = {}
    /\ Keys(type) = Vals({"memmap", "memmap_size", "desc_size", "desc_version", "revision"})
<1> DEFINE type == Layout["efi_memmap"]
<1>1. DOMAIN type = {"memmap", "memmap_size", "desc_size", "desc_version", "revision"}
  BY DEF Layout, Plain, Of, ++
<1>2. \A f \in {"memmap", "memmap_size", "desc_size", "desc_version", "revision"} : type[f] = "u64"
  BY DEF Layout, Plain, Of, ++
<1> HIDE DEF type
<1>3. Scalars(type) = {"memmap", "memmap_size", "desc_size", "desc_version", "revision"} /\ Others(type) = {}
  BY <1>1, <1>2 DEF Scalars, Scalar, Integral, Others
<1>4. Keys(type) = Vals({"memmap", "memmap_size", "desc_size", "desc_version", "revision"})
  BY <1>2, <1>3, NamedTable DEF Keys, Vals, Integral
<1> QED BY <1>2, <1>3, <1>4 DEF type

LEMMA BootDateFields ==
    LET type == Layout["boot_date"] IN
    /\ \A f \in {"revision"} : type[f] = "u64"
    /\ \A f \in {"timestamp"} : type[f] = "i64"
    /\ Scalars(type) = {"revision", "timestamp"}
    /\ Others(type) = {}
    /\ Keys(type) = Vals({"revision", "timestamp"})
<1> DEFINE type == Layout["boot_date"]
<1>1. DOMAIN type = {"revision", "timestamp"}
  BY DEF Layout, Plain, Of, ++
<1>2. /\ \A f \in {"revision"} : type[f] = "u64"
      /\ \A f \in {"timestamp"} : type[f] = "i64"
  BY DEF Layout, Plain, Of, ++
<1> HIDE DEF type
<1>3. Scalars(type) = {"revision", "timestamp"} /\ Others(type) = {}
  BY <1>1, <1>2 DEF Scalars, Scalar, Integral, Others
<1>4. Keys(type) = Vals({"revision", "timestamp"})
  BY <1>2, <1>3, NamedTable DEF Keys, Vals, Integral
<1> QED BY <1>2, <1>3, <1>4 DEF type

LEMMA DeviceTreeBlobFields ==
    LET type == Layout["device_tree_blob"] IN
    /\ \A f \in {"dtb_ptr", "revision"} : type[f] = "u64"
    /\ Scalars(type) = {"dtb_ptr", "revision"}
    /\ Others(type) = {}
    /\ Keys(type) = Vals({"dtb_ptr", "revision"})
<1> DEFINE type == Layout["device_tree_blob"]
<1>1. DOMAIN type = {"dtb_ptr", "revision"}
  BY DEF Layout, Plain, Of, ++
<1>2. \A f \in {"dtb_ptr", "revision"} : type[f] = "u64"
  BY DEF Layout, Plain, Of, ++
<1> HIDE DEF type
<1>3. Scalars(type) = {"dtb_ptr", "revision"} /\ Others(type) = {}
  BY <1>1, <1>2 DEF Scalars, Scalar, Integral, Others
<1>4. Keys(type) = Vals({"dtb_ptr", "revision"})
  BY <1>2, <1>3, NamedTable DEF Keys, Vals, Integral
<1> QED BY <1>2, <1>3, <1>4 DEF type

LEMMA RiscvBspHartidFields ==
    LET type == Layout["riscv_bsp_hartid"] IN
    /\ \A f \in {"bsp_hartid", "revision"} : type[f] = "u64"
    /\ Scalars(type) = {"bsp_hartid", "revision"}
    /\ Others(type) = {}
    /\ Keys(type) = Vals({"bsp_hartid", "revision"})
<1> DEFINE type == Layout["riscv_bsp_hartid"]
<1>1. DOMAIN type = {"bsp_hartid", "revision"}
  BY DEF Layout, Plain, Of, ++
<1>2. \A f \in {"bsp_hartid", "revision"} : type[f] = "u64"
  BY DEF Layout, Plain, Of, ++
<1> HIDE DEF type
<1>3. Scalars(type) = {"bsp_hartid", "revision"} /\ Others(type) = {}
  BY <1>1, <1>2 DEF Scalars, Scalar, Integral, Others
<1>4. Keys(type) = Vals({"bsp_hartid", "revision"})
  BY <1>2, <1>3, NamedTable DEF Keys, Vals, Integral
<1> QED BY <1>2, <1>3, <1>4 DEF type

LEMMA PerformanceFields ==
    LET type == Layout["performance"] IN
    /\ \A f \in {"reset_usec", "init_usec", "exec_usec", "revision"} : type[f] = "u64"
    /\ Scalars(type) = {"reset_usec", "init_usec", "exec_usec", "revision"}
    /\ Others(type) = {}
    /\ Keys(type) = Vals({"reset_usec", "init_usec", "exec_usec", "revision"})
<1> DEFINE type == Layout["performance"]
<1>1. DOMAIN type = {"reset_usec", "init_usec", "exec_usec", "revision"}
  BY DEF Layout, Plain, Of, ++
<1>2. \A f \in {"reset_usec", "init_usec", "exec_usec", "revision"} : type[f] = "u64"
  BY DEF Layout, Plain, Of, ++
<1> HIDE DEF type
<1>3. Scalars(type) = {"reset_usec", "init_usec", "exec_usec", "revision"} /\ Others(type) = {}
  BY <1>1, <1>2 DEF Scalars, Scalar, Integral, Others
<1>4. Keys(type) = Vals({"reset_usec", "init_usec", "exec_usec", "revision"})
  BY <1>2, <1>3, NamedTable DEF Keys, Vals, Integral
<1> QED BY <1>2, <1>3, <1>4 DEF type

LEMMA KernelAddressFields ==
    LET type == Layout["kernel_address"] IN
    /\ \A f \in {"physical_base", "virtual_base", "revision"} : type[f] = "u64"
    /\ Scalars(type) = {"physical_base", "virtual_base", "revision"}
    /\ Others(type) = {}
    /\ Keys(type) = Vals({"physical_base", "virtual_base", "revision"})
<1> DEFINE type == Layout["kernel_address"]
<1>1. DOMAIN type = {"physical_base", "virtual_base", "revision"}
  BY DEF Layout, Plain, Of, ++
<1>2. \A f \in {"physical_base", "virtual_base", "revision"} : type[f] = "u64"
  BY DEF Layout, Plain, Of, ++
<1> HIDE DEF type
<1>3. Scalars(type) = {"physical_base", "virtual_base", "revision"} /\ Others(type) = {}
  BY <1>1, <1>2 DEF Scalars, Scalar, Integral, Others
<1>4. Keys(type) = Vals({"physical_base", "virtual_base", "revision"})
  BY <1>2, <1>3, NamedTable DEF Keys, Vals, Integral
<1> QED BY <1>2, <1>3, <1>4 DEF type

LEMMA MemmapFields ==
    LET type == Layout["memmap"] IN
    /\ \A f \in {"entry_count", "revision"} : type[f] = "u64"
    /\ type["entries"] = "memmap_entries"
    /\ Scalars(type) = {"entry_count", "revision"}
    /\ Others(type) = {"entries"}
    /\ Keys(type) = Vals({"entry_count", "revision"})
<1> DEFINE type == Layout["memmap"]
<1>1. DOMAIN type = {"entry_count", "revision", "entries"}
  BY DEF Layout, Plain, Of, ++
<1>2. /\ \A f \in {"entry_count", "revision"} : type[f] = "u64"
      /\ type["entries"] = "memmap_entries"
  BY DEF Layout, Plain, Of, ++
<1> HIDE DEF type
<1>3. Scalars(type) = {"entry_count", "revision"} /\ Others(type) = {"entries"}
  BY <1>1, <1>2 DEF Scalars, Scalar, Integral, Others
<1>4. Keys(type) = Vals({"entry_count", "revision"})
  BY <1>2, <1>3, NamedTable DEF Keys, Vals, Integral
<1> QED BY <1>2, <1>3, <1>4 DEF type

LEMMA AcpiFields ==
    LET type == Layout["acpi"] IN
    /\ \A f \in {"address", "revision"} : type[f] = "u64"
    /\ Scalars(type) = {"address", "revision"}
    /\ Others(type) = {}
    /\ Keys(type) = Vals({"address", "revision"})
<1> DEFINE type == Layout["acpi"]
<1>1. DOMAIN type = {"address", "revision"}
  BY DEF Layout, Plain, Of, ++
<1>2. \A f \in {"address", "revision"} : type[f] = "u64"
  BY DEF Layout, Plain, Of, ++
<1> HIDE DEF type
<1>3. Scalars(type) = {"address", "revision"} /\ Others(type) = {}
  BY <1>1, <1>2 DEF Scalars, Scalar, Integral, Others
<1>4. Keys(type) = Vals({"address", "revision"})
  BY <1>2, <1>3, NamedTable DEF Keys, Vals, Integral
<1> QED BY <1>2, <1>3, <1>4 DEF type

LEMMA SmpFields ==
    LET type == Layout["smp"] IN
    /\ \A f \in {"cpu_count", "revision"} : type[f] = "u64"
    /\ \A f \in {"flags", "bsp_lapic_id"} : type[f] = "u32"
    /\ type["cpus"] = "mp_infos"
    /\ Scalars(type) = {"cpu_count", "revision", "flags", "bsp_lapic_id"}
    /\ Others(type) = {"cpus"}
    /\ Keys(type) = Vals({"cpu_count", "revision", "flags", "bsp_lapic_id"}) \cup {<<"flags", "x2apic">>}
<1> DEFINE type == Layout["smp"]
<1>1. DOMAIN type = {"cpu_count", "revision", "flags", "bsp_lapic_id", "cpus"}
  BY DEF Layout, Plain, Of, ++
<1>2. /\ \A f \in {"cpu_count", "revision"} : type[f] = "u64"
      /\ \A f \in {"flags", "bsp_lapic_id"} : type[f] = "u32"
      /\ type["cpus"] = "mp_infos"
  BY DEF Layout, Plain, Of, ++
<1> HIDE DEF type
<1>3. Scalars(type) = {"cpu_count", "revision", "flags", "bsp_lapic_id"} /\ Others(type) = {"cpus"}
  BY <1>1, <1>2 DEF Scalars, Scalar, Integral, Others
<1>4. Keys(type) = Vals({"cpu_count", "revision", "flags", "bsp_lapic_id"}) \cup {<<"flags", "x2apic">>}
  BY <1>2, <1>3, NamedTable DEF Keys, Vals, Integral
<1> QED BY <1>2, <1>3, <1>4 DEF type

LEMMA FramebufferFields ==
    LET type == Layout["framebuffer"] IN
    /\ \A f \in {"framebuffer_count", "revision"} : type[f] = "u64"
    /\ type["framebuffers"] = "screens"
    /\ Scalars(type) = {"framebuffer_count", "revision"}
    /\ Others(type) = {"framebuffers"}
    /\ Keys(type) = Vals({"framebuffer_count", "revision"})
<1> DEFINE type == Layout["framebuffer"]
<1>1. DOMAIN type = {"framebuffer_count", "revision", "framebuffers"}
  BY DEF Layout, Plain, Of, ++
<1>2. /\ \A f \in {"framebuffer_count", "revision"} : type[f] = "u64"
      /\ type["framebuffers"] = "screens"
  BY DEF Layout, Plain, Of, ++
<1> HIDE DEF type
<1>3. Scalars(type) = {"framebuffer_count", "revision"} /\ Others(type) = {"framebuffers"}
  BY <1>1, <1>2 DEF Scalars, Scalar, Integral, Others
<1>4. Keys(type) = Vals({"framebuffer_count", "revision"})
  BY <1>2, <1>3, NamedTable DEF Keys, Vals, Integral
<1> QED BY <1>2, <1>3, <1>4 DEF type

LEMMA FileFields ==
    LET type == Layout["file"] IN
    /\ \A f \in {"address", "size", "revision"} : type[f] = "u64"
    /\ \A f \in {"path", "string"} : type[f] = "string"
    /\ \A f \in {"media_type", "unused", "tftp_ip", "tftp_port", "partition_index", "mbr_disk_id"} : type[f] = "u32"
    /\ \A f \in {"gpt_disk_uuid", "gpt_part_uuid", "part_uuid"} : type[f] = "uuid"
    /\ Scalars(type) = {"address", "size", "revision", "path", "string", "media_type", "unused", "tftp_ip",
         "tftp_port", "partition_index", "mbr_disk_id", "gpt_disk_uuid", "gpt_part_uuid", "part_uuid"}
    /\ Others(type) = {}
    /\ Keys(type) = Vals({"address", "size", "revision", "path", "string", "media_type", "unused", "tftp_ip",
         "tftp_port", "partition_index", "mbr_disk_id", "gpt_disk_uuid", "gpt_part_uuid", "part_uuid"}) \cup
         {<<"media_type", "name">>}
<1> DEFINE type == Layout["file"]
<1>1. DOMAIN type = {"address", "size", "revision", "path", "string", "media_type", "unused", "tftp_ip",
        "tftp_port", "partition_index", "mbr_disk_id", "gpt_disk_uuid", "gpt_part_uuid", "part_uuid"}
  BY DEF Layout, Plain, Of, ++
<1>2. /\ \A f \in {"address", "size", "revision"} : type[f] = "u64"
      /\ \A f \in {"path", "string"} : type[f] = "string"
      /\ \A f \in {"media_type", "unused", "tftp_ip", "tftp_port", "partition_index", "mbr_disk_id"} : type[f] = "u32"
      /\ \A f \in {"gpt_disk_uuid", "gpt_part_uuid", "part_uuid"} : type[f] = "uuid"
  BY DEF Layout, Plain, Of, ++
<1> HIDE DEF type
<1>3. Scalars(type) = {"address", "size", "revision", "path", "string", "media_type", "unused", "tftp_ip",
        "tftp_port", "partition_index", "mbr_disk_id", "gpt_disk_uuid", "gpt_part_uuid", "part_uuid"} /\
        Others(type) = {}
  BY <1>1, <1>2 DEF Scalars, Scalar, Integral, Others
<1>4. Keys(type) = Vals({"address", "size", "revision", "path", "string", "media_type", "unused", "tftp_ip",
        "tftp_port", "partition_index", "mbr_disk_id", "gpt_disk_uuid", "gpt_part_uuid", "part_uuid"}) \cup
        {<<"media_type", "name">>}
  BY <1>2, <1>3, NamedTable DEF Keys, Vals, Integral
<1> QED BY <1>2, <1>3, <1>4 DEF type

LEMMA MemmapEntryFields ==
    LET type == Layout["memmap_entry"] IN
    /\ \A f \in {"base", "length", "type"} : type[f] = "u64"
    /\ Scalars(type) = {"base", "length", "type"}
    /\ Others(type) = {}
    /\ Keys(type) = Vals({"base", "length", "type"}) \cup {<<"type", "name">>}
<1> DEFINE type == Layout["memmap_entry"]
<1>1. DOMAIN type = {"base", "length", "type"}
  BY DEF Layout, Plain, Of, ++
<1>2. \A f \in {"base", "length", "type"} : type[f] = "u64"
  BY DEF Layout, Plain, Of, ++
<1> HIDE DEF type
<1>3. Scalars(type) = {"base", "length", "type"} /\ Others(type) = {}
  BY <1>1, <1>2 DEF Scalars, Scalar, Integral, Others
<1>4. Keys(type) = Vals({"base", "length", "type"}) \cup {<<"type", "name">>}
  BY <1>2, <1>3, NamedTable DEF Keys, Vals, Integral
<1> QED BY <1>2, <1>3, <1>4 DEF type

LEMMA MpInfoFields ==
    LET type == Layout["mp_info"] IN
    /\ \A f \in {"processor_id", "lapic_id"} : type[f] = "u32"
    /\ \A f \in {"reserved", "goto_address", "extra_argument"} : type[f] = "u64"
    /\ Scalars(type) = {"processor_id", "lapic_id", "reserved", "goto_address", "extra_argument"}
    /\ Others(type) = {}
    /\ Keys(type) = Vals({"processor_id", "lapic_id", "reserved", "goto_address", "extra_argument"})
<1> DEFINE type == Layout["mp_info"]
<1>1. DOMAIN type = {"processor_id", "lapic_id", "reserved", "goto_address", "extra_argument"}
  BY DEF Layout, Plain, Of, ++
<1>2. /\ \A f \in {"processor_id", "lapic_id"} : type[f] = "u32"
      /\ \A f \in {"reserved", "goto_address", "extra_argument"} : type[f] = "u64"
  BY DEF Layout, Plain, Of, ++
<1> HIDE DEF type
<1>3. Scalars(type) = {"processor_id", "lapic_id", "reserved", "goto_address", "extra_argument"} /\ Others(type) = {}
  BY <1>1, <1>2 DEF Scalars, Scalar, Integral, Others
<1>4. Keys(type) = Vals({"processor_id", "lapic_id", "reserved", "goto_address", "extra_argument"})
  BY <1>2, <1>3, NamedTable DEF Keys, Vals, Integral
<1> QED BY <1>2, <1>3, <1>4 DEF type

LEMMA ScreenFields ==
    LET type == Layout["screen"] IN
    /\ \A f \in {"address", "width", "height", "pitch", "edid_size", "edid", "mode_count"} : type[f] = "u64"
    /\ \A f \in {"bpp"} : type[f] = "u16"
    /\ \A f \in {"memory_model", "red_mask_size", "red_mask_shift", "green_mask_size", "green_mask_shift",
         "blue_mask_size", "blue_mask_shift"} : type[f] = "u8"
    /\ type["modes"] = "modes"
    /\ Scalars(type) = {"address", "width", "height", "pitch", "edid_size", "edid", "mode_count", "bpp",
         "memory_model", "red_mask_size", "red_mask_shift", "green_mask_size", "green_mask_shift",
         "blue_mask_size", "blue_mask_shift"}
    /\ Others(type) = {"modes"}
    /\ Keys(type) = Vals({"address", "width", "height", "pitch", "edid_size", "edid", "mode_count", "bpp",
         "memory_model", "red_mask_size", "red_mask_shift", "green_mask_size", "green_mask_shift",
         "blue_mask_size", "blue_mask_shift"}) \cup {<<"memory_model", "name">>}
<1> DEFINE type == Layout["screen"]
<1>1. DOMAIN type = {"address", "width", "height", "pitch", "edid_size", "edid", "mode_count", "bpp",
        "memory_model", "red_mask_size", "red_mask_shift", "green_mask_size", "green_mask_shift", "blue_mask_size",
        "blue_mask_shift", "modes"}
  BY DEF Layout, Plain, Of, ++
<1>2. /\ \A f \in {"address", "width", "height", "pitch", "edid_size", "edid", "mode_count"} : type[f] = "u64"
      /\ \A f \in {"bpp"} : type[f] = "u16"
      /\ \A f \in {"memory_model", "red_mask_size", "red_mask_shift", "green_mask_size", "green_mask_shift",
           "blue_mask_size", "blue_mask_shift"} : type[f] = "u8"
      /\ type["modes"] = "modes"
  BY DEF Layout, Plain, Of, ++
<1> HIDE DEF type
<1>3. Scalars(type) = {"address", "width", "height", "pitch", "edid_size", "edid", "mode_count", "bpp",
        "memory_model", "red_mask_size", "red_mask_shift", "green_mask_size", "green_mask_shift", "blue_mask_size",
        "blue_mask_shift"} /\ Others(type) = {"modes"}
  BY <1>1, <1>2 DEF Scalars, Scalar, Integral, Others
<1>4. Keys(type) = Vals({"address", "width", "height", "pitch", "edid_size", "edid", "mode_count", "bpp",
        "memory_model", "red_mask_size", "red_mask_shift", "green_mask_size", "green_mask_shift", "blue_mask_size",
        "blue_mask_shift"}) \cup {<<"memory_model", "name">>}
  BY <1>2, <1>3, NamedTable DEF Keys, Vals, Integral
<1> QED BY <1>2, <1>3, <1>4 DEF type

LEMMA ModeFields ==
    LET type == Layout["mode"] IN
    /\ \A f \in {"pitch", "width", "height"} : type[f] = "u64"
    /\ \A f \in {"bpp"} : type[f] = "u16"
    /\ \A f \in {"memory_model", "red_mask_size", "red_mask_shift", "green_mask_size", "green_mask_shift",
         "blue_mask_size", "blue_mask_shift"} : type[f] = "u8"
    /\ Scalars(type) = {"pitch", "width", "height", "bpp", "memory_model", "red_mask_size", "red_mask_shift",
         "green_mask_size", "green_mask_shift", "blue_mask_size", "blue_mask_shift"}
    /\ Others(type) = {}
    /\ Keys(type) = Vals({"pitch", "width", "height", "bpp", "memory_model", "red_mask_size", "red_mask_shift",
         "green_mask_size", "green_mask_shift", "blue_mask_size", "blue_mask_shift"}) \cup {<<"memory_model", "name">>}
<1> DEFINE type == Layout["mode"]
<1>1. DOMAIN type = {"pitch", "width", "height", "bpp", "memory_model", "red_mask_size", "red_mask_shift",
        "green_mask_size", "green_mask_shift", "blue_mask_size", "blue_mask_shift"}
  BY DEF Layout, Plain, Of, ++
<1>2. /\ \A f \in {"pitch", "width", "height"} : type[f] = "u64"
      /\ \A f \in {"bpp"} : type[f] = "u16"
      /\ \A f \in {"memory_model", "red_mask_size", "red_mask_shift", "green_mask_size", "green_mask_shift",
           "blue_mask_size", "blue_mask_shift"} : type[f] = "u8"
  BY DEF Layout, Plain, Of, ++
<1> HIDE DEF type
<1>3. Scalars(type) = {"pitch", "width", "height", "bpp", "memory_model", "red_mask_size", "red_mask_shift",
        "green_mask_size", "green_mask_shift", "blue_mask_size", "blue_mask_shift"} /\ Others(type) = {}
  BY <1>1, <1>2 DEF Scalars, Scalar, Integral, Others
<1>4. Keys(type) = Vals({"pitch", "width", "height", "bpp", "memory_model", "red_mask_size", "red_mask_shift",
        "green_mask_size", "green_mask_shift", "blue_mask_size", "blue_mask_shift"}) \cup {<<"memory_model", "name">>}
  BY <1>2, <1>3, NamedTable DEF Keys, Vals, Integral
<1> QED BY <1>2, <1>3, <1>4 DEF type

-----------------------------------------------------------------------------
(* What the lines of each structure print are its fields. *)
LEMMA Suit ==
    ASSUME NEW type, NEW f \in DOMAIN type
    PROVE  /\ type[f] \in Integral => Suits(Line("llu", f), type) /\ Suits(Line("llx", f), type)
           /\ type[f] \in {"u8", "u16", "u32"} => Suits(Line("u", f), type) /\ Suits(Line("x", f), type)
           /\ type[f] = "string" => Suits(Line("s", f), type)
           /\ type[f] = "i64" => Suits(Line("signed", f), type)
           /\ type[f] = "uuid" => Suits(Line("uuid", f), type)
           /\ type[f] \in Integral /\ f \in DOMAIN Named => Suits(Line("name", f), type)
           /\ type[f] \in Integral /\ f = "flags" => Suits(Line("x2apic", f), type)
BY KeyOfLine DEF Suits

LEMMA KeyedOne ==
    ASSUME NEW type, NEW how \in Plainly, NEW a, Suits(Line(how, a), type)
    PROVE  Keyed(<<Line(how, a)>>, Vals({a}), type)
<1>1. Key(Line(how, a)) = <<a, "value">>
  BY KeyOfLine DEF Plainly
<1>2. {Key(Line(how, a))} = Vals({a})
  BY <1>1 DEF Vals
<1>3. Keyed(<<Line(how, a)>>, {Key(Line(how, a))}, type)
  BY KeyedLine
<1> QED BY <1>2, <1>3

LEMMA Lists1 ==
    ASSUME NEW type, NEW a \in DOMAIN type
    PROVE  /\ (\A f \in {a} : type[f] \in Integral) =>
                  Keyed(Llu(<<a>>), Vals({a}), type) /\ Keyed(Llx(<<a>>), Vals({a}), type)
           /\ (\A f \in {a} : type[f] \in {"u8", "u16", "u32"}) =>
                  Keyed(Uint(<<a>>), Vals({a}), type) /\ Keyed(Hex(<<a>>), Vals({a}), type)
           /\ (\A f \in {a} : type[f] = "string") => Keyed(Str(<<a>>), Vals({a}), type)
<1>1. /\ Llu(<<a>>) = Shown("llu", <<a>>) /\ Llx(<<a>>) = Shown("llx", <<a>>)
      /\ Uint(<<a>>) = Shown("u", <<a>>) /\ Hex(<<a>>) = Shown("x", <<a>>) /\ Str(<<a>>) = Shown("s", <<a>>)
  BY DEF Llu, Llx, Uint, Hex, Str, Shown
<1>2. ASSUME NEW how \in Plainly, \A f \in {a} : Suits(Line(how, f), type)
      PROVE  Keyed(Shown(how, <<a>>), Vals({a}), type)
  BY <1>2, Keyed1
<1>3. {"llu", "llx", "u", "x", "s"} \subseteq Plainly
  BY DEF Plainly
<1>4. /\ (\A f \in {a} : type[f] \in Integral) =>
             \A f \in {a} : Suits(Line("llu", f), type) /\ Suits(Line("llx", f), type)
      /\ (\A f \in {a} : type[f] \in {"u8", "u16", "u32"}) =>
             \A f \in {a} : Suits(Line("u", f), type) /\ Suits(Line("x", f), type)
      /\ (\A f \in {a} : type[f] = "string") => \A f \in {a} : Suits(Line("s", f), type)
  BY Suit
<1> QED BY <1>1, <1>2, <1>3, <1>4

LEMMA Lists2 ==
    ASSUME NEW type, NEW a \in DOMAIN type, NEW b \in DOMAIN type, a # b
    PROVE  /\ (\A f \in {a, b} : type[f] \in Integral) =>
                  Keyed(Llu(<<a, b>>), Vals({a, b}), type) /\ Keyed(Llx(<<a, b>>), Vals({a, b}), type)
           /\ (\A f \in {a, b} : type[f] \in {"u8", "u16", "u32"}) =>
                  Keyed(Uint(<<a, b>>), Vals({a, b}), type) /\ Keyed(Hex(<<a, b>>), Vals({a, b}), type)
           /\ (\A f \in {a, b} : type[f] = "string") => Keyed(Str(<<a, b>>), Vals({a, b}), type)
<1>1. /\ Llu(<<a, b>>) = Shown("llu", <<a, b>>) /\ Llx(<<a, b>>) = Shown("llx", <<a, b>>)
      /\ Uint(<<a, b>>) = Shown("u", <<a, b>>) /\ Hex(<<a, b>>) = Shown("x", <<a, b>>) /\ Str(<<a,
           b>>) = Shown("s", <<a, b>>)
  BY DEF Llu, Llx, Uint, Hex, Str, Shown
<1>2. ASSUME NEW how \in Plainly, \A f \in {a, b} : Suits(Line(how, f), type)
      PROVE  Keyed(Shown(how, <<a, b>>), Vals({a, b}), type)
  BY <1>2, Keyed2
<1>3. {"llu", "llx", "u", "x", "s"} \subseteq Plainly
  BY DEF Plainly
<1>4. /\ (\A f \in {a, b} : type[f] \in Integral) =>
             \A f \in {a, b} : Suits(Line("llu", f), type) /\ Suits(Line("llx", f), type)
      /\ (\A f \in {a, b} : type[f] \in {"u8", "u16", "u32"}) =>
             \A f \in {a, b} : Suits(Line("u", f), type) /\ Suits(Line("x", f), type)
      /\ (\A f \in {a, b} : type[f] = "string") => \A f \in {a, b} : Suits(Line("s", f), type)
  BY Suit
<1> QED BY <1>1, <1>2, <1>3, <1>4

LEMMA Lists3 ==
    ASSUME NEW type, NEW a \in DOMAIN type, NEW b \in DOMAIN type, NEW c \in DOMAIN type, a # b, a # c, b # c
    PROVE  /\ (\A f \in {a, b, c} : type[f] \in Integral) =>
                  Keyed(Llu(<<a, b, c>>), Vals({a, b, c}), type) /\ Keyed(Llx(<<a, b, c>>), Vals({a, b, c}), type)
           /\ (\A f \in {a, b, c} : type[f] \in {"u8", "u16", "u32"}) =>
                  Keyed(Uint(<<a, b, c>>), Vals({a, b, c}), type) /\ Keyed(Hex(<<a, b, c>>), Vals({a, b, c}), type)
           /\ (\A f \in {a, b, c} : type[f] = "string") => Keyed(Str(<<a, b, c>>), Vals({a, b, c}), type)
<1>1. /\ Llu(<<a, b, c>>) = Shown("llu", <<a, b, c>>) /\ Llx(<<a, b, c>>) = Shown("llx", <<a, b, c>>)
      /\ Uint(<<a, b, c>>) = Shown("u", <<a, b, c>>) /\ Hex(<<a, b, c>>) = Shown("x", <<a, b, c>>) /\ Str(<<a, b,
           c>>) = Shown("s", <<a, b, c>>)
  BY DEF Llu, Llx, Uint, Hex, Str, Shown
<1>2. ASSUME NEW how \in Plainly, \A f \in {a, b, c} : Suits(Line(how, f), type)
      PROVE  Keyed(Shown(how, <<a, b, c>>), Vals({a, b, c}), type)
  BY <1>2, Keyed3
<1>3. {"llu", "llx", "u", "x", "s"} \subseteq Plainly
  BY DEF Plainly
<1>4. /\ (\A f \in {a, b, c} : type[f] \in Integral) =>
             \A f \in {a, b, c} : Suits(Line("llu", f), type) /\ Suits(Line("llx", f), type)
      /\ (\A f \in {a, b, c} : type[f] \in {"u8", "u16", "u32"}) =>
             \A f \in {a, b, c} : Suits(Line("u", f), type) /\ Suits(Line("x", f), type)
      /\ (\A f \in {a, b, c} : type[f] = "string") => \A f \in {a, b, c} : Suits(Line("s", f), type)
  BY Suit
<1> QED BY <1>1, <1>2, <1>3, <1>4

LEMMA ListsName ==
    ASSUME NEW type, NEW f \in DOMAIN type, type[f] \in Integral
    PROVE  /\ f \in DOMAIN Named => Keyed(Name(f), {<<f, "name">>}, type)
           /\ f = "flags" => Keyed(<< Line("x2apic", f) >>, {<<f, "x2apic">>}, type)
<1>1. Key(Line("name", f)) = <<f, "name">> /\ Key(Line("x2apic", f)) = <<f, "x2apic">>
  BY KeyOfLine
<1>2. /\ f \in DOMAIN Named => Suits(Line("name", f), type)
      /\ f = "flags" => Suits(Line("x2apic", f), type)
  BY Suit
<1> QED BY <1>1, <1>2, KeyedLine DEF Name


LEMMA KeyedUuids ==
    ASSUME NEW type, \A f \in {"gpt_disk_uuid", "gpt_part_uuid", "part_uuid"} : f \in DOMAIN type /\ type[f] = "uuid"
    PROVE  Keyed(<< Line("uuid", "gpt_disk_uuid"), Line("uuid", "gpt_part_uuid"), Line("uuid", "part_uuid") >>,
                 Vals({"gpt_disk_uuid", "gpt_part_uuid", "part_uuid"}), type)
<1> DEFINE fields == <<"gpt_disk_uuid", "gpt_part_uuid", "part_uuid">>
<1>1. Keyed(Shown("uuid", fields), Vals({"gpt_disk_uuid", "gpt_part_uuid", "part_uuid"}), type)
  BY Suit, Keyed3 DEF Plainly
<1>2. Shown("uuid", fields) =
          << Line("uuid", "gpt_disk_uuid"), Line("uuid", "gpt_part_uuid"), Line("uuid", "part_uuid") >>
  BY DEF Shown
<1> QED BY <1>1, <1>2

(* The lines of a mode, which are also those of a screen. *)
Masks == {"red_mask_size", "red_mask_shift", "green_mask_size", "green_mask_shift", "blue_mask_size", "blue_mask_shift"}

LEMMA PixelFits ==
    ASSUME NEW type, "bpp" \in DOMAIN type, type["bpp"] = "u16",
           \A f \in Masks \cup {"memory_model"} : f \in DOMAIN type /\ type[f] = "u8"
    PROVE  Keyed(PixelLines, Vals({"bpp", "memory_model"} \cup Masks) \cup {<<"memory_model", "name">>}, type)
<1> DEFINE fields == <<"red_mask_size", "red_mask_shift", "green_mask_size", "green_mask_shift",
                       "blue_mask_size", "blue_mask_shift">>
           a == Uint(<<"bpp", "memory_model">>)
           b == Name("memory_model")
           c == Uint(fields)
           K == {<<"memory_model", "name">>}
<1>1. Keyed(a, Vals({"bpp", "memory_model"}), type)
  BY Suit, Keyed2 DEF Uint, Shown, Plainly
<1>2. Keyed(b, K, type)
  BY Suit, NamedTable, KeyedLine, KeyOfLine DEF Name, Integral
<1>3. Keyed(c, Vals(Masks), type)
  <2>1. fields \in Seq(Masks) /\ DOMAIN fields = 1 .. 6
    BY DEF Masks
  <2>2. /\ fields[1] = "red_mask_size" /\ fields[2] = "red_mask_shift" /\ fields[3] = "green_mask_size"
        /\ fields[4] = "green_mask_shift" /\ fields[5] = "blue_mask_size" /\ fields[6] = "blue_mask_shift"
    OBVIOUS
  <2>3. c = Shown("u", fields)
    BY DEF Uint, Shown
  <2> HIDE DEF fields, c
  <2>4. Masks \subseteq {fields[n] : n \in DOMAIN fields}
    BY <2>1, <2>2 DEF Masks
  <2>5. \A n, m \in DOMAIN fields : fields[n] = fields[m] => n = m
    BY <2>1, <2>2
  <2>6. \A f \in Masks : Suits(Line("u", f), type)
    BY Suit
  <2>7. "u" \in Plainly
    BY DEF Plainly
  <2> QED BY <2>1, <2>3, <2>4, <2>5, <2>6, <2>7, KeyedList
<1> HIDE DEF a, b, c, K
<1>4. Keyed(a \o b, Vals({"bpp", "memory_model"}) \cup K, type)
  <2>1. Vals({"bpp", "memory_model"}) \cap K = {}
    BY DEF Vals, K
  <2> QED BY <1>1, <1>2, <2>1, KeyedBoth
<1>5. Keyed((a \o b) \o c, (Vals({"bpp", "memory_model"}) \cup K) \cup Vals(Masks), type)
  <2>1. (Vals({"bpp", "memory_model"}) \cup K) \cap Vals(Masks) = {}
    BY DEF Vals, K, Masks
  <2> QED BY <1>3, <1>4, <2>1, KeyedBoth
<1>6. (Vals({"bpp", "memory_model"}) \cup K) \cup Vals(Masks) = Vals({"bpp", "memory_model"} \cup Masks) \cup K
  BY DEF Vals
<1>7. PixelLines = (a \o b) \o c
  BY DEF PixelLines, a, b, c
<1> QED BY <1>5, <1>6, <1>7 DEF K

-----------------------------------------------------------------------------
(* The lines of each structure and its fields, section by section. *)
LEMMA HhdmFits == Keyed(Llu(<<"revision">>) \o Llx(<<"offset">>), Keys(Layout["hhdm"]), Layout["hhdm"])
<1> DEFINE type == Layout["hhdm"]
<1>1. /\ \A f \in {"offset", "revision"} : type[f] = "u64"
      /\ Scalars(type) = {"offset", "revision"}
      /\ Keys(type) = Vals({"offset", "revision"})
  BY HhdmFields
<1> HIDE DEF type
<1>2. \A f \in Scalars(type) : f \in DOMAIN type
  BY DEF Scalars
<1>3. Keyed(Llx(<<"offset">>), Vals({"offset"}), type)
  BY <1>1, <1>2, Lists1 DEF Integral
<1>4. Keyed(Llu(<<"revision">>), Vals({"revision"}), type)
  BY <1>1, <1>2, Lists1 DEF Integral
<1>5. Keyed(Llu(<<"revision">>) \o Llx(<<"offset">>), Vals({"revision", "offset"}), type)
  BY <1>4, <1>3, KeyedBoth DEF Vals
<1> QED BY <1>1, <1>5 DEF type, Vals

LEMMA BootloaderInfoFits == Keyed(Llu(<<"revision">>) \o Str(<<"name", "version">>),
    Keys(Layout["bootloader_info"]), Layout["bootloader_info"])
<1> DEFINE type == Layout["bootloader_info"]
<1>1. /\ \A f \in {"revision"} : type[f] = "u64"
      /\ \A f \in {"name", "version"} : type[f] = "string"
      /\ Scalars(type) = {"revision", "name", "version"}
      /\ Keys(type) = Vals({"revision", "name", "version"})
  BY BootloaderInfoFields
<1> HIDE DEF type
<1>2. \A f \in Scalars(type) : f \in DOMAIN type
  BY DEF Scalars
<1>3. Keyed(Str(<<"name", "version">>), Vals({"name", "version"}), type)
  BY <1>1, <1>2, Lists2 DEF Integral
<1>4. Keyed(Llu(<<"revision">>), Vals({"revision"}), type)
  BY <1>1, <1>2, Lists1 DEF Integral
<1>5. Keyed(Llu(<<"revision">>) \o Str(<<"name", "version">>),
             Vals({"revision", "name", "version"}), type)
  BY <1>4, <1>3, KeyedBoth DEF Vals
<1> QED BY <1>1, <1>5 DEF type, Vals

LEMMA CmdlineFits == Keyed(Llu(<<"revision">>) \o Str(<<"cmdline">>), Keys(Layout["cmdline"]), Layout["cmdline"])
<1> DEFINE type == Layout["cmdline"]
<1>1. /\ \A f \in {"revision"} : type[f] = "u64"
      /\ \A f \in {"cmdline"} : type[f] = "string"
      /\ Scalars(type) = {"revision", "cmdline"}
      /\ Keys(type) = Vals({"revision", "cmdline"})
  BY CmdlineFields
<1> HIDE DEF type
<1>2. \A f \in Scalars(type) : f \in DOMAIN type
  BY DEF Scalars
<1>3. Keyed(Str(<<"cmdline">>), Vals({"cmdline"}), type)
  BY <1>1, <1>2, Lists1 DEF Integral
<1>4. Keyed(Llu(<<"revision">>), Vals({"revision"}), type)
  BY <1>1, <1>2, Lists1 DEF Integral
<1>5. Keyed(Llu(<<"revision">>) \o Str(<<"cmdline">>),
             Vals({"revision", "cmdline"}), type)
  BY <1>4, <1>3, KeyedBoth DEF Vals
<1> QED BY <1>1, <1>5 DEF type, Vals

LEMMA FirmwareTypeFits ==
    Keyed(Llu(<<"revision">>) \o (Llu(<<"firmware_type">>) \o Name("firmware_type")),
          Keys(Layout["firmware_type"]), Layout["firmware_type"])
<1> DEFINE type == Layout["firmware_type"]
<1>1. /\ \A f \in {"firmware_type", "revision"} : type[f] = "u64"
      /\ Scalars(type) = {"firmware_type", "revision"}
      /\ Keys(type) = Vals({"firmware_type", "revision"}) \cup {<<"firmware_type", "name">>}
  BY FirmwareTypeFields
<1> HIDE DEF type
<1>2. \A f \in Scalars(type) : f \in DOMAIN type
  BY DEF Scalars
<1>3. Keyed(Llu(<<"firmware_type">>), Vals({"firmware_type"}), type)
  BY <1>1, <1>2, Lists1 DEF Integral
<1>4. Keyed(Name("firmware_type"), {<<"firmware_type", "name">>}, type)
  BY <1>1, <1>2, NamedTable, ListsName DEF Integral
<1>5. Keyed(Llu(<<"firmware_type">>) \o Name("firmware_type"),
             Vals({"firmware_type"}) \cup {<<"firmware_type", "name">>}, type)
  BY <1>3, <1>4, KeyedBoth DEF Vals
<1>6. Keyed(Llu(<<"revision">>), Vals({"revision"}), type)
  BY <1>1, <1>2, Lists1 DEF Integral
<1>7. Keyed(Llu(<<"revision">>) \o (Llu(<<"firmware_type">>) \o Name("firmware_type")),
             Vals({"revision", "firmware_type"}) \cup {<<"firmware_type", "name">>}, type)
  BY <1>6, <1>5, KeyedBoth DEF Vals
<1> QED BY <1>1, <1>7 DEF type, Vals

LEMMA StackSizeFits == Keyed(Llu(<<"revision">>) \o <<>>, Keys(Layout["stack_size"]), Layout["stack_size"])
<1> DEFINE type == Layout["stack_size"]
<1>1. /\ \A f \in {"revision"} : type[f] = "u64"
      /\ Scalars(type) = {"revision"}
      /\ Keys(type) = Vals({"revision"})
  BY StackSizeFields
<1> HIDE DEF type
<1>2. \A f \in Scalars(type) : f \in DOMAIN type
  BY DEF Scalars
<1>3. Keyed(<<>>, Vals({}), type)
  BY KeyedNone
<1>4. Keyed(Llu(<<"revision">>), Vals({"revision"}), type)
  BY <1>1, <1>2, Lists1 DEF Integral
<1>5. Keyed(Llu(<<"revision">>) \o <<>>, Vals({"revision"}), type)
  BY <1>4, <1>3, KeyedBoth DEF Vals
<1> QED BY <1>1, <1>5 DEF type, Vals

LEMMA PagingModeFits ==
    Keyed(Llu(<<"revision">>) \o (Llu(<<"mode">>) \o Name("mode")),
          Keys(Layout["paging_mode"]), Layout["paging_mode"])
<1> DEFINE type == Layout["paging_mode"]
<1>1. /\ \A f \in {"mode", "revision"} : type[f] = "u64"
      /\ Scalars(type) = {"mode", "revision"}
      /\ Keys(type) = Vals({"mode", "revision"}) \cup {<<"mode", "name">>}
  BY PagingModeFields
<1> HIDE DEF type
<1>2. \A f \in Scalars(type) : f \in DOMAIN type
  BY DEF Scalars
<1>3. Keyed(Llu(<<"mode">>), Vals({"mode"}), type)
  BY <1>1, <1>2, Lists1 DEF Integral
<1>4. Keyed(Name("mode"), {<<"mode", "name">>}, type)
  BY <1>1, <1>2, NamedTable, ListsName DEF Integral
<1>5. Keyed(Llu(<<"mode">>) \o Name("mode"), Vals({"mode"}) \cup {<<"mode", "name">>}, type)
  BY <1>3, <1>4, KeyedBoth DEF Vals
<1>6. Keyed(Llu(<<"revision">>), Vals({"revision"}), type)
  BY <1>1, <1>2, Lists1 DEF Integral
<1>7. Keyed(Llu(<<"revision">>) \o (Llu(<<"mode">>) \o Name("mode")),
             Vals({"revision", "mode"}) \cup {<<"mode", "name">>}, type)
  BY <1>6, <1>5, KeyedBoth DEF Vals
<1> QED BY <1>1, <1>7 DEF type, Vals

LEMMA EntryPointFits == Keyed(Llu(<<"revision">>) \o <<>>, Keys(Layout["entry_point"]), Layout["entry_point"])
<1> DEFINE type == Layout["entry_point"]
<1>1. /\ \A f \in {"revision"} : type[f] = "u64"
      /\ Scalars(type) = {"revision"}
      /\ Keys(type) = Vals({"revision"})
  BY EntryPointFields
<1> HIDE DEF type
<1>2. \A f \in Scalars(type) : f \in DOMAIN type
  BY DEF Scalars
<1>3. Keyed(<<>>, Vals({}), type)
  BY KeyedNone
<1>4. Keyed(Llu(<<"revision">>), Vals({"revision"}), type)
  BY <1>1, <1>2, Lists1 DEF Integral
<1>5. Keyed(Llu(<<"revision">>) \o <<>>, Vals({"revision"}), type)
  BY <1>4, <1>3, KeyedBoth DEF Vals
<1> QED BY <1>1, <1>5 DEF type, Vals

LEMMA KernelFits == Keyed(Llu(<<"revision">>) \o <<>>, Keys(Layout["kernel"]), Layout["kernel"])
<1> DEFINE type == Layout["kernel"]
<1>1. /\ \A f \in {"revision"} : type[f] = "u64"
      /\ Scalars(type) = {"revision"}
      /\ Keys(type) = Vals({"revision"})
  BY KernelFields
<1> HIDE DEF type
<1>2. \A f \in Scalars(type) : f \in DOMAIN type
  BY DEF Scalars
<1>3. Keyed(<<>>, Vals({}), type)
  BY KeyedNone
<1>4. Keyed(Llu(<<"revision">>), Vals({"revision"}), type)
  BY <1>1, <1>2, Lists1 DEF Integral
<1>5. Keyed(Llu(<<"revision">>) \o <<>>, Vals({"revision"}), type)
  BY <1>4, <1>3, KeyedBoth DEF Vals
<1> QED BY <1>1, <1>5 DEF type, Vals

LEMMA ModuleFits == Keyed(Llu(<<"revision">>) \o Llu(<<"module_count">>), Keys(Layout["module"]), Layout["module"])
<1> DEFINE type == Layout["module"]
<1>1. /\ \A f \in {"module_count", "revision"} : type[f] = "u64"
      /\ Scalars(type) = {"module_count", "revision"}
      /\ Keys(type) = Vals({"module_count", "revision"})
  BY ModuleFields
<1> HIDE DEF type
<1>2. \A f \in Scalars(type) : f \in DOMAIN type
  BY DEF Scalars
<1>3. Keyed(Llu(<<"module_count">>), Vals({"module_count"}), type)
  BY <1>1, <1>2, Lists1 DEF Integral
<1>4. Keyed(Llu(<<"revision">>), Vals({"revision"}), type)
  BY <1>1, <1>2, Lists1 DEF Integral
<1>5. Keyed(Llu(<<"revision">>) \o Llu(<<"module_count">>),
             Vals({"revision", "module_count"}), type)
  BY <1>4, <1>3, KeyedBoth DEF Vals
<1> QED BY <1>1, <1>5 DEF type, Vals

LEMMA SmbiosFits ==
    Keyed(Llu(<<"revision">>) \o Llx(<<"entry_32", "entry_64">>),
          Keys(Layout["smbios"]), Layout["smbios"])
<1> DEFINE type == Layout["smbios"]
<1>1. /\ \A f \in {"entry_32", "entry_64", "revision"} : type[f] = "u64"
      /\ Scalars(type) = {"entry_32", "entry_64", "revision"}
      /\ Keys(type) = Vals({"entry_32", "entry_64", "revision"})
  BY SmbiosFields
<1> HIDE DEF type
<1>2. \A f \in Scalars(type) : f \in DOMAIN type
  BY DEF Scalars
<1>3. Keyed(Llx(<<"entry_32", "entry_64">>), Vals({"entry_32", "entry_64"}), type)
  BY <1>1, <1>2, Lists2 DEF Integral
<1>4. Keyed(Llu(<<"revision">>), Vals({"revision"}), type)
  BY <1>1, <1>2, Lists1 DEF Integral
<1>5. Keyed(Llu(<<"revision">>) \o Llx(<<"entry_32", "entry_64">>),
             Vals({"revision", "entry_32", "entry_64"}), type)
  BY <1>4, <1>3, KeyedBoth DEF Vals
<1> QED BY <1>1, <1>5 DEF type, Vals

LEMMA EfiSystemTableFits == Keyed(Llu(<<"revision">>) \o Llx(<<"address">>), Keys(Layout["efi_system_table"]),
    Layout["efi_system_table"])
<1> DEFINE type == Layout["efi_system_table"]
<1>1. /\ \A f \in {"address", "revision"} : type[f] = "u64"
      /\ Scalars(type) = {"address", "revision"}
      /\ Keys(type) = Vals({"address", "revision"})
  BY EfiSystemTableFields
<1> HIDE DEF type
<1>2. \A f \in Scalars(type) : f \in DOMAIN type
  BY DEF Scalars
<1>3. Keyed(Llx(<<"address">>), Vals({"address"}), type)
  BY <1>1, <1>2, Lists1 DEF Integral
<1>4. Keyed(Llu(<<"revision">>), Vals({"revision"}), type)
  BY <1>1, <1>2, Lists1 DEF Integral
<1>5. Keyed(Llu(<<"revision">>) \o Llx(<<"address">>),
             Vals({"revision", "address"}), type)
  BY <1>4, <1>3, KeyedBoth DEF Vals
<1> QED BY <1>1, <1>5 DEF type, Vals

LEMMA EfiMemmapFits ==
    Keyed(Llu(<<"revision">>) \o (Llx(<<"memmap">>) \o Llu(<<"memmap_size", "desc_size", "desc_version">>)),
          Keys(Layout["efi_memmap"]), Layout["efi_memmap"])
<1> DEFINE type == Layout["efi_memmap"]
<1>1. /\ \A f \in {"memmap", "memmap_size", "desc_size", "desc_version", "revision"} : type[f] = "u64"
      /\ Scalars(type) = {"memmap", "memmap_size", "desc_size", "desc_version", "revision"}
      /\ Keys(type) = Vals({"memmap", "memmap_size", "desc_size", "desc_version", "revision"})
  BY EfiMemmapFields
<1> HIDE DEF type
<1>2. \A f \in Scalars(type) : f \in DOMAIN type
  BY DEF Scalars
<1>3. Keyed(Llx(<<"memmap">>), Vals({"memmap"}), type)
  BY <1>1, <1>2, Lists1 DEF Integral
<1>4. Keyed(Llu(<<"memmap_size", "desc_size", "desc_version">>), Vals({"memmap_size", "desc_size",
        "desc_version"}), type)
  BY <1>1, <1>2, Lists3 DEF Integral
<1>5. Keyed(Llx(<<"memmap">>) \o Llu(<<"memmap_size", "desc_size", "desc_version">>),
             Vals({"memmap", "memmap_size", "desc_size", "desc_version"}), type)
  BY <1>3, <1>4, KeyedBoth DEF Vals
<1>6. Keyed(Llu(<<"revision">>), Vals({"revision"}), type)
  BY <1>1, <1>2, Lists1 DEF Integral
<1>7. Keyed(Llu(<<"revision">>) \o (Llx(<<"memmap">>) \o Llu(<<"memmap_size", "desc_size", "desc_version">>)),
             Vals({"revision", "memmap", "memmap_size", "desc_size", "desc_version"}), type)
  BY <1>6, <1>5, KeyedBoth DEF Vals
<1> QED BY <1>1, <1>7 DEF type, Vals

LEMMA BootDateFits ==
    Keyed(Llu(<<"revision">>) \o << Line("signed", "timestamp") >>,
          Keys(Layout["boot_date"]), Layout["boot_date"])
<1> DEFINE type == Layout["boot_date"]
<1>1. /\ \A f \in {"revision"} : type[f] = "u64"
      /\ \A f \in {"timestamp"} : type[f] = "i64"
      /\ Scalars(type) = {"revision", "timestamp"}
      /\ Keys(type) = Vals({"revision", "timestamp"})
  BY BootDateFields
<1> HIDE DEF type
<1>2. \A f \in Scalars(type) : f \in DOMAIN type
  BY DEF Scalars
<1>3. Keyed(<< Line("signed", "timestamp") >>, Vals({"timestamp"}), type)
  BY <1>1, <1>2, Suit, KeyedOne DEF Plainly
<1>4. Keyed(Llu(<<"revision">>), Vals({"revision"}), type)
  BY <1>1, <1>2, Lists1 DEF Integral
<1>5. Keyed(Llu(<<"revision">>) \o << Line("signed", "timestamp") >>,
             Vals({"revision", "timestamp"}), type)
  BY <1>4, <1>3, KeyedBoth DEF Vals
<1> QED BY <1>1, <1>5 DEF type, Vals

LEMMA DeviceTreeBlobFits == Keyed(Llu(<<"revision">>) \o Llx(<<"dtb_ptr">>), Keys(Layout["device_tree_blob"]),
    Layout["device_tree_blob"])
<1> DEFINE type == Layout["device_tree_blob"]
<1>1. /\ \A f \in {"dtb_ptr", "revision"} : type[f] = "u64"
      /\ Scalars(type) = {"dtb_ptr", "revision"}
      /\ Keys(type) = Vals({"dtb_ptr", "revision"})
  BY DeviceTreeBlobFields
<1> HIDE DEF type
<1>2. \A f \in Scalars(type) : f \in DOMAIN type
  BY DEF Scalars
<1>3. Keyed(Llx(<<"dtb_ptr">>), Vals({"dtb_ptr"}), type)
  BY <1>1, <1>2, Lists1 DEF Integral
<1>4. Keyed(Llu(<<"revision">>), Vals({"revision"}), type)
  BY <1>1, <1>2, Lists1 DEF Integral
<1>5. Keyed(Llu(<<"revision">>) \o Llx(<<"dtb_ptr">>),
             Vals({"revision", "dtb_ptr"}), type)
  BY <1>4, <1>3, KeyedBoth DEF Vals
<1> QED BY <1>1, <1>5 DEF type, Vals

LEMMA RiscvBspHartidFits == Keyed(Llu(<<"revision">>) \o Llu(<<"bsp_hartid">>), Keys(Layout["riscv_bsp_hartid"]),
    Layout["riscv_bsp_hartid"])
<1> DEFINE type == Layout["riscv_bsp_hartid"]
<1>1. /\ \A f \in {"bsp_hartid", "revision"} : type[f] = "u64"
      /\ Scalars(type) = {"bsp_hartid", "revision"}
      /\ Keys(type) = Vals({"bsp_hartid", "revision"})
  BY RiscvBspHartidFields
<1> HIDE DEF type
<1>2. \A f \in Scalars(type) : f \in DOMAIN type
  BY DEF Scalars
<1>3. Keyed(Llu(<<"bsp_hartid">>), Vals({"bsp_hartid"}), type)
  BY <1>1, <1>2, Lists1 DEF Integral
<1>4. Keyed(Llu(<<"revision">>), Vals({"revision"}), type)
  BY <1>1, <1>2, Lists1 DEF Integral
<1>5. Keyed(Llu(<<"revision">>) \o Llu(<<"bsp_hartid">>),
             Vals({"revision", "bsp_hartid"}), type)
  BY <1>4, <1>3, KeyedBoth DEF Vals
<1> QED BY <1>1, <1>5 DEF type, Vals

LEMMA PerformanceFits ==
    Keyed(Llu(<<"revision">>) \o Llu(<<"reset_usec", "init_usec", "exec_usec">>),
          Keys(Layout["performance"]), Layout["performance"])
<1> DEFINE type == Layout["performance"]
<1>1. /\ \A f \in {"reset_usec", "init_usec", "exec_usec", "revision"} : type[f] = "u64"
      /\ Scalars(type) = {"reset_usec", "init_usec", "exec_usec", "revision"}
      /\ Keys(type) = Vals({"reset_usec", "init_usec", "exec_usec", "revision"})
  BY PerformanceFields
<1> HIDE DEF type
<1>2. \A f \in Scalars(type) : f \in DOMAIN type
  BY DEF Scalars
<1>3. Keyed(Llu(<<"reset_usec", "init_usec", "exec_usec">>), Vals({"reset_usec", "init_usec", "exec_usec"}), type)
  BY <1>1, <1>2, Lists3 DEF Integral
<1>4. Keyed(Llu(<<"revision">>), Vals({"revision"}), type)
  BY <1>1, <1>2, Lists1 DEF Integral
<1>5. Keyed(Llu(<<"revision">>) \o Llu(<<"reset_usec", "init_usec", "exec_usec">>),
             Vals({"revision", "reset_usec", "init_usec", "exec_usec"}), type)
  BY <1>4, <1>3, KeyedBoth DEF Vals
<1> QED BY <1>1, <1>5 DEF type, Vals

LEMMA KernelAddressFits ==
    Keyed(Llu(<<"revision">>) \o Llx(<<"physical_base", "virtual_base">>),
          Keys(Layout["kernel_address"]), Layout["kernel_address"])
<1> DEFINE type == Layout["kernel_address"]
<1>1. /\ \A f \in {"physical_base", "virtual_base", "revision"} : type[f] = "u64"
      /\ Scalars(type) = {"physical_base", "virtual_base", "revision"}
      /\ Keys(type) = Vals({"physical_base", "virtual_base", "revision"})
  BY KernelAddressFields
<1> HIDE DEF type
<1>2. \A f \in Scalars(type) : f \in DOMAIN type
  BY DEF Scalars
<1>3. Keyed(Llx(<<"physical_base", "virtual_base">>), Vals({"physical_base", "virtual_base"}), type)
  BY <1>1, <1>2, Lists2 DEF Integral
<1>4. Keyed(Llu(<<"revision">>), Vals({"revision"}), type)
  BY <1>1, <1>2, Lists1 DEF Integral
<1>5. Keyed(Llu(<<"revision">>) \o Llx(<<"physical_base", "virtual_base">>),
             Vals({"revision", "physical_base", "virtual_base"}), type)
  BY <1>4, <1>3, KeyedBoth DEF Vals
<1> QED BY <1>1, <1>5 DEF type, Vals

LEMMA MemmapFits == Keyed(Llu(<<"revision">>) \o Llu(<<"entry_count">>), Keys(Layout["memmap"]), Layout["memmap"])
<1> DEFINE type == Layout["memmap"]
<1>1. /\ \A f \in {"entry_count", "revision"} : type[f] = "u64"
      /\ Scalars(type) = {"entry_count", "revision"}
      /\ Keys(type) = Vals({"entry_count", "revision"})
  BY MemmapFields
<1> HIDE DEF type
<1>2. \A f \in Scalars(type) : f \in DOMAIN type
  BY DEF Scalars
<1>3. Keyed(Llu(<<"entry_count">>), Vals({"entry_count"}), type)
  BY <1>1, <1>2, Lists1 DEF Integral
<1>4. Keyed(Llu(<<"revision">>), Vals({"revision"}), type)
  BY <1>1, <1>2, Lists1 DEF Integral
<1>5. Keyed(Llu(<<"revision">>) \o Llu(<<"entry_count">>),
             Vals({"revision", "entry_count"}), type)
  BY <1>4, <1>3, KeyedBoth DEF Vals
<1> QED BY <1>1, <1>5 DEF type, Vals

LEMMA AcpiFits == Keyed(Llu(<<"revision">>) \o Llx(<<"address">>), Keys(Layout["acpi"]), Layout["acpi"])
<1> DEFINE type == Layout["acpi"]
<1>1. /\ \A f \in {"address", "revision"} : type[f] = "u64"
      /\ Scalars(type) = {"address", "revision"}
      /\ Keys(type) = Vals({"address", "revision"})
  BY AcpiFields
<1> HIDE DEF type
<1>2. \A f \in Scalars(type) : f \in DOMAIN type
  BY DEF Scalars
<1>3. Keyed(Llx(<<"address">>), Vals({"address"}), type)
  BY <1>1, <1>2, Lists1 DEF Integral
<1>4. Keyed(Llu(<<"revision">>), Vals({"revision"}), type)
  BY <1>1, <1>2, Lists1 DEF Integral
<1>5. Keyed(Llu(<<"revision">>) \o Llx(<<"address">>),
             Vals({"revision", "address"}), type)
  BY <1>4, <1>3, KeyedBoth DEF Vals
<1> QED BY <1>1, <1>5 DEF type, Vals

LEMMA SmpFits ==
    Keyed(Llu(<<"revision">>) \o (Hex(<<"flags">>) \o << Line("x2apic", "flags") >> \o Uint(<<"bsp_lapic_id">>) \o
        Llu(<<"cpu_count">>)),
          Keys(Layout["smp"]), Layout["smp"])
<1> DEFINE type == Layout["smp"]
<1>1. /\ \A f \in {"cpu_count", "revision"} : type[f] = "u64"
      /\ \A f \in {"flags", "bsp_lapic_id"} : type[f] = "u32"
      /\ Scalars(type) = {"cpu_count", "revision", "flags", "bsp_lapic_id"}
      /\ Keys(type) = Vals({"cpu_count", "revision", "flags", "bsp_lapic_id"}) \cup {<<"flags", "x2apic">>}
  BY SmpFields
<1> HIDE DEF type
<1>2. \A f \in Scalars(type) : f \in DOMAIN type
  BY DEF Scalars
<1>3. Keyed(Hex(<<"flags">>), Vals({"flags"}), type)
  BY <1>1, <1>2, Lists1 DEF Integral
<1>4. Keyed(<< Line("x2apic", "flags") >>, {<<"flags", "x2apic">>}, type)
  BY <1>1, <1>2, ListsName DEF Integral
<1>5. Keyed(Hex(<<"flags">>) \o << Line("x2apic", "flags") >>,
             Vals({"flags"}) \cup {<<"flags", "x2apic">>}, type)
  BY <1>3, <1>4, KeyedBoth DEF Vals
<1>6. Keyed(Uint(<<"bsp_lapic_id">>), Vals({"bsp_lapic_id"}), type)
  BY <1>1, <1>2, Lists1 DEF Integral
<1>7. Keyed(Hex(<<"flags">>) \o << Line("x2apic", "flags") >> \o Uint(<<"bsp_lapic_id">>),
             Vals({"flags", "bsp_lapic_id"}) \cup {<<"flags", "x2apic">>}, type)
  BY <1>5, <1>6, KeyedBoth DEF Vals
<1>8. Keyed(Llu(<<"cpu_count">>), Vals({"cpu_count"}), type)
  BY <1>1, <1>2, Lists1 DEF Integral
<1>9. Keyed(Hex(<<"flags">>) \o << Line("x2apic", "flags") >> \o Uint(<<"bsp_lapic_id">>) \o Llu(<<"cpu_count">>),
             Vals({"flags", "bsp_lapic_id", "cpu_count"}) \cup {<<"flags", "x2apic">>}, type)
  BY <1>7, <1>8, KeyedBoth DEF Vals
<1>10. Keyed(Llu(<<"revision">>), Vals({"revision"}), type)
  BY <1>1, <1>2, Lists1 DEF Integral
<1>11. Keyed(Llu(<<"revision">>) \o (Hex(<<"flags">>) \o << Line("x2apic", "flags") >> \o
         Uint(<<"bsp_lapic_id">>) \o Llu(<<"cpu_count">>)),
             Vals({"revision", "flags", "bsp_lapic_id", "cpu_count"}) \cup {<<"flags", "x2apic">>}, type)
  BY <1>10, <1>9, KeyedBoth DEF Vals
<1> QED BY <1>1, <1>11 DEF type, Vals

LEMMA FramebufferFits ==
    Keyed(Llu(<<"revision">>) \o Llu(<<"framebuffer_count">>),
          Keys(Layout["framebuffer"]), Layout["framebuffer"])
<1> DEFINE type == Layout["framebuffer"]
<1>1. /\ \A f \in {"framebuffer_count", "revision"} : type[f] = "u64"
      /\ Scalars(type) = {"framebuffer_count", "revision"}
      /\ Keys(type) = Vals({"framebuffer_count", "revision"})
  BY FramebufferFields
<1> HIDE DEF type
<1>2. \A f \in Scalars(type) : f \in DOMAIN type
  BY DEF Scalars
<1>3. Keyed(Llu(<<"framebuffer_count">>), Vals({"framebuffer_count"}), type)
  BY <1>1, <1>2, Lists1 DEF Integral
<1>4. Keyed(Llu(<<"revision">>), Vals({"revision"}), type)
  BY <1>1, <1>2, Lists1 DEF Integral
<1>5. Keyed(Llu(<<"revision">>) \o Llu(<<"framebuffer_count">>),
             Vals({"revision", "framebuffer_count"}), type)
  BY <1>4, <1>3, KeyedBoth DEF Vals
<1> QED BY <1>1, <1>5 DEF type, Vals

LEMMA FileFits ==
    Keyed(Llu(<<"revision">>) \o Llx(<<"address">>) \o Llu(<<"size">>) \o Str(<<"path", "string">>) \o
        Uint(<<"media_type">>) \o Name("media_type") \o Hex(<<"unused", "tftp_ip">>) \o Uint(<<"tftp_port",
        "partition_index">>) \o Hex(<<"mbr_disk_id">>) \o << Line("uuid", "gpt_disk_uuid"), Line("uuid",
        "gpt_part_uuid"), Line("uuid", "part_uuid") >>,
          Keys(Layout["file"]), Layout["file"])
<1> DEFINE type == Layout["file"]
<1>1. /\ \A f \in {"address", "size", "revision"} : type[f] = "u64"
      /\ \A f \in {"path", "string"} : type[f] = "string"
      /\ \A f \in {"media_type", "unused", "tftp_ip", "tftp_port", "partition_index", "mbr_disk_id"} : type[f] = "u32"
      /\ \A f \in {"gpt_disk_uuid", "gpt_part_uuid", "part_uuid"} : type[f] = "uuid"
      /\ Scalars(type) = {"address", "size", "revision", "path", "string", "media_type", "unused", "tftp_ip",
           "tftp_port", "partition_index", "mbr_disk_id", "gpt_disk_uuid", "gpt_part_uuid", "part_uuid"}
      /\ Keys(type) = Vals({"address", "size", "revision", "path", "string", "media_type", "unused", "tftp_ip",
           "tftp_port", "partition_index", "mbr_disk_id", "gpt_disk_uuid", "gpt_part_uuid", "part_uuid"}) \cup
           {<<"media_type", "name">>}
  BY FileFields
<1> HIDE DEF type
<1>2. \A f \in Scalars(type) : f \in DOMAIN type
  BY DEF Scalars
<1>3. Keyed(Llu(<<"revision">>), Vals({"revision"}), type)
  BY <1>1, <1>2, Lists1 DEF Integral
<1>4. Keyed(Llx(<<"address">>), Vals({"address"}), type)
  BY <1>1, <1>2, Lists1 DEF Integral
<1>5. Keyed(Llu(<<"revision">>) \o Llx(<<"address">>),
             Vals({"revision", "address"}), type)
  BY <1>3, <1>4, KeyedBoth DEF Vals
<1>6. Keyed(Llu(<<"size">>), Vals({"size"}), type)
  BY <1>1, <1>2, Lists1 DEF Integral
<1>7. Keyed(Llu(<<"revision">>) \o Llx(<<"address">>) \o Llu(<<"size">>),
             Vals({"revision", "address", "size"}), type)
  BY <1>5, <1>6, KeyedBoth DEF Vals
<1>8. Keyed(Str(<<"path", "string">>), Vals({"path", "string"}), type)
  BY <1>1, <1>2, Lists2 DEF Integral
<1>9. Keyed(Llu(<<"revision">>) \o Llx(<<"address">>) \o Llu(<<"size">>) \o Str(<<"path", "string">>),
             Vals({"revision", "address", "size", "path", "string"}), type)
  BY <1>7, <1>8, KeyedBoth DEF Vals
<1>10. Keyed(Uint(<<"media_type">>), Vals({"media_type"}), type)
  BY <1>1, <1>2, Lists1 DEF Integral
<1>11. Keyed(Llu(<<"revision">>) \o Llx(<<"address">>) \o Llu(<<"size">>) \o Str(<<"path", "string">>) \o
         Uint(<<"media_type">>),
             Vals({"revision", "address", "size", "path", "string", "media_type"}), type)
  BY <1>9, <1>10, KeyedBoth DEF Vals
<1>12. Keyed(Name("media_type"), {<<"media_type", "name">>}, type)
  BY <1>1, <1>2, NamedTable, ListsName DEF Integral
<1>13. Keyed(Llu(<<"revision">>) \o Llx(<<"address">>) \o Llu(<<"size">>) \o Str(<<"path", "string">>) \o
         Uint(<<"media_type">>) \o Name("media_type"),
             Vals({"revision", "address", "size", "path", "string", "media_type"}) \cup {<<"media_type", "name">>},
                 type)
  BY <1>11, <1>12, KeyedBoth DEF Vals
<1>14. Keyed(Hex(<<"unused", "tftp_ip">>), Vals({"unused", "tftp_ip"}), type)
  BY <1>1, <1>2, Lists2 DEF Integral
<1>15. Keyed(Llu(<<"revision">>) \o Llx(<<"address">>) \o Llu(<<"size">>) \o Str(<<"path", "string">>) \o
         Uint(<<"media_type">>) \o Name("media_type") \o Hex(<<"unused", "tftp_ip">>),
             Vals({"revision", "address", "size", "path", "string", "media_type", "unused", "tftp_ip"}) \cup
                 {<<"media_type", "name">>}, type)
  BY <1>13, <1>14, KeyedBoth DEF Vals
<1>16. Keyed(Uint(<<"tftp_port", "partition_index">>), Vals({"tftp_port", "partition_index"}), type)
  BY <1>1, <1>2, Lists2 DEF Integral
<1>17. Keyed(Llu(<<"revision">>) \o Llx(<<"address">>) \o Llu(<<"size">>) \o Str(<<"path", "string">>) \o
         Uint(<<"media_type">>) \o Name("media_type") \o Hex(<<"unused", "tftp_ip">>) \o Uint(<<"tftp_port",
         "partition_index">>),
             Vals({"revision", "address", "size", "path", "string", "media_type", "unused", "tftp_ip", "tftp_port",
                 "partition_index"}) \cup {<<"media_type", "name">>}, type)
  BY <1>15, <1>16, KeyedBoth DEF Vals
<1>18. Keyed(Hex(<<"mbr_disk_id">>), Vals({"mbr_disk_id"}), type)
  BY <1>1, <1>2, Lists1 DEF Integral
<1>19. Keyed(Llu(<<"revision">>) \o Llx(<<"address">>) \o Llu(<<"size">>) \o Str(<<"path", "string">>) \o
         Uint(<<"media_type">>) \o Name("media_type") \o Hex(<<"unused", "tftp_ip">>) \o Uint(<<"tftp_port",
         "partition_index">>) \o Hex(<<"mbr_disk_id">>),
             Vals({"revision", "address", "size", "path", "string", "media_type", "unused", "tftp_ip", "tftp_port",
                 "partition_index", "mbr_disk_id"}) \cup {<<"media_type", "name">>}, type)
  BY <1>17, <1>18, KeyedBoth DEF Vals
<1>20. Keyed(<< Line("uuid", "gpt_disk_uuid"), Line("uuid", "gpt_part_uuid"), Line("uuid", "part_uuid") >>,
         Vals({"gpt_disk_uuid", "gpt_part_uuid", "part_uuid"}), type)
  BY <1>1, <1>2, KeyedUuids
<1>21. Keyed(Llu(<<"revision">>) \o Llx(<<"address">>) \o Llu(<<"size">>) \o Str(<<"path", "string">>) \o
         Uint(<<"media_type">>) \o Name("media_type") \o Hex(<<"unused", "tftp_ip">>) \o Uint(<<"tftp_port",
         "partition_index">>) \o Hex(<<"mbr_disk_id">>) \o << Line("uuid", "gpt_disk_uuid"), Line("uuid",
         "gpt_part_uuid"), Line("uuid", "part_uuid") >>,
             Vals({"revision", "address", "size", "path", "string", "media_type", "unused", "tftp_ip", "tftp_port",
                 "partition_index", "mbr_disk_id", "gpt_disk_uuid", "gpt_part_uuid", "part_uuid"}) \cup
                 {<<"media_type", "name">>}, type)
  BY <1>19, <1>20, KeyedBoth DEF Vals
<1> QED BY <1>1, <1>21 DEF type, Vals

LEMMA MemmapEntryFits ==
    Keyed(Llx(<<"base", "length">>) \o Llu(<<"type">>) \o Name("type"),
          Keys(Layout["memmap_entry"]), Layout["memmap_entry"])
<1> DEFINE type == Layout["memmap_entry"]
<1>1. /\ \A f \in {"base", "length", "type"} : type[f] = "u64"
      /\ Scalars(type) = {"base", "length", "type"}
      /\ Keys(type) = Vals({"base", "length", "type"}) \cup {<<"type", "name">>}
  BY MemmapEntryFields
<1> HIDE DEF type
<1>2. \A f \in Scalars(type) : f \in DOMAIN type
  BY DEF Scalars
<1>3. Keyed(Llx(<<"base", "length">>), Vals({"base", "length"}), type)
  BY <1>1, <1>2, Lists2 DEF Integral
<1>4. Keyed(Llu(<<"type">>), Vals({"type"}), type)
  BY <1>1, <1>2, Lists1 DEF Integral
<1>5. Keyed(Llx(<<"base", "length">>) \o Llu(<<"type">>),
             Vals({"base", "length", "type"}), type)
  BY <1>3, <1>4, KeyedBoth DEF Vals
<1>6. Keyed(Name("type"), {<<"type", "name">>}, type)
  BY <1>1, <1>2, NamedTable, ListsName DEF Integral
<1>7. Keyed(Llx(<<"base", "length">>) \o Llu(<<"type">>) \o Name("type"),
             Vals({"base", "length", "type"}) \cup {<<"type", "name">>}, type)
  BY <1>5, <1>6, KeyedBoth DEF Vals
<1> QED BY <1>1, <1>7 DEF type, Vals

LEMMA MpInfoFits ==
    Keyed(Uint(<<"processor_id", "lapic_id">>) \o Llx(<<"reserved", "goto_address", "extra_argument">>),
          Keys(Layout["mp_info"]), Layout["mp_info"])
<1> DEFINE type == Layout["mp_info"]
<1>1. /\ \A f \in {"processor_id", "lapic_id"} : type[f] = "u32"
      /\ \A f \in {"reserved", "goto_address", "extra_argument"} : type[f] = "u64"
      /\ Scalars(type) = {"processor_id", "lapic_id", "reserved", "goto_address", "extra_argument"}
      /\ Keys(type) = Vals({"processor_id", "lapic_id", "reserved", "goto_address", "extra_argument"})
  BY MpInfoFields
<1> HIDE DEF type
<1>2. \A f \in Scalars(type) : f \in DOMAIN type
  BY DEF Scalars
<1>3. Keyed(Uint(<<"processor_id", "lapic_id">>), Vals({"processor_id", "lapic_id"}), type)
  BY <1>1, <1>2, Lists2 DEF Integral
<1>4. Keyed(Llx(<<"reserved", "goto_address", "extra_argument">>), Vals({"reserved", "goto_address",
        "extra_argument"}), type)
  BY <1>1, <1>2, Lists3 DEF Integral
<1>5. Keyed(Uint(<<"processor_id", "lapic_id">>) \o Llx(<<"reserved", "goto_address", "extra_argument">>),
             Vals({"processor_id", "lapic_id", "reserved", "goto_address", "extra_argument"}), type)
  BY <1>3, <1>4, KeyedBoth DEF Vals
<1> QED BY <1>1, <1>5 DEF type, Vals

LEMMA ScreenFits ==
    Keyed(Llx(<<"address">>) \o Llu(<<"width", "height", "pitch">>) \o PixelLines \o Llu(<<"edid_size">>) \o
        Llx(<<"edid">>) \o Llu(<<"mode_count">>),
          Keys(Layout["screen"]), Layout["screen"])
<1> DEFINE type == Layout["screen"]
<1>1. /\ \A f \in {"address", "width", "height", "pitch", "edid_size", "edid", "mode_count"} : type[f] = "u64"
      /\ \A f \in {"bpp"} : type[f] = "u16"
      /\ \A f \in {"memory_model", "red_mask_size", "red_mask_shift", "green_mask_size", "green_mask_shift",
           "blue_mask_size", "blue_mask_shift"} : type[f] = "u8"
      /\ Scalars(type) = {"address", "width", "height", "pitch", "edid_size", "edid", "mode_count", "bpp",
           "memory_model", "red_mask_size", "red_mask_shift", "green_mask_size", "green_mask_shift",
           "blue_mask_size", "blue_mask_shift"}
      /\ Keys(type) = Vals({"address", "width", "height", "pitch", "edid_size", "edid", "mode_count", "bpp",
           "memory_model", "red_mask_size", "red_mask_shift", "green_mask_size", "green_mask_shift",
           "blue_mask_size", "blue_mask_shift"}) \cup {<<"memory_model", "name">>}
  BY ScreenFields
<1> HIDE DEF type
<1>2. \A f \in Scalars(type) : f \in DOMAIN type
  BY DEF Scalars
<1>3. Keyed(Llx(<<"address">>), Vals({"address"}), type)
  BY <1>1, <1>2, Lists1 DEF Integral
<1>4. Keyed(Llu(<<"width", "height", "pitch">>), Vals({"width", "height", "pitch"}), type)
  BY <1>1, <1>2, Lists3 DEF Integral
<1>5. Keyed(Llx(<<"address">>) \o Llu(<<"width", "height", "pitch">>),
             Vals({"address", "width", "height", "pitch"}), type)
  BY <1>3, <1>4, KeyedBoth DEF Vals
<1>6. Keyed(PixelLines, Vals({"bpp", "memory_model", "red_mask_size", "red_mask_shift", "green_mask_size",
        "green_mask_shift", "blue_mask_size", "blue_mask_shift"}) \cup {<<"memory_model", "name">>}, type)
  BY <1>1, <1>2, PixelFits DEF Masks
<1>7. Keyed(Llx(<<"address">>) \o Llu(<<"width", "height", "pitch">>) \o PixelLines,
             Vals({"address", "width", "height", "pitch", "bpp", "memory_model", "red_mask_size", "red_mask_shift",
                 "green_mask_size", "green_mask_shift", "blue_mask_size", "blue_mask_shift"}) \cup
                 {<<"memory_model", "name">>}, type)
  BY <1>5, <1>6, KeyedBoth DEF Vals
<1>8. Keyed(Llu(<<"edid_size">>), Vals({"edid_size"}), type)
  BY <1>1, <1>2, Lists1 DEF Integral
<1>9. Keyed(Llx(<<"address">>) \o Llu(<<"width", "height", "pitch">>) \o PixelLines \o Llu(<<"edid_size">>),
             Vals({"address", "width", "height", "pitch", "bpp", "memory_model", "red_mask_size", "red_mask_shift",
                 "green_mask_size", "green_mask_shift", "blue_mask_size", "blue_mask_shift", "edid_size"}) \cup
                 {<<"memory_model", "name">>}, type)
  BY <1>7, <1>8, KeyedBoth DEF Vals
<1>10. Keyed(Llx(<<"edid">>), Vals({"edid"}), type)
  BY <1>1, <1>2, Lists1 DEF Integral
<1>11. Keyed(Llx(<<"address">>) \o Llu(<<"width", "height", "pitch">>) \o PixelLines \o Llu(<<"edid_size">>) \o
         Llx(<<"edid">>),
             Vals({"address", "width", "height", "pitch", "bpp", "memory_model", "red_mask_size", "red_mask_shift",
                 "green_mask_size", "green_mask_shift", "blue_mask_size", "blue_mask_shift", "edid_size",
                 "edid"}) \cup {<<"memory_model", "name">>}, type)
  BY <1>9, <1>10, KeyedBoth DEF Vals
<1>12. Keyed(Llu(<<"mode_count">>), Vals({"mode_count"}), type)
  BY <1>1, <1>2, Lists1 DEF Integral
<1>13. Keyed(Llx(<<"address">>) \o Llu(<<"width", "height", "pitch">>) \o PixelLines \o Llu(<<"edid_size">>) \o
         Llx(<<"edid">>) \o Llu(<<"mode_count">>),
             Vals({"address", "width", "height", "pitch", "bpp", "memory_model", "red_mask_size", "red_mask_shift",
                 "green_mask_size", "green_mask_shift", "blue_mask_size", "blue_mask_shift", "edid_size", "edid",
                 "mode_count"}) \cup {<<"memory_model", "name">>}, type)
  BY <1>11, <1>12, KeyedBoth DEF Vals
<1> QED BY <1>1, <1>13 DEF type, Vals

LEMMA ModeFits == Keyed(Llu(<<"pitch", "width", "height">>) \o PixelLines, Keys(Layout["mode"]), Layout["mode"])
<1> DEFINE type == Layout["mode"]
<1>1. /\ \A f \in {"pitch", "width", "height"} : type[f] = "u64"
      /\ \A f \in {"bpp"} : type[f] = "u16"
      /\ \A f \in {"memory_model", "red_mask_size", "red_mask_shift", "green_mask_size", "green_mask_shift",
           "blue_mask_size", "blue_mask_shift"} : type[f] = "u8"
      /\ Scalars(type) = {"pitch", "width", "height", "bpp", "memory_model", "red_mask_size", "red_mask_shift",
           "green_mask_size", "green_mask_shift", "blue_mask_size", "blue_mask_shift"}
      /\ Keys(type) = Vals({"pitch", "width", "height", "bpp", "memory_model", "red_mask_size", "red_mask_shift",
           "green_mask_size", "green_mask_shift", "blue_mask_size", "blue_mask_shift"}) \cup {<<"memory_model",
           "name">>}
  BY ModeFields
<1> HIDE DEF type
<1>2. \A f \in Scalars(type) : f \in DOMAIN type
  BY DEF Scalars
<1>3. Keyed(Llu(<<"pitch", "width", "height">>), Vals({"pitch", "width", "height"}), type)
  BY <1>1, <1>2, Lists3 DEF Integral
<1>4. Keyed(PixelLines, Vals({"bpp", "memory_model", "red_mask_size", "red_mask_shift", "green_mask_size",
        "green_mask_shift", "blue_mask_size", "blue_mask_shift"}) \cup {<<"memory_model", "name">>}, type)
  BY <1>1, <1>2, PixelFits DEF Masks
<1>5. Keyed(Llu(<<"pitch", "width", "height">>) \o PixelLines,
             Vals({"pitch", "width", "height", "bpp", "memory_model", "red_mask_size", "red_mask_shift",
                 "green_mask_size", "green_mask_shift", "blue_mask_size", "blue_mask_shift"}) \cup
                 {<<"memory_model", "name">>}, type)
  BY <1>3, <1>4, KeyedBoth DEF Vals
<1> QED BY <1>1, <1>5 DEF type, Vals

-----------------------------------------------------------------------------
(* Descriptions, with the line of the revision put first. *)
Headed(d) == [d EXCEPT !.own = Llu(<<"revision">>) \o @]

LEMMA FlatFits ==
    ASSUME NEW own, NEW s, Keyed(own, Keys(Layout[s]), Layout[s]), Others(Layout[s]) = {}
    PROVE  Level0(Flat(own), s) /\ Level1(Flat(own), s) /\ Level2(Flat(own), s)
<1>1. Flat(own).own = own /\ Flat(own).nest.how = "none"
  BY DEF Flat
<1> QED BY <1>1 DEF Level0, Level1, Level2, NestFits

LEMMA NestedFits ==
    ASSUME NEW d, NEW s, Keyed(d.own, Keys(Layout[s]), Layout[s]), NestFits(d.nest, Layout[s])
    PROVE  /\ Level0(d.nest.of, Pointee(d.nest, Layout[s])) => Level1(d, s)
           /\ Level1(d.nest.of, Pointee(d.nest, Layout[s])) => Level2(d, s)
BY DEF Level1, Level2

LEMMA FlatSection ==
    ASSUME NEW own, NEW s, Keyed(Llu(<<"revision">>) \o own, Keys(Layout[s]), Layout[s]), Others(Layout[s]) = {}
    PROVE  Level2(Headed(Flat(own)), s)
<1> DEFINE d == Headed(Flat(own))
<1>1. d.own = Llu(<<"revision">>) \o own /\ d.nest.how = "none"
  BY DEF Headed, Flat
<1> HIDE DEF d
<1>2. Level2(d, s)
  BY <1>1 DEF Level2, NestFits
<1> QED BY <1>2 DEF d

LEMMA NestSection ==
    ASSUME NEW own, NEW s, Keyed(Llu(<<"revision">>) \o own, Keys(Layout[s]), Layout[s]),
           NEW f, Others(Layout[s]) = {f}, NEW of
    PROVE  /\ Layout[s][f] = "file" /\ Level1(of, "file") => Level2(Headed(Pointed(own, f, of)), s)
           /\ /\ Layout[s][f] \in DOMAIN Element /\ Level1(of, Element[Layout[s][f]])
              /\ CountOf[f] \in DOMAIN Layout[s] /\ Layout[s][CountOf[f]] \in Integral
              => Level2(Headed(Each(own, f, of)), s)
<1> DEFINE p == Headed(Pointed(own, f, of))
           e == Headed(Each(own, f, of))
<1>1. /\ p.own = Llu(<<"revision">>) \o own
      /\ p.nest.how = "pointed" /\ p.nest.field = f /\ p.nest.of = of
  BY DEF Headed, Pointed
<1>2. /\ e.own = Llu(<<"revision">>) \o own
      /\ e.nest.how = "each" /\ e.nest.field = f /\ e.nest.of = of
  BY DEF Headed, Each
<1> HIDE DEF p, e
<1>3. ASSUME Layout[s][f] = "file" /\ Level1(of, "file") PROVE Level2(p, s)
  <2>1. NestFits(p.nest, Layout[s])
    BY <1>1, <1>3 DEF NestFits
  <2>2. Pointee(p.nest, Layout[s]) = "file"
    BY <1>1 DEF Pointee
  <2> QED BY <1>1, <1>3, <2>1, <2>2 DEF Level2
<1>4. ASSUME Layout[s][f] \in DOMAIN Element /\ Level1(of, Element[Layout[s][f]]),
             CountOf[f] \in DOMAIN Layout[s] /\ Layout[s][CountOf[f]] \in Integral
      PROVE  Level2(e, s)
  <2>1. NestFits(e.nest, Layout[s])
    BY <1>2, <1>4 DEF NestFits
  <2>2. Pointee(e.nest, Layout[s]) = Element[Layout[s][f]]
    BY <1>2 DEF Pointee
  <2> QED BY <1>2, <1>4, <2>1, <2>2 DEF Level2
<1> QED BY <1>3, <1>4 DEF p, e

(* What the arrays and pointers lead to. *)
LEMMA ItemFits ==
    /\ Level1(print_limine_file, "file") /\ Level1(EntryLines, "memmap_entry") /\ Level1(CpuLines, "mp_info")
    /\ Level1(ScreenLines, "screen")
<1>1. Level1(print_limine_file, "file")
  <2> DEFINE own == print_limine_file.own
  <2>1. print_limine_file = Flat(own)
    BY DEF print_limine_file, Flat
  <2>2. Keyed(own, Keys(Layout["file"]), Layout["file"])
    BY FileFits DEF print_limine_file, Flat
  <2>3. Others(Layout["file"]) = {}
    BY FileFields
  <2> HIDE DEF own
  <2> QED BY <2>1, <2>2, <2>3, FlatFits
<1>2. Level1(EntryLines, "memmap_entry")
  BY MemmapEntryFits, MemmapEntryFields, FlatFits DEF EntryLines
<1>3. Level1(CpuLines, "mp_info")
  BY MpInfoFits, MpInfoFields, FlatFits DEF CpuLines
<1>4. Level0(ModeLines, "mode")
  BY ModeFits, ModeFields, FlatFits DEF ModeLines
<1>5. Level1(ScreenLines, "screen")
  <2> DEFINE type == Layout["screen"]
  <2>1. /\ Keyed(ScreenLines.own, Keys(type), type)
        /\ ScreenLines.nest.how = "each" /\ ScreenLines.nest.field = "modes" /\ ScreenLines.nest.of = ModeLines
    BY ScreenFits DEF ScreenLines, Each
  <2>2. Others(type) = {"modes"} /\ type["modes"] = "modes" /\ "mode_count" \in DOMAIN type /\
          type["mode_count"] = "u64"
    BY ScreenFields DEF Scalars
  <2> HIDE DEF type
  <2>3. NestFits(ScreenLines.nest, type)
    BY <2>1, <2>2, ElementTable, CountTable DEF NestFits, Integral
  <2>4. Pointee(ScreenLines.nest, type) = "mode"
    BY <2>1, <2>2, ElementTable DEF Pointee
  <2> QED BY <1>4, <2>1, <2>3, <2>4, NestedFits DEF type
<1> QED BY <1>1, <1>2, <1>3, <1>5

-----------------------------------------------------------------------------
(* The sections of the report: which requests they are of, each once. *)
SectionsFit(S, R) ==
    /\ IsSeq(S) /\ Once([n \in DOMAIN S |-> S[n][1]], Len(S), R)
    /\ \A n \in DOMAIN S : Level2(Headed(S[n][2]), S[n][1])

LEMMA SectionsBoth ==
    ASSUME NEW S, NEW T, NEW Q, NEW R, SectionsFit(S, Q), SectionsFit(T, R), Q \cap R = {}
    PROVE  SectionsFit(S \o T, Q \cup R)
<1> DEFINE U == S \o T
           a == Len(S)
           b == Len(T)
           p == [n \in DOMAIN S |-> S[n][1]]
           q == [n \in DOMAIN T |-> T[n][1]]
           r == [n \in DOMAIN U |-> U[n][1]]
<1>1. /\ IsSeq(U) /\ a \in Nat /\ b \in Nat
      /\ DOMAIN S = 1 .. a /\ DOMAIN T = 1 .. b /\ DOMAIN U = 1 .. a + b
      /\ \A j \in 1 .. a : U[j] = S[j]
      /\ \A j \in 1 .. b : U[a + j] = T[j]
  BY Joined DEF SectionsFit
<1>2. Once(p, a, Q) /\ Once(q, b, R)
  BY DEF SectionsFit
<1> HIDE DEF U, a, b
<1>3. \A j \in 1 .. a : r[j] = p[j]
  BY <1>1
<1>4. \A j \in 1 .. b : r[a + j] = q[j]
  BY <1>1
<1>5. Len(U) = a + b
  BY <1>1, SeqDomain
<1> HIDE DEF p, q, r
<1>6. Once(r, a + b, Q \cup R)
  BY <1>1, <1>2, <1>3, <1>4, OnceBoth
<1>7. ASSUME NEW n \in DOMAIN U PROVE Level2(Headed(U[n][2]), U[n][1])
  <2>1. CASE n <= a
    <3>1. n \in DOMAIN S /\ U[n] = S[n]
      BY <1>1, <2>1
    <3> QED BY <3>1 DEF SectionsFit
  <2>2. CASE ~ (n <= a)
    <3>1. n - a \in 1 .. b /\ a + (n - a) = n
      BY <1>1, <2>2
    <3>2. n - a \in DOMAIN T /\ U[n] = T[n - a]
      BY <1>1, <3>1
    <3> QED BY <3>2 DEF SectionsFit
  <2> QED BY <2>1, <2>2
<1> QED BY <1>1, <1>5, <1>6, <1>7 DEF SectionsFit, r, U

-----------------------------------------------------------------------------
(* The sections: their lines and what those lead to fit the answers. *)
LEMMA HhdmSection == Level2(Headed(Flat(Llx(<<"offset">>))), "hhdm")
<1>1. Others(Layout["hhdm"]) = {}
  BY HhdmFields
<1> QED BY <1>1, HhdmFits, FlatSection

LEMMA BootloaderInfoSection == Level2(Headed(Flat(Str(<<"name", "version">>))), "bootloader_info")
<1>1. Others(Layout["bootloader_info"]) = {}
  BY BootloaderInfoFields
<1> QED BY <1>1, BootloaderInfoFits, FlatSection

LEMMA CmdlineSection == Level2(Headed(Flat(Str(<<"cmdline">>))), "cmdline")
<1>1. Others(Layout["cmdline"]) = {}
  BY CmdlineFields
<1> QED BY <1>1, CmdlineFits, FlatSection

LEMMA FirmwareTypeSection == Level2(Headed(Flat(Llu(<<"firmware_type">>) \o Name("firmware_type"))), "firmware_type")
<1>1. Others(Layout["firmware_type"]) = {}
  BY FirmwareTypeFields
<1> QED BY <1>1, FirmwareTypeFits, FlatSection

LEMMA StackSizeSection == Level2(Headed(Flat(<<>>)), "stack_size")
<1>1. Others(Layout["stack_size"]) = {}
  BY StackSizeFields
<1> QED BY <1>1, StackSizeFits, FlatSection

LEMMA PagingModeSection == Level2(Headed(Flat(Llu(<<"mode">>) \o Name("mode"))), "paging_mode")
<1>1. Others(Layout["paging_mode"]) = {}
  BY PagingModeFields
<1> QED BY <1>1, PagingModeFits, FlatSection

LEMMA EntryPointSection == Level2(Headed(Flat(<<>>)), "entry_point")
<1>1. Others(Layout["entry_point"]) = {}
  BY EntryPointFields
<1> QED BY <1>1, EntryPointFits, FlatSection

LEMMA KernelSection == Level2(Headed(Pointed(<<>>, "executable_file", print_limine_file)), "kernel")
<1> DEFINE type == Layout["kernel"]
<1>1. Others(type) = {"executable_file"} /\ type["executable_file"] = "file"
  BY KernelFields
<1>2. Level1(print_limine_file, "file")
  BY ItemFits
<1> QED BY <1>1, <1>2, KernelFits, NestSection

LEMMA ModuleSection ==
    Level2(Headed(Each(Llu(<<"module_count">>), "modules", print_limine_file_indexed)), "module")
<1> DEFINE type == Layout["module"]
<1>1. /\ Others(type) = {"modules"} /\ type["modules"] = "files"
      /\ "module_count" \in DOMAIN type /\ type["module_count"] = "u64"
  BY ModuleFields DEF Scalars
<1>3. /\ type["modules"] \in DOMAIN Element /\ Element[type["modules"]] = "file"
      /\ CountOf["modules"] = "module_count" /\ type["module_count"] \in Integral
  BY <1>1, ElementTable, CountTable DEF Integral
<1>2. Level1(print_limine_file_indexed, "file")
  BY ItemFits DEF print_limine_file_indexed
<1> QED BY <1>1, <1>2, <1>3, ModuleFits, NestSection

LEMMA SmbiosSection == Level2(Headed(Flat(Llx(<<"entry_32", "entry_64">>))), "smbios")
<1>1. Others(Layout["smbios"]) = {}
  BY SmbiosFields
<1> QED BY <1>1, SmbiosFits, FlatSection

LEMMA EfiSystemTableSection == Level2(Headed(Flat(Llx(<<"address">>))), "efi_system_table")
<1>1. Others(Layout["efi_system_table"]) = {}
  BY EfiSystemTableFields
<1> QED BY <1>1, EfiSystemTableFits, FlatSection

LEMMA EfiMemmapSection ==
    Level2(Headed(Flat(Llx(<<"memmap">>) \o Llu(<<"memmap_size", "desc_size", "desc_version">>))), "efi_memmap")
<1>1. Others(Layout["efi_memmap"]) = {}
  BY EfiMemmapFields
<1> QED BY <1>1, EfiMemmapFits, FlatSection

LEMMA BootDateSection == Level2(Headed(Flat(<< Line("signed", "timestamp") >>)), "boot_date")
<1>1. Others(Layout["boot_date"]) = {}
  BY BootDateFields
<1> QED BY <1>1, BootDateFits, FlatSection

LEMMA DeviceTreeBlobSection == Level2(Headed(Flat(Llx(<<"dtb_ptr">>))), "device_tree_blob")
<1>1. Others(Layout["device_tree_blob"]) = {}
  BY DeviceTreeBlobFields
<1> QED BY <1>1, DeviceTreeBlobFits, FlatSection

LEMMA RiscvBspHartidSection == Level2(Headed(Flat(Llu(<<"bsp_hartid">>))), "riscv_bsp_hartid")
<1>1. Others(Layout["riscv_bsp_hartid"]) = {}
  BY RiscvBspHartidFields
<1> QED BY <1>1, RiscvBspHartidFits, FlatSection

LEMMA PerformanceSection == Level2(Headed(Flat(Llu(<<"reset_usec", "init_usec", "exec_usec">>))), "performance")
<1>1. Others(Layout["performance"]) = {}
  BY PerformanceFields
<1> QED BY <1>1, PerformanceFits, FlatSection

LEMMA KernelAddressSection == Level2(Headed(Flat(Llx(<<"physical_base", "virtual_base">>))), "kernel_address")
<1>1. Others(Layout["kernel_address"]) = {}
  BY KernelAddressFields
<1> QED BY <1>1, KernelAddressFits, FlatSection

LEMMA MemmapSection == Level2(Headed(Each(Llu(<<"entry_count">>), "entries", EntryLines)), "memmap")
<1> DEFINE type == Layout["memmap"]
<1>1. /\ Others(type) = {"entries"} /\ type["entries"] = "memmap_entries"
      /\ "entry_count" \in DOMAIN type /\ type["entry_count"] = "u64"
  BY MemmapFields DEF Scalars
<1>3. /\ type["entries"] \in DOMAIN Element /\ Element[type["entries"]] = "memmap_entry"
      /\ CountOf["entries"] = "entry_count" /\ type["entry_count"] \in Integral
  BY <1>1, ElementTable, CountTable DEF Integral
<1>2. Level1(EntryLines, "memmap_entry")
  BY ItemFits
<1> QED BY <1>1, <1>2, <1>3, MemmapFits, NestSection

LEMMA AcpiSection == Level2(Headed(Flat(Llx(<<"address">>))), "acpi")
<1>1. Others(Layout["acpi"]) = {}
  BY AcpiFields
<1> QED BY <1>1, AcpiFits, FlatSection

LEMMA SmpSection ==
    Level2(Headed(Each(Hex(<<"flags">>) \o << Line("x2apic", "flags") >> \o Uint(<<"bsp_lapic_id">>) \o
        Llu(<<"cpu_count">>), "cpus", CpuLines)), "smp")
<1> DEFINE type == Layout["smp"]
<1>1. /\ Others(type) = {"cpus"} /\ type["cpus"] = "mp_infos"
      /\ "cpu_count" \in DOMAIN type /\ type["cpu_count"] = "u64"
  BY SmpFields DEF Scalars
<1>3. /\ type["cpus"] \in DOMAIN Element /\ Element[type["cpus"]] = "mp_info"
      /\ CountOf["cpus"] = "cpu_count" /\ type["cpu_count"] \in Integral
  BY <1>1, ElementTable, CountTable DEF Integral
<1>2. Level1(CpuLines, "mp_info")
  BY ItemFits
<1> QED BY <1>1, <1>2, <1>3, SmpFits, NestSection

LEMMA FramebufferSection ==
    Level2(Headed(Each(Llu(<<"framebuffer_count">>), "framebuffers", ScreenLines)), "framebuffer")
<1> DEFINE type == Layout["framebuffer"]
<1>1. /\ Others(type) = {"framebuffers"} /\ type["framebuffers"] = "screens"
      /\ "framebuffer_count" \in DOMAIN type /\ type["framebuffer_count"] = "u64"
  BY FramebufferFields DEF Scalars
<1>3. /\ type["framebuffers"] \in DOMAIN Element /\ Element[type["framebuffers"]] = "screen"
      /\ CountOf["framebuffers"] = "framebuffer_count" /\ type["framebuffer_count"] \in Integral
  BY <1>1, ElementTable, CountTable DEF Integral
<1>2. Level1(ScreenLines, "screen")
  BY ItemFits
<1> QED BY <1>1, <1>2, <1>3, FramebufferFits, NestSection

LEMMA LoaderSectionsFit == SectionsFit(LoaderSections, {"hhdm", "bootloader_info", "cmdline", "firmware_type",
    "stack_size", "paging_mode", "entry_point"})
<1> DEFINE L == LoaderSections
           names == [n \in DOMAIN L |-> L[n][1]]
           A == {L[1], L[2], L[3], L[4], L[5], L[6], L[7]}
<1>1. /\ L[1] = <<"hhdm", Flat(Llx(<<"offset">>))>>
      /\ L[2] = <<"bootloader_info", Flat(Str(<<"name", "version">>))>>
      /\ L[3] = <<"cmdline", Flat(Str(<<"cmdline">>))>>
      /\ L[4] = <<"firmware_type", Flat(Llu(<<"firmware_type">>) \o Name("firmware_type"))>>
      /\ L[5] = <<"stack_size", Flat(<<>>)>>
      /\ L[6] = <<"paging_mode", Flat(Llu(<<"mode">>) \o Name("mode"))>>
      /\ L[7] = <<"entry_point", Flat(<<>>)>>
  BY DEF LoaderSections
<1>2. L \in [1 .. 7 -> A]
  BY DEF LoaderSections
<1> HIDE DEF L, A
<1>3. IsSeq(L) /\ Len(L) = 7 /\ DOMAIN L = 1 .. 7
  BY <1>2, FunctionSeq, SomeSeq
<1>4. /\ names[1] = "hhdm"
      /\ names[2] = "bootloader_info"
      /\ names[3] = "cmdline"
      /\ names[4] = "firmware_type"
      /\ names[5] = "stack_size"
      /\ names[6] = "paging_mode"
      /\ names[7] = "entry_point"
  BY <1>1, <1>3
<1>5. Once(names, Len(L), {"hhdm", "bootloader_info", "cmdline", "firmware_type", "stack_size", "paging_mode",
        "entry_point"})
  <2> HIDE DEF names
  <2> QED BY <1>3, <1>4 DEF Once
<1>6. \A n \in DOMAIN L : Level2(Headed(L[n][2]), L[n][1])
  <2>1. Level2(Headed(L[1][2]), L[1][1])
    BY <1>1, HhdmSection
  <2>2. Level2(Headed(L[2][2]), L[2][1])
    BY <1>1, BootloaderInfoSection
  <2>3. Level2(Headed(L[3][2]), L[3][1])
    BY <1>1, CmdlineSection
  <2>4. Level2(Headed(L[4][2]), L[4][1])
    BY <1>1, FirmwareTypeSection
  <2>5. Level2(Headed(L[5][2]), L[5][1])
    BY <1>1, StackSizeSection
  <2>6. Level2(Headed(L[6][2]), L[6][1])
    BY <1>1, PagingModeSection
  <2>7. Level2(Headed(L[7][2]), L[7][1])
    BY <1>1, EntryPointSection
  <2> QED BY <1>3, <2>1, <2>2, <2>3, <2>4, <2>5, <2>6, <2>7
<1> QED BY <1>3, <1>5, <1>6 DEF SectionsFit, L, names

LEMMA FileSectionsFit == SectionsFit(FileSections, {"kernel", "module"})
<1> DEFINE L == FileSections
           names == [n \in DOMAIN L |-> L[n][1]]
           A == {L[1], L[2]}
<1>1. /\ L[1] = <<"kernel", Pointed(<<>>, "executable_file", print_limine_file)>>
      /\ L[2] = <<"module", Each(Llu(<<"module_count">>), "modules", print_limine_file_indexed)>>
  BY DEF FileSections
<1>2. L \in [1 .. 2 -> A]
  BY DEF FileSections
<1> HIDE DEF L, A
<1>3. IsSeq(L) /\ Len(L) = 2 /\ DOMAIN L = 1 .. 2
  BY <1>2, FunctionSeq, SomeSeq
<1>4. /\ names[1] = "kernel"
      /\ names[2] = "module"
  BY <1>1, <1>3
<1>5. Once(names, Len(L), {"kernel", "module"})
  <2> HIDE DEF names
  <2> QED BY <1>3, <1>4 DEF Once
<1>6. \A n \in DOMAIN L : Level2(Headed(L[n][2]), L[n][1])
  <2>1. Level2(Headed(L[1][2]), L[1][1])
    BY <1>1, KernelSection
  <2>2. Level2(Headed(L[2][2]), L[2][1])
    BY <1>1, ModuleSection
  <2> QED BY <1>3, <2>1, <2>2
<1> QED BY <1>3, <1>5, <1>6 DEF SectionsFit, L, names

LEMMA FirmwareSectionsFit == SectionsFit(FirmwareSections, {"smbios", "efi_system_table", "efi_memmap",
    "boot_date", "device_tree_blob", "riscv_bsp_hartid", "performance"})
<1> DEFINE L == FirmwareSections
           names == [n \in DOMAIN L |-> L[n][1]]
           A == {L[1], L[2], L[3], L[4], L[5], L[6], L[7]}
<1>1. /\ L[1] = <<"smbios", Flat(Llx(<<"entry_32", "entry_64">>))>>
      /\ L[2] = <<"efi_system_table", Flat(Llx(<<"address">>))>>
      /\ L[3] = <<"efi_memmap", Flat(Llx(<<"memmap">>) \o Llu(<<"memmap_size", "desc_size", "desc_version">>))>>
      /\ L[4] = <<"boot_date", Flat(<< Line("signed", "timestamp") >>)>>
      /\ L[5] = <<"device_tree_blob", Flat(Llx(<<"dtb_ptr">>))>>
      /\ L[6] = <<"riscv_bsp_hartid", Flat(Llu(<<"bsp_hartid">>))>>
      /\ L[7] = <<"performance", Flat(Llu(<<"reset_usec", "init_usec", "exec_usec">>))>>
  BY DEF FirmwareSections
<1>2. L \in [1 .. 7 -> A]
  BY DEF FirmwareSections
<1> HIDE DEF L, A
<1>3. IsSeq(L) /\ Len(L) = 7 /\ DOMAIN L = 1 .. 7
  BY <1>2, FunctionSeq, SomeSeq
<1>4. /\ names[1] = "smbios"
      /\ names[2] = "efi_system_table"
      /\ names[3] = "efi_memmap"
      /\ names[4] = "boot_date"
      /\ names[5] = "device_tree_blob"
      /\ names[6] = "riscv_bsp_hartid"
      /\ names[7] = "performance"
  BY <1>1, <1>3
<1>5. Once(names, Len(L), {"smbios", "efi_system_table", "efi_memmap", "boot_date", "device_tree_blob",
        "riscv_bsp_hartid", "performance"})
  <2> HIDE DEF names
  <2> QED BY <1>3, <1>4 DEF Once
<1>6. \A n \in DOMAIN L : Level2(Headed(L[n][2]), L[n][1])
  <2>1. Level2(Headed(L[1][2]), L[1][1])
    BY <1>1, SmbiosSection
  <2>2. Level2(Headed(L[2][2]), L[2][1])
    BY <1>1, EfiSystemTableSection
  <2>3. Level2(Headed(L[3][2]), L[3][1])
    BY <1>1, EfiMemmapSection
  <2>4. Level2(Headed(L[4][2]), L[4][1])
    BY <1>1, BootDateSection
  <2>5. Level2(Headed(L[5][2]), L[5][1])
    BY <1>1, DeviceTreeBlobSection
  <2>6. Level2(Headed(L[6][2]), L[6][1])
    BY <1>1, RiscvBspHartidSection
  <2>7. Level2(Headed(L[7][2]), L[7][1])
    BY <1>1, PerformanceSection
  <2> QED BY <1>3, <2>1, <2>2, <2>3, <2>4, <2>5, <2>6, <2>7
<1> QED BY <1>3, <1>5, <1>6 DEF SectionsFit, L, names

LEMMA MachineSectionsFit == SectionsFit(MachineSections, {"kernel_address", "memmap", "acpi", "smp"})
<1> DEFINE L == MachineSections
           names == [n \in DOMAIN L |-> L[n][1]]
           A == {L[1], L[2], L[3], L[4]}
<1>1. /\ L[1] = <<"kernel_address", Flat(Llx(<<"physical_base", "virtual_base">>))>>
      /\ L[2] = <<"memmap", Each(Llu(<<"entry_count">>), "entries", EntryLines)>>
      /\ L[3] = <<"acpi", Flat(Llx(<<"address">>))>>
      /\ L[4] = <<"smp", Each(Hex(<<"flags">>) \o << Line("x2apic", "flags") >> \o Uint(<<"bsp_lapic_id">>) \o
           Llu(<<"cpu_count">>), "cpus", CpuLines)>>
  BY DEF MachineSections
<1>2. L \in [1 .. 4 -> A]
  BY DEF MachineSections
<1> HIDE DEF L, A
<1>3. IsSeq(L) /\ Len(L) = 4 /\ DOMAIN L = 1 .. 4
  BY <1>2, FunctionSeq, SomeSeq
<1>4. /\ names[1] = "kernel_address"
      /\ names[2] = "memmap"
      /\ names[3] = "acpi"
      /\ names[4] = "smp"
  BY <1>1, <1>3
<1>5. Once(names, Len(L), {"kernel_address", "memmap", "acpi", "smp"})
  <2> HIDE DEF names
  <2> QED BY <1>3, <1>4 DEF Once
<1>6. \A n \in DOMAIN L : Level2(Headed(L[n][2]), L[n][1])
  <2>1. Level2(Headed(L[1][2]), L[1][1])
    BY <1>1, KernelAddressSection
  <2>2. Level2(Headed(L[2][2]), L[2][1])
    BY <1>1, MemmapSection
  <2>3. Level2(Headed(L[3][2]), L[3][1])
    BY <1>1, AcpiSection
  <2>4. Level2(Headed(L[4][2]), L[4][1])
    BY <1>1, SmpSection
  <2> QED BY <1>3, <2>1, <2>2, <2>3, <2>4
<1> QED BY <1>3, <1>5, <1>6 DEF SectionsFit, L, names

-----------------------------------------------------------------------------
(* All sections but the screens'. *)
LEMMA AllSectionsFit == SectionsFit(Sections, Requests \ {"framebuffer"})
<1> DEFINE A == {"hhdm", "bootloader_info", "cmdline", "firmware_type", "stack_size", "paging_mode", "entry_point"}
           B == {"kernel", "module"}
           C == {"smbios", "efi_system_table", "efi_memmap", "boot_date", "device_tree_blob", "riscv_bsp_hartid",
                 "performance"}
           D == {"kernel_address", "memmap", "acpi", "smp"}
<1>1. SectionsFit(LoaderSections, A) /\ SectionsFit(FileSections, B)
  BY LoaderSectionsFit, FileSectionsFit
<1>2. SectionsFit(FirmwareSections, C) /\ SectionsFit(MachineSections, D)
  BY FirmwareSectionsFit, MachineSectionsFit
<1>3. A \cap B = {} /\ (A \cup B) \cap C = {} /\ ((A \cup B) \cup C) \cap D = {}
  OBVIOUS
<1>4. ((A \cup B) \cup C) \cup D = Requests \ {"framebuffer"}
  BY DEF Requests
<1> HIDE DEF A, B, C, D
<1>5. SectionsFit(LoaderSections \o FileSections, A \cup B)
  BY <1>1, <1>3, SectionsBoth
<1>6. SectionsFit((LoaderSections \o FileSections) \o FirmwareSections, (A \cup B) \cup C)
  BY <1>2, <1>3, <1>5, SectionsBoth
<1>7. SectionsFit(((LoaderSections \o FileSections) \o FirmwareSections) \o MachineSections, ((A \cup B) \cup C) \cup D)
  BY <1>2, <1>3, <1>6, SectionsBoth
<1> QED BY <1>4, <1>7 DEF Sections

-----------------------------------------------------------------------------
(* What the report has to say of an answer. *)
AnswerFacts(r, v) ==
    IF v = Null THEN {<< <<Single(r)>>, Word("not provided")>>}
    ELSE UNION {Facts(place) : place \in Places(r, v)}

(* The copies are those of the answers, once boot_info_init has run. *)
Held(r) == g_boot_info[r] = IF r = "hhdm" THEN response[r].offset ELSE response[r]

(* The inductive invariant: the answers are what the loader may give, the copies are
   those of the answers, and the report says what it has to of the requests
   reported so far. *)
InfoInv ==
    /\ response \in Responses
    /\ "boot_info_init" \in done => \A r \in Requests : response[r] # Null => Held(r)
    /\ Says(report, UNION {AnswerFacts(r, response[r]) : r \in Reported})

LEMMA AtRoot == ASSUME NEW x PROVE IsSeq(<<x>>) /\ Len(<<x>>) = 1 /\ <<x>>[1] = x /\ Append(<<>>, x) = <<x>>
<1>1. <<x>> \in Seq({x}) /\ Len(<<x>>) = 1 /\ <<x>>[1] = x /\ Append(<<>>, x) = <<x>>
  OBVIOUS
<1> QED BY <1>1, SomeSeq

(* A section says of its request what it has to: "not provided", or the copy, which
   is the answer, and what the copy points to. *)
LEMMA SectionSays ==
    ASSUME InfoInv, "boot_info_init" \in done, NEW r \in Requests, NEW section, section[1] = r,
           Level2(Headed(section[2]), r)
    PROVE  /\ Says(Printed(section), AnswerFacts(r, response[r]))
           /\ \A x \in AnswerFacts(r, response[r]) : x[1][1] = Single(r)
<1> DEFINE v == response[r]
           path == <<Single(r)>>
           top == <<path, r, v>>
           d == Headed(section[2])
<1>1. IsSeq(path) /\ Len(path) = 1 /\ path[1] = Single(r) /\ Append(<<>>, Single(r)) = path
  BY AtRoot
<1>2. CASE v = Null
  <2> DEFINE line == [path |-> Append(<<>>, Single(r)), text |-> Word("not provided")]
             fact == << <<Single(r)>>, Word("not provided")>>
  <2>1. Printed(section) = <<line>>
    BY <1>2 DEF Printed, At
  <2>2. Said(line) = fact
    <3>1. Word("not provided")[1] = "not provided"
      BY DEF Word
    <3>2. Read(Word("not provided")) = Word("not provided")
      BY <3>1 DEF Read
    <3> QED BY <1>1, <3>2 DEF Said
  <2>3. AnswerFacts(r, v) = {fact}
    BY <1>2 DEF AnswerFacts
  <2> HIDE DEF line
  <2>4. Says(<<line>>, {Said(line)})
    BY SaysOne
  <2>5. fact[1][1] = Single(r)
    BY <1>1
  <2> HIDE DEF fact
  <2> QED BY <2>1, <2>2, <2>3, <2>4, <2>5
<1>3. CASE v # Null
  <2>1. \A place \in Places(r, v) : Sound(place)
    BY ResponsesAssumption DEF InfoInv
  <2>2. Places(r, v) = {top} \cup Further({top}) \cup Further(Further({top}))
    BY DEF Places
  <2>3. Further({top}) = Pointees(top)
    <3>1. top[3] # Null
      BY <1>3
    <3> HIDE DEF top
    <3> QED BY <3>1 DEF Further
  <2>4. Sound(top) /\ \A q \in Pointees(top) : Sound(q) /\ (q[3] # Null => \A p \in Pointees(q) : Sound(p))
    <3> HIDE DEF top
    <3>1. \A q \in Pointees(top) : q[3] # Null => \A p \in Pointees(q) : p \in Further(Further({top}))
      BY <2>3 DEF Further
    <3> QED BY <2>1, <2>2, <2>3, <3>1
  <2>5. AnswerFacts(r, v) = Far(top)
    <3> HIDE DEF top
    <3> QED BY <1>3, <2>2 DEF AnswerFacts, Far
  <2>6. Source(r) = v
    <3>1. Held(r)
      BY <1>3 DEF InfoInv
    <3>2. CASE r = "hhdm"
      <4>1. v = [f \in DOMAIN Layout["hhdm"] |-> v[f]]
        BY <1>3, <2>4, <3>2 DEF Sound
      <4>2. Source(r) = [v EXCEPT !.offset = v.offset]
        BY <3>1, <3>2 DEF Source, Held
      <4> QED BY <4>1, <4>2
    <3>3. CASE r # "hhdm"
      BY <3>1, <3>3 DEF Source, Held
    <3> QED BY <3>2, <3>3
  <2>7. Printed(section) = AllLines(path, d, v)
    BY <1>3, <2>6 DEF Printed, Headed
  <2> HIDE DEF v, path, d
  <2>8. Says(AllLines(path, d, v), Far(top)) /\ Under(path, Far(top))
    BY <1>1, <1>3, <2>4, AllSay DEF d
  <2>9. \A x \in Far(top) : x[1][1] = Single(r)
    <3> HIDE DEF top
    <3>1. 1 \in 1 .. Len(path)
      BY <1>1
    <3> QED BY <1>1, <2>8, <3>1 DEF Under
  <2> QED BY <2>5, <2>7, <2>8, <2>9 DEF v
<1> QED BY <1>2, <1>3

(* print_framebuffer_info prints one section, *)
LEMMA ScreensSay ==
    ASSUME InfoInv, "boot_info_init" \in done
    PROVE  /\ Says(Printed(Screens), AnswerFacts("framebuffer", response["framebuffer"]))
           /\ \A x \in AnswerFacts("framebuffer", response["framebuffer"]) : x[1][1] = Single("framebuffer")
<1>1. "framebuffer" \in Requests /\ Screens[1] = "framebuffer"
  BY DEF Requests, Screens
<1>2. Level2(Headed(Screens[2]), "framebuffer")
  BY FramebufferSection DEF Screens
<1> QED BY <1>1, <1>2, SectionSays

(* print_boot_info all the others. *)
LEMMA SectionsSay ==
    ASSUME InfoInv, "boot_info_init" \in done
    PROVE  LET R == Requests \ {"framebuffer"}
           IN  /\ Says(FlattenSeq([n \in DOMAIN Sections |-> Printed(Sections[n])]),
                       UNION {AnswerFacts(r, response[r]) : r \in R})
               /\ \A r \in R : \A x \in AnswerFacts(r, response[r]) : x[1][1] = Single(r)
<1> DEFINE facts(r) == AnswerFacts(r, response[r])
           R == Requests \ {"framebuffer"}
           N == Len(Sections)
           name(n) == Sections[n][1]
           ss == [n \in DOMAIN Sections |-> Printed(Sections[n])]
           G == [n \in 1 .. N |-> facts(name(n))]
<1>1. /\ N \in Nat /\ DOMAIN Sections = 1 .. N
      /\ \A n \in 1 .. N : Level2(Headed(Sections[n][2]), name(n))
      /\ Once([n \in 1 .. N |-> name(n)], N, R)
  BY AllSectionsFit, SeqDomain DEF SectionsFit
<1>2. /\ {name(n) : n \in 1 .. N} = R
      /\ \A n, m \in 1 .. N : name(n) = name(m) => n = m
  <2> DEFINE p == [n \in 1 .. N |-> name(n)]
  <2> HIDE DEF N
  <2>1. \A n \in 1 .. N : p[n] = name(n)
    OBVIOUS
  <2>2. Once(p, N, R)
    BY <1>1
  <2> HIDE DEF p, name
  <2> QED BY <2>1, <2>2 DEF Once
<1>3. ASSUME NEW n \in 1 .. N
      PROVE  Says(Printed(Sections[n]), facts(name(n))) /\ \A x \in facts(name(n)) : x[1][1] = Single(name(n))
  <2>1. name(n) \in Requests /\ Level2(Headed(Sections[n][2]), name(n))
    BY <1>1, <1>2
  <2> QED BY <2>1, SectionSays
<1>4. \A r \in R : \A x \in facts(r) : x[1][1] = Single(r)
  <2> HIDE DEF name, facts, R, N
  <2> QED BY <1>2, <1>3
<1>5. ss = [n \in 1 .. N |-> ss[n]] /\ \A n \in 1 .. N : ss[n] = Printed(Sections[n]) /\ G[n] = facts(name(n))
  <2> HIDE DEF N, facts, name
  <2> QED BY <1>1
<1> HIDE DEF ss, G, N, R, facts, name
<1>6. \A n \in 1 .. N : Says(ss[n], G[n])
  BY <1>3, <1>5
<1>7. ASSUME NEW n \in 1 .. N, NEW m \in 1 .. N, n # m PROVE G[n] \cap G[m] = {}
  <2>1. SUFFICES ASSUME NEW x, x \in facts(name(n)), x \in facts(name(m)) PROVE FALSE
    BY <1>5
  <2>2. Single(name(n)) = Single(name(m))
    BY <1>3, <2>1
  <2>3. name(n) = name(m)
    BY <2>2 DEF Single
  <2> QED BY <1>2, <1>7, <2>3
<1>8. Says(FlattenSeq(ss), UNION {G[n] : n \in 1 .. N})
  <2>1. N \in Nat /\ ss = [n \in 1 .. N |-> ss[n]]
    BY <1>1, <1>5
  <2>2. \A n, m \in 1 .. N : n # m => G[n] \cap G[m] = {}
    BY <1>7
  <2> QED BY <1>6, <2>1, <2>2, SaysAll
<1>9. UNION {G[n] : n \in 1 .. N} = UNION {facts(r) : r \in R}
  <2>1. \A n \in 1 .. N : G[n] = facts(name(n))
    BY <1>5
  <2> QED BY <1>2, <2>1
<1> QED BY <1>4, <1>8, <1>9 DEF ss, R, facts

(* Saying more of other requests. *)
LEMMA ReportGrows ==
    ASSUME InfoInv, NEW R, NEW s, Says(s, UNION {AnswerFacts(r, response[r]) : r \in R}),
           R \cap Reported = {},
           \A r \in R \cup Reported : \A x \in AnswerFacts(r, response[r]) : x[1][1] = Single(r)
    PROVE  Says(report \o s, UNION {AnswerFacts(r, response[r]) : r \in Reported \cup R})
<1> DEFINE facts(r) == AnswerFacts(r, response[r])
           all(S) == UNION {facts(r) : r \in S}
<1>1. Says(report, all(Reported)) /\ Says(s, all(R))
  BY DEF InfoInv
<1>2. \A r \in R \cup Reported : \A x \in facts(r) : x[1][1] = Single(r)
  OBVIOUS
<1> HIDE DEF facts
<1>3. all(Reported) \cap all(R) = {}
  <2>1. SUFFICES ASSUME NEW x, x \in all(Reported), x \in all(R) PROVE FALSE
    OBVIOUS
  <2>2. PICK q \in Reported : x \in facts(q)
    BY <2>1
  <2>3. PICK r \in R : x \in facts(r)
    BY <2>1
  <2>4. Single(q) = Single(r)
    BY <1>2, <2>2, <2>3
  <2>5. q = r
    BY <2>4 DEF Single
  <2> QED BY <2>2, <2>3, <2>5
<1>4. all(Reported \cup R) = all(Reported) \cup all(R)
  OBVIOUS
<1> HIDE DEF all
<1>5. Says(report \o s, all(Reported) \cup all(R))
  BY <1>1, <1>3, SaysBoth
<1> QED BY <1>4, <1>5 DEF all, facts

LEMMA InfoInit_Inv == InfoInit => InfoInv
<1> SUFFICES ASSUME InfoInit PROVE InfoInv
  OBVIOUS
<1>1. response \in Responses /\ done = {} /\ report = <<>>
  BY DEF InfoInit
<1>2. Reported = {}
  BY <1>1 DEF Reported
<1>3. UNION {AnswerFacts(r, response[r]) : r \in Reported} = {}
  BY <1>2
<1> QED BY <1>1, <1>3, SaysNothing DEF InfoInv

LEMMA InfoNext_Inv == InfoInv /\ [InfoNext]_infoVars => InfoInv'
<1> SUFFICES ASSUME InfoInv, [InfoNext]_infoVars PROVE InfoInv'
  OBVIOUS
<1> DEFINE facts(r) == AnswerFacts(r, response[r])
           all(R) == UNION {facts(r) : r \in R}
           R == Requests \ {"framebuffer"}
<1>0. response \in Responses /\ Says(report, all(Reported))
  BY DEF InfoInv
<1>1. CASE boot_info_init
  <2>1. /\ done = {} /\ done' = {"boot_info_init"} /\ response' = response /\ report' = report
        /\ g_boot_info' = [r \in Requests |->
               IF response[r] = Null \/ r \notin Copied THEN IF r = "hhdm" THEN 0 ELSE Zeroed(r)
               ELSE IF r = "hhdm" THEN response[r].offset ELSE response[r]]
    BY <1>1 DEF boot_info_init
  <2>2. Requests \subseteq Copied
    BY DEF Requests, Copied
  <2>3. ASSUME NEW r \in Requests, response[r] # Null
        PROVE  g_boot_info'[r] = IF r = "hhdm" THEN response[r].offset ELSE response[r]
    BY <2>1, <2>2, <2>3
  <2>4. \A r \in Requests : response'[r] # Null => Held(r)'
    BY <2>1, <2>3 DEF Held
  <2>5. Reported' = Reported
    BY <2>1 DEF Reported
  <2> QED BY <1>0, <2>1, <2>4, <2>5 DEF InfoInv
<1>2. ASSUME NEW S, NEW s, Says(s, all(S)), S \cap Reported = {}, "boot_info_init" \in done, S \subseteq Requests,
             report' = report \o s, done \subseteq done', Reported' = Reported \cup S,
             response' = response, g_boot_info' = g_boot_info
      PROVE  InfoInv'
  <2>1. \A r \in S \cup Reported : \A x \in facts(r) : x[1][1] = Single(r)
    <3>1. S \cup Reported \subseteq R \cup {"framebuffer"}
      BY <1>2 DEF Reported
    <3>2. \A r \in R : \A x \in facts(r) : x[1][1] = Single(r)
      BY <1>2, SectionsSay
    <3>3. \A x \in facts("framebuffer") : x[1][1] = Single("framebuffer")
      BY <1>2, ScreensSay
    <3> HIDE DEF facts, R
    <3> QED BY <3>1, <3>2, <3>3
  <2>2. Says(report \o s, all(Reported \cup S))
    BY <1>2, <2>1, ReportGrows
  <2>3. Says(report', UNION {AnswerFacts(r, response'[r]) : r \in Reported'})
    BY <1>2, <2>2
  <2>4. \A r \in Requests : response'[r] # Null => Held(r)'
    BY <1>2 DEF InfoInv, Held
  <2> QED BY <1>0, <1>2, <2>3, <2>4 DEF InfoInv
<1>3. CASE print_boot_info
  <2>1. /\ "boot_info_init" \in done /\ "print_boot_info" \notin done
        /\ report' = report \o FlattenSeq([n \in DOMAIN Sections |-> Printed(Sections[n])])
        /\ done' = done \cup {"print_boot_info"} /\ response' = response /\ g_boot_info' = g_boot_info
    BY <1>3 DEF print_boot_info
  <2>2. R \cap Reported = {} /\ Reported' = Reported \cup R /\ R \subseteq Requests
    BY <2>1 DEF Reported
  <2>3. Says(FlattenSeq([n \in DOMAIN Sections |-> Printed(Sections[n])]), all(R))
    BY <2>1, SectionsSay
  <2>4. done \subseteq done'
    BY <2>1
  <2> HIDE DEF R, all
  <2> QED BY <1>2, <2>1, <2>2, <2>3, <2>4
<1>4. CASE print_framebuffer_info
  <2> DEFINE S == {"framebuffer"}
  <2>1. /\ "boot_info_init" \in done /\ "print_framebuffer_info" \notin done
        /\ report' = report \o Printed(Screens) /\ done' = done \cup {"print_framebuffer_info"}
        /\ response' = response /\ g_boot_info' = g_boot_info
    BY <1>4 DEF print_framebuffer_info
  <2>2. S \cap Reported = {} /\ Reported' = Reported \cup S /\ S \subseteq Requests
    BY <2>1 DEF Reported, Requests
  <2>3. Says(Printed(Screens), all(S))
    <3>1. all(S) = facts("framebuffer")
      <4> HIDE DEF facts
      <4> QED OBVIOUS
    <3> QED BY <2>1, <3>1, ScreensSay
  <2>4. done \subseteq done'
    BY <2>1
  <2> HIDE DEF S, all
  <2> QED BY <1>2, <2>1, <2>2, <2>3, <2>4
<1>5. CASE UNCHANGED infoVars
  <2>1. response' = response /\ g_boot_info' = g_boot_info /\ report' = report /\ done' = done
    BY <1>5 DEF infoVars
  <2>2. Reported' = Reported
    BY <2>1 DEF Reported
  <2>3. "boot_info_init" \in done' => \A r \in Requests : response'[r] # Null => Held(r)'
    BY <2>1 DEF InfoInv, Held
  <2> QED BY <1>0, <2>1, <2>2, <2>3 DEF InfoInv
<1> QED BY <1>1, <1>3, <1>4, <1>5 DEF InfoNext

(* boot_info_init takes the copies that the report is printed from, and whichever of
   the two printing functions runs first, each says all of its own requests. *)
THEOREM InfoSafety == InfoSpec => []InfoInv
BY InfoInit_Inv, InfoNext_Inv, PTL DEF InfoSpec

(* What the invariant says of the report is what is to be shown of it. *)
LEMMA InfoTells == InfoInv => ReportTrue
<1> SUFFICES ASSUME InfoInv PROVE ReportTrue
  OBVIOUS
<1> DEFINE said == [n \in DOMAIN report |-> <<report[n].path, Read(report[n].text)>>]
           F == UNION {AnswerFacts(r, response[r]) : r \in Reported}
<1>1. /\ {Said(report[n]) : n \in DOMAIN report} = F
      /\ \A n, m \in DOMAIN report : Said(report[n]) = Said(report[m]) => n = m
  BY DEF InfoInv, Says
<1>2. DOMAIN said = DOMAIN report /\ \A n \in DOMAIN report : said[n] = Said(report[n])
  BY DEF Said
<1>3. F = UNION {IF response[r] = Null THEN {<< <<Single(r)>>, Word("not provided")>>}
                 ELSE UNION {Facts(place) : place \in Places(r, response[r])} : r \in Reported}
  BY DEF AnswerFacts
<1> HIDE DEF said, F
<1>4. {said[n] : n \in DOMAIN said} = F /\ \A n, m \in DOMAIN said : said[n] = said[m] => n = m
  BY <1>1, <1>2
<1> QED BY <1>3, <1>4 DEF ReportTrue, said

(* The report of boot_info.c tells of every request whether it was answered and, if so,
   every field of the answer, through all arrays and pointers; it says nothing else,
   and nothing twice; for every width of the types and every answer of the protocol. *)
THEOREM Reports == InfoSpec => []ReportTrue
BY InfoTells, InfoSafety, PTL

(***************************************************************************)
(* Startup.                                                                *)
(***************************************************************************)

Apart(d, e) == d.base + d.length <= e.base \/ e.base + e.length <= d.base

(* The loop over the map takes its steps. *)
LEMMA UsableSteps ==
    ASSUME NEW mm, mm.entry_count \in Nat
    PROVE  \E f \in [0 .. mm.entry_count -> Seq(UsableExtents(mm))] :
               /\ f[0] = <<>>
               /\ \A n \in 1 .. mm.entry_count :
                     f[n] = IF n \in UsableIn(mm) THEN Append(f[n - 1], Extent(mm.entries[n])) ELSE f[n - 1]
               /\ UsableEntries(mm) = f[mm.entry_count]
<1> DEFINE N == mm.entry_count
           A == UsableExtents(mm)
           e(n) == Extent(mm.entries[n])
           U == UsableIn(mm)
           g == [p \in (1 .. N) \X Seq(A) |-> IF p[1] \in U THEN Append(p[2], e(p[1])) ELSE p[2]]
           G(f, n) == IF n = 0 THEN <<>> ELSE IF n \in U THEN Append(f[n - 1], e(n)) ELSE f[n - 1]
<1>1. N \in Nat /\ \A n \in U : n \in 1 .. N /\ e(n) \in A
  BY DEF UsableIn, UsableExtents
<1>2. UsableEntries(mm) = (CHOOSE h : h = [n \in 0 .. N |-> G(h, n)])[N]
  BY DEF UsableEntries
<1>3. <<>> \in Seq(A)
  BY EmptySeq
<1> HIDE DEF N, A, U, e
<1>4. g \in [(1 .. N) \X Seq(A) -> Seq(A)]
  <2>1. ASSUME NEW n \in 1 .. N, NEW s \in Seq(A) PROVE (IF n \in U THEN Append(s, e(n)) ELSE s) \in Seq(A)
    BY <1>1, AppendProperties
  <2> QED BY <2>1
<1>5. PICK f \in [0 .. N -> Seq(A)] : Recursive(f, <<>>, N, g)
  <2> HIDE DEF g
  <2> QED BY <1>1, <1>3, <1>4, Recursion
<1>6. ASSUME NEW n \in 1 .. N PROVE f[n] = IF n \in U THEN Append(f[n - 1], e(n)) ELSE f[n - 1]
  <2>1. n - 1 \in 0 .. N /\ f[n - 1] \in Seq(A)
    BY <1>1, <1>5
  <2>2. g[<<n, f[n - 1]>>] = IF n \in U THEN Append(f[n - 1], e(n)) ELSE f[n - 1]
    BY <2>1
  <2> HIDE DEF g
  <2> QED BY <1>5, <2>2 DEF Recursive
<1>7. f[0] = <<>>
  BY <1>5 DEF Recursive
<1> HIDE DEF g
<1>8. f = [n \in 0 .. N |-> G(f, n)]
  <2>1. ASSUME NEW n \in 0 .. N PROVE f[n] = G(f, n)
    <3>1. n = 0 \/ n \in 1 .. N
      BY <1>1
    <3>2. CASE n = 0
      BY <1>7, <3>2
    <3>3. CASE n \in 1 .. N
      <4>1. n # 0
        BY <3>3
      <4> QED BY <1>6, <3>3, <4>1
    <3> QED BY <3>1, <3>2, <3>3
  <2> HIDE DEF G
  <2> QED BY <1>5, <2>1
<1> DEFINE v == CHOOSE h : h = [n \in 0 .. N |-> G(h, n)]
<1>9. v = [n \in 0 .. N |-> G(v, n)]
  <2> HIDE DEF G
  <2> QED BY <1>8
<1>10. UsableEntries(mm) = v[N]
  BY <1>2
<1> HIDE DEF v
<1>11. \A n \in 0 .. N : v[n] = f[n]
  <2> DEFINE T == {n \in 0 .. N : v[n] = f[n]}
  <2>1. 0 \in T
    BY <1>1, <1>7, <1>9
  <2>2. ASSUME NEW k \in 0 .. N - 1, k \in T PROVE k + 1 \in T
    <3>1. k + 1 \in 1 .. N /\ (k + 1) - 1 = k /\ k + 1 # 0 /\ v[k] = f[k]
      BY <1>1, <2>2
    <3>2. v[k + 1] = G(v, k + 1) /\ f[k + 1] = G(f, k + 1)
      <4>1. k + 1 \in 0 .. N
        BY <1>1
      <4> HIDE DEF G
      <4> QED BY <1>8, <1>9, <4>1
    <3> QED BY <3>1, <3>2
  <2> HIDE DEF T
  <2>3. \A l \in 0 .. N : l \in T
    BY <1>1, <2>1, <2>2, Upwards
  <2> QED BY <2>3 DEF T
<1> HIDE DEF G
<1>12. UsableEntries(mm) = f[N]
  BY <1>1, <1>10, <1>11
<1>13. \A n \in 1 .. N : f[n] = IF n \in U THEN Append(f[n - 1], e(n)) ELSE f[n - 1]
  BY <1>6
<1> QED BY <1>5, <1>7, <1>12, <1>13 DEF N, A, U, e

(* It takes the usable entries, all of them and each once. *)
LEMMA UsableAre ==
    ASSUME NEW mm, mm.entry_count \in Nat,
           \A n \in UsableIn(mm) : \A m \in UsableIn(mm) :
               m # n => Apart(Extent(mm.entries[m]), Extent(mm.entries[n]))
    PROVE  LET s == UsableEntries(mm) IN
           /\ \E k \in 0 .. mm.entry_count : s \in [1 .. k -> UsableExtents(mm)]
           /\ {s[j] : j \in DOMAIN s} = UsableExtents(mm)
           /\ DisjointEntries(s)
<1> DEFINE N == mm.entry_count
           A == UsableExtents(mm)
           U == UsableIn(mm)
           e(n) == Extent(mm.entries[n])
<1>1. PICK f \in [0 .. N -> Seq(A)] :
           /\ f[0] = <<>>
           /\ \A n \in 1 .. N : f[n] = IF n \in U THEN Append(f[n - 1], e(n)) ELSE f[n - 1]
           /\ UsableEntries(mm) = f[N]
  BY UsableSteps
<1>2. /\ N \in Nat /\ \A n \in U : n \in 1 .. N /\ e(n) \in A
      /\ \A x \in A : \E n \in U : x = e(n)
      /\ \A n \in U : \A m \in U : m # n => Apart(e(m), e(n))
  BY DEF UsableIn, UsableExtents
<1> HIDE DEF N, A, U, e
<1> DEFINE Good(n) ==
             /\ Len(f[n]) <= n
             /\ \A j \in 1 .. Len(f[n]) : \E k \in U : k <= n /\ f[n][j] = e(k)
             /\ \A k \in U : k <= n => \E j \in 1 .. Len(f[n]) : f[n][j] = e(k)
             /\ \A j \in 1 .. Len(f[n]) : \A l \in 1 .. Len(f[n]) : j # l => Apart(f[n][j], f[n][l])
           T == {n \in 0 .. N : Good(n)}
<1>3. 0 \in T
  <2>1. Len(f[0]) = 0
    BY <1>1, EmptySeq
  <2>2. \A k \in U : ~(k <= 0)
    BY <1>2
  <2> QED BY <1>2, <2>1, <2>2
<1>4. ASSUME NEW n \in 0 .. N - 1, n \in T PROVE n + 1 \in T
  <2>1. n \in Nat /\ n + 1 \in 1 .. N /\ n + 1 \in 0 .. N /\ (n + 1) - 1 = n /\ n \in 0 .. N
    BY <1>2
  <2>2. f[n] \in Seq(A) /\ Len(f[n]) \in Nat /\ Good(n)
    BY <1>1, <1>4, <2>1, LenProperties
  <2>3. CASE n + 1 \notin U
    <3>1. f[n + 1] = f[n]
      BY <1>1, <2>1, <2>3
    <3>2. \A k \in U : k <= n + 1 => k <= n
      <4> TAKE k \in U
      <4>1. k # n + 1 /\ k \in Nat
        BY <1>2, <2>3
      <4> QED BY <2>1, <4>1
    <3>3. \A k \in U : k <= n => k <= n + 1
      BY <1>2, <2>1
    <3> QED BY <2>1, <2>2, <3>1, <3>2, <3>3
  <2>4. CASE n + 1 \in U
    <3> DEFINE L == Len(f[n])
               x == e(n + 1)
    <3>1. f[n + 1] = Append(f[n], x) /\ x \in A
      BY <1>1, <1>2, <2>1, <2>4
    <3>2. Len(f[n + 1]) = L + 1 /\ (\A j \in 1 .. L : f[n + 1][j] = f[n][j]) /\ f[n + 1][L + 1] = x
      BY <2>2, <3>1, AppendProperties
    <3>3. L \in Nat /\ L <= n /\ L + 1 <= n + 1
      BY <2>1, <2>2
    <3> HIDE DEF L
    <3>4. \A j \in 1 .. L + 1 : j \in 1 .. L \/ j = L + 1
      BY <3>3
    <3>5. \A k \in U : k <= n + 1 => k <= n \/ k = n + 1
      BY <1>2, <2>1
    <3>6. \A k \in U : k <= n => k <= n + 1 /\ k # n + 1
      BY <1>2, <2>1
    <3>7. \A j \in 1 .. L : j \in 1 .. L + 1
      BY <3>3
    <3>8. L + 1 \in 1 .. L + 1 /\ n + 1 <= n + 1
      BY <3>3, <2>1
    <3>9. \A d, y : Apart(d, y) => Apart(y, d)
      BY DEF Apart
    <3>10. \A j \in 1 .. L : Apart(f[n][j], x)
      <4> TAKE j \in 1 .. L
      <4>1. PICK k \in U : k <= n /\ f[n][j] = e(k)
        BY <2>2 DEF L
      <4> QED BY <1>2, <2>4, <3>6, <4>1
    <3>11. \A j \in 1 .. L + 1 : \E k \in U : k <= n + 1 /\ f[n + 1][j] = e(k)
      <4> TAKE j \in 1 .. L + 1
      <4>1. CASE j \in 1 .. L
        <5>1. PICK k \in U : k <= n /\ f[n][j] = e(k)
          BY <2>2, <4>1 DEF L
        <5> QED BY <3>2, <3>6, <4>1, <5>1
      <4>2. CASE j = L + 1
        BY <2>4, <3>2, <3>8, <4>2
      <4> QED BY <3>4, <4>1, <4>2
    <3>12. \A k \in U : k <= n + 1 => \E j \in 1 .. L + 1 : f[n + 1][j] = e(k)
      <4> SUFFICES ASSUME NEW k \in U, k <= n + 1 PROVE \E j \in 1 .. L + 1 : f[n + 1][j] = e(k)
        OBVIOUS
      <4>1. CASE k <= n
        <5>1. PICK j \in 1 .. L : f[n][j] = e(k)
          BY <2>2, <4>1 DEF L
        <5> QED BY <3>2, <3>7, <5>1
      <4>2. CASE k = n + 1
        BY <3>2, <3>8, <4>2
      <4> QED BY <3>5, <4>1, <4>2
    <3>13. \A j \in 1 .. L + 1 : \A l \in 1 .. L + 1 : j # l => Apart(f[n + 1][j], f[n + 1][l])
      <4> SUFFICES ASSUME NEW j \in 1 .. L + 1, NEW l \in 1 .. L + 1, j # l
                   PROVE  Apart(f[n + 1][j], f[n + 1][l])
        OBVIOUS
      <4>1. CASE j \in 1 .. L /\ l \in 1 .. L
        <5>1. Apart(f[n][j], f[n][l])
          BY <2>2, <4>1 DEF L
        <5> QED BY <3>2, <4>1, <5>1
      <4>2. CASE j \in 1 .. L /\ l = L + 1
        BY <3>2, <3>10, <4>2
      <4>3. CASE j = L + 1 /\ l \in 1 .. L
        BY <3>2, <3>9, <3>10, <4>3
      <4> QED BY <3>4, <4>1, <4>2, <4>3
    <3> HIDE DEF x
    <3> QED BY <2>1, <3>2, <3>3, <3>11, <3>12, <3>13
  <2> QED BY <2>3, <2>4
<1>5. Good(N)
  <2> HIDE DEF T
  <2>1. \A l \in 0 .. N : l \in T
    BY <1>2, <1>3, <1>4, Upwards
  <2>2. N \in T
    BY <1>2, <2>1
  <2> QED BY <2>2 DEF T
<1> DEFINE s == f[N]
<1>6. s \in Seq(A) /\ Len(s) \in Nat /\ s \in [1 .. Len(s) -> A] /\ DOMAIN s = 1 .. Len(s)
  BY <1>1, <1>2, LenProperties
<1>7. Len(s) \in 0 .. N
  BY <1>2, <1>5, <1>6
<1>8. {s[j] : j \in DOMAIN s} = A
  <2>1. \A j \in DOMAIN s : s[j] \in A
    BY <1>6
  <2>2. ASSUME NEW x \in A PROVE \E j \in DOMAIN s : s[j] = x
    <3>1. PICK k \in U : x = e(k)
      BY <1>2
    <3>2. k <= N
      BY <1>2
    <3> QED BY <1>5, <1>6, <3>1, <3>2
  <2> HIDE DEF s
  <2> QED BY <2>1, <2>2
<1>9. DisjointEntries(s)
  <2>1. \A j \in DOMAIN s : \A l \in DOMAIN s : j # l => Apart(s[j], s[l])
    BY <1>5, <1>6
  <2> HIDE DEF s
  <2> QED BY <2>1 DEF DisjointEntries, Apart
<1> HIDE DEF s, Good, T
<1>10. UsableEntries(mm) = s
  BY <1>1 DEF s
<1> QED BY <1>6, <1>7, <1>8, <1>9, <1>10 DEF N, A

-----------------------------------------------------------------------------
Kept == Promised(response.memmap, response.kernel_address)

LoadedAt(end) ==
    LET base == response.kernel_address.physical_base
    IN [start |-> base, end |-> base + (end - KernelStart)]

(* The inductive invariant: nothing of the allocator moves before pmm_init; where
   the loader keeps its promise the allocator works on what was answered. *)
StartInv ==
    /\ InfoInv
    /\ pc = "boot" => InitialState
    /\ ~("boot_info_init" \in done /\ Kept) => pc = "boot"
    /\ "boot_info_init" \in done /\ Kept =>
          /\ IInv
          /\ memmap = UsableEntries(response.memmap)
          /\ \E end \in KernelEnds : kernel = LoadedAt(end)

(* Numbers of the answers. *)
LEMMA AnswersAreSound ==
    ASSUME InfoInv, NEW r \in Requests, response[r] # Null
    PROVE  Sound(<< <<Single(r)>>, r, response[r]>>)
<1> DEFINE top == << <<Single(r)>>, r, response[r]>>
<1>1. \A place \in Places(r, response[r]) : Sound(place)
  BY ResponsesAssumption DEF InfoInv
<1>2. top \in Places(r, response[r])
  BY DEF Places
<1> HIDE DEF top
<1> QED BY <1>1, <1>2 DEF top

LEMMA AnswersInRange ==
    ASSUME InfoInv, Kept
    PROVE  /\ response.memmap.entry_count \in Nat
           /\ response.kernel_address.physical_base \in 0 .. Values(64) - 1
<1>1. "memmap" \in Requests /\ "kernel_address" \in Requests
  BY DEF Requests
<1>2. response["memmap"] # Null /\ response["kernel_address"] # Null
  BY DEF Kept, Promised
<1>3. /\ Sound(<< <<Single("memmap")>>, "memmap", response["memmap"]>>)
      /\ Sound(<< <<Single("kernel_address")>>, "kernel_address", response["kernel_address"]>>)
  BY <1>1, <1>2, AnswersAreSound
<1>4. "entry_count" \in DOMAIN Layout["memmap"] /\ Layout["memmap"]["entry_count"] = "u64"
  BY MemmapFields DEF Scalars
<1>5. "physical_base" \in DOMAIN Layout["kernel_address"] /\ Layout["kernel_address"]["physical_base"] = "u64"
  BY KernelAddressFields DEF Scalars
<1>6. response["memmap"]["entry_count"] \in 0 .. Values(64) - 1
  BY <1>2, <1>3, <1>4, FieldIs
<1>7. response["kernel_address"]["physical_base"] \in 0 .. Values(64) - 1
  BY <1>2, <1>3, <1>5, FieldIs
<1>8. \A n : response["memmap"]["entry_count"] \in 0 .. n => response["memmap"]["entry_count"] \in Nat
  OBVIOUS
<1> QED BY <1>6, <1>7, <1>8

(* What pmm_init takes from the copies is what was promised. *)
LEMMA MapIsPromised ==
    ASSUME InfoInv, Kept
    PROVE  LET s == UsableEntries(response.memmap) IN
           s \in MemMaps /\ {s[j] : j \in DOMAIN s} = UsableExtents(response.memmap)
<1> DEFINE mm == response.memmap
           at == response.kernel_address
           s == UsableEntries(mm)
<1>1. mm.entry_count \in Nat /\ response \in Responses
  BY AnswersInRange DEF InfoInv
<1>2. ASSUME NEW n \in UsableIn(mm), NEW m \in UsableIn(mm), m # n
      PROVE  Apart(Extent(mm.entries[m]), Extent(mm.entries[n]))
  <2>1. DisjointEntries(<<mm.entries[m], mm.entries[n]>>)
    BY <1>2 DEF Kept, Promised, UsableIn
  <2> DEFINE x == mm.entries[m]
             y == mm.entries[n]
  <2> HIDE DEF x, y
  <2>2. DisjointEntries(<<x, y>>) => x.base + x.length <= y.base \/ y.base + y.length <= x.base
    BY DEF DisjointEntries
  <2>3. x.base + x.length <= y.base \/ y.base + y.length <= x.base
    BY <2>1, <2>2 DEF x, y
  <2>4. Apart(Extent(x), Extent(y))
    BY <2>3 DEF Apart, Extent
  <2> QED BY <2>4 DEF x, y
<1>3. Promised(mm, at)
  BY DEF Kept
<1>4. \A k \in 0 .. mm.entry_count : \A t \in [1 .. k -> UsableExtents(mm)] :
          DisjointEntries(t) => t \in MemMaps
  BY <1>1, <1>3, StartAssumption
<1> HIDE DEF mm
<1>5. /\ \E k \in 0 .. mm.entry_count : s \in [1 .. k -> UsableExtents(mm)]
      /\ {s[j] : j \in DOMAIN s} = UsableExtents(mm)
      /\ DisjointEntries(s)
  BY <1>1, <1>2, UsableAre
<1> HIDE DEF s
<1>6. s \in MemMaps
  BY <1>4, <1>5
<1> QED BY <1>5, <1>6 DEF s, mm

LEMMA KernelIsPromised ==
    ASSUME InfoInv, Kept, NEW end \in KernelEnds
    PROVE  /\ kernel_phys_range(end, response.kernel_address) = LoadedAt(end)
           /\ LoadedAt(end) \in Kernels
<1> DEFINE at == response.kernel_address
           base == at.physical_base
           V == Values(64)
<1>1. base \in 0 .. V - 1 /\ V \in Nat /\ V >= 16
  BY AnswersInRange, ValuesGrow
<1>2. at.virtual_base = KernelStart /\ base + (end - KernelStart) < V /\ response \in Responses
  BY DEF Kept, Promised, InfoInv
<1>3. KernelStart \in Nat /\ end \in Nat /\ KernelStart < end
  <2>1. KernelStart \in 0 .. V - 1 /\ end \in KernelStart + 1 .. V - 1
    BY LinkAssumption
  <2> HIDE DEF V
  <2> QED BY <1>1, <2>1
<1>4. LoadedAt(end) \in Kernels
  BY <1>2, StartAssumption DEF Kept, LoadedAt
<1>5. LoadedAt(end) = [start |-> base, end |-> base + (end - KernelStart)]
  BY DEF LoadedAt
<1> HIDE DEF V, base
<1>6. Physical(KernelStart, at) = base
  <2>1. (base + (KernelStart - KernelStart)) % V = base
    BY <1>1, <1>3
  <2> QED BY <1>2, <2>1 DEF Physical, V, base
<1>7. Physical(end, at) = base + (end - KernelStart)
  <2>1. (base + (end - KernelStart)) % V = base + (end - KernelStart)
    BY <1>1, <1>2, <1>3
  <2> QED BY <1>2, <2>1 DEF Physical, V, base
<1> QED BY <1>4, <1>5, <1>6, <1>7 DEF kernel_phys_range

-----------------------------------------------------------------------------
LEMMA StartInit_Inv == StartInit => StartInv
<1> SUFFICES ASSUME StartInit PROVE StartInv
  OBVIOUS
<1>1. InfoInv /\ done = {} /\ InitialState
  BY InfoInit_Inv DEF StartInit, InfoInit
<1>2. pc = "boot"
  BY <1>1 DEF InitialState
<1> QED BY <1>1, <1>2 DEF StartInv

(* The allocator never gets back before pmm_init. *)
LEMMA NextGoesOn == Next => UNCHANGED <<memmap, kernel>> /\ pc' # "boot"
<1> SUFFICES ASSUME Next PROVE UNCHANGED <<memmap, kernel>> /\ pc' # "boot"
  OBVIOUS
<1>1. CASE pmm_init
  BY <1>1 DEF pmm_init, info
<1>2. CASE pmm_init_halts
  BY <1>2 DEF pmm_init_halts, info
<1>3. CASE AllocNothing
  BY <1>3 DEF AllocNothing, info
<1>4. ASSUME NEW n \in 1 .. MaxRequest, Alloc(n) PROVE UNCHANGED <<memmap, kernel>> /\ pc' # "boot"
  BY <1>4 DEF Alloc, info
<1>5. CASE ScanUsed
  BY <1>5 DEF ScanUsed, Scanning, info
<1>6. CASE ScanFree
  BY <1>6 DEF ScanFree, Scanning, info
<1>7. CASE ScanFound
  BY <1>7 DEF ScanFound, info
<1>8. CASE ScanFails
  BY <1>8 DEF ScanFails, info
<1>9. ASSUME NEW p \in held, NEW n \in 1 .. MaxRequest, pmm_free_pages(p, n)
      PROVE  UNCHANGED <<memmap, kernel>> /\ pc' # "boot"
  BY <1>9 DEF pmm_free_pages, info
<1> QED BY <1>1, <1>2, <1>3, <1>4, <1>5, <1>6, <1>7, <1>8, <1>9 DEF Next

LEMMA CopyStep == StartInv /\ CopyAnswers => StartInv'
<1> SUFFICES ASSUME StartInv, CopyAnswers PROVE StartInv'
  OBVIOUS
<1>1. boot_info_init /\ done = {} /\ done' = {"boot_info_init"} /\ response' = response
  BY DEF CopyAnswers, boot_info_init
<1>2. InfoInv'
  BY <1>1, InfoNext_Inv DEF StartInv, InfoNext
<1>3. pc = "boot" /\ InitialState
  BY <1>1 DEF StartInv
<1>4. InitialState' /\ pc' = "boot"
  BY <1>3 DEF CopyAnswers, InitialState, shape, scan
<1>5. ASSUME Kept' PROVE /\ IInv'
                         /\ memmap' = UsableEntries(response.memmap)
                         /\ \E end \in KernelEnds : kernel' = LoadedAt(end)
  <2>1. Kept
    BY <1>1, <1>5 DEF Kept
  <2>2. response.memmap # Null /\ response.kernel_address # Null /\ MapGiven(response.memmap)
    BY <2>1 DEF Kept, Promised
  <2>3. \A r \in Requests : response[r] # Null => g_boot_info'[r] = IF r = "hhdm" THEN response[r].offset ELSE response[r]
    BY <1>1, <1>2 DEF InfoInv, Held
  <2>4. "memmap" \in Requests /\ "kernel_address" \in Requests /\ "memmap" # "hhdm" /\ "kernel_address" # "hhdm"
    BY DEF Requests
  <2>5. g_boot_info'.memmap = response.memmap /\ g_boot_info'.kernel_address = response.kernel_address
    BY <2>2, <2>3, <2>4
  <2>6. memmap' = UsableEntries(response.memmap)
    BY <2>2, <2>5 DEF CopyAnswers
  <2>7. PICK end \in KernelEnds : kernel' = kernel_phys_range(end, response.kernel_address)
    BY <2>5 DEF CopyAnswers
  <2>8. kernel' = LoadedAt(end) /\ kernel' \in Kernels /\ memmap' \in MemMaps
    BY <2>1, <2>6, <2>7, MapIsPromised, KernelIsPromised DEF StartInv
  <2>9. Init' => IInv'
    BY InitIInv, PTL
  <2>10. IInv'
    BY <1>4, <2>8, <2>9 DEF Init
  <2> QED BY <2>6, <2>8, <2>10
<1> QED BY <1>1, <1>2, <1>4, <1>5 DEF StartInv, LoadedAt

LEMMA ReportStep == StartInv /\ (Report \/ UNCHANGED <<pmmVars, infoVars>>) => StartInv'
<1> SUFFICES ASSUME StartInv, Report \/ UNCHANGED <<pmmVars, infoVars>> PROVE StartInv'
  OBVIOUS
<1>1. UNCHANGED vars /\ response' = response /\ ("boot_info_init" \in done' <=> "boot_info_init" \in done)
  BY DEF Report, pmmVars, print_boot_info, print_framebuffer_info, infoVars
<1>2. InfoInv'
  BY InfoNext_Inv DEF StartInv, Report, InfoNext
<1>3. IInv => IInv'
  BY <1>1, NextIInv
<1>4. InitialState => InitialState'
  BY <1>1 DEF InitialState, vars, shape, scan
<1>5. pc' = pc /\ memmap' = memmap /\ kernel' = kernel
  BY <1>1 DEF vars, info
<1> QED BY <1>1, <1>2, <1>3, <1>4, <1>5 DEF StartInv, Kept, LoadedAt

LEMMA AllocatorStep == StartInv /\ Allocator => StartInv'
<1> SUFFICES ASSUME StartInv, Allocator PROVE StartInv'
  OBVIOUS
<1>1. Next /\ "boot_info_init" \in done /\ Kept /\ UNCHANGED <<response, done>>
  BY DEF Allocator, Kept, infoVars
<1>2. InfoInv'
  BY InfoNext_Inv DEF StartInv, Allocator
<1>3. IInv'
  BY <1>1, NextIInv DEF StartInv
<1>4. UNCHANGED <<memmap, kernel>> /\ pc' # "boot"
  BY <1>1, NextGoesOn
<1>5. Kept' /\ "boot_info_init" \in done'
  BY <1>1 DEF Kept
<1> QED BY <1>1, <1>2, <1>3, <1>4, <1>5 DEF StartInv, LoadedAt

LEMMA StartNext_Inv == StartInv /\ [StartNext]_<<pmmVars, infoVars>> => StartInv'
BY CopyStep, ReportStep, AllocatorStep DEF StartNext

LEMMA StartInvariant == StartSpec => []StartInv
BY StartInit_Inv, StartNext_Inv, PTL DEF StartSpec

(* Before pmm_init there is nothing to say; after it the loader kept its promise. *)
LEMMA OnceRunning == StartInv /\ pc # "boot" => IInv /\ Kept /\ "boot_info_init" \in done
BY DEF StartInv

(* In the start-up as a whole, too, the pages are conserved and counted, the bitmap is
   in usable memory and the report is true. *)
THEOREM StartKeeps == StartSpec => [](NothingLost /\ Accounted /\ BitmapPlaced /\ ReportTrue)
<1>1. StartInv => NothingLost /\ Accounted /\ BitmapPlaced
  <2>1. CASE pc = "boot"
    BY <2>1 DEF NothingLost, Accounted, BitmapPlaced, Running
  <2>2. CASE pc # "boot"
    BY <2>2, OnceRunning DEF IInv
  <2> QED BY <2>1, <2>2
<1>2. StartInv => ReportTrue
  BY InfoTells DEF StartInv
<1> QED BY <1>1, <1>2, StartInvariant, PTL

(* From the answer of the loader to the allocator: it has exactly what was answered,
   but for the kernel and the bitmap (SupplyAsAnswered). *)
THEOREM StartSupply == StartSpec => []SupplyAsAnswered
<1>1. ASSUME StartInv, Running PROVE SupplyAsAnswered
  <2> DEFINE base == response.kernel_address.physical_base
             E == UsableExtents(response.memmap)
             loaded == base .. base + (kernel.end - kernel.start) - 1
             S == {p \in 0 .. g_total_pages - 1 :
                      /\ \E e \in E : Bytes(p) \subseteq e.base .. EndOf(e) - 1
                      /\ Bytes(p) \cap (loaded \cup BitmapRange) = {}}
  <2>1. pc # "boot"
    BY <1>1 DEF Running
  <2>2. IInv /\ Kept /\ "boot_info_init" \in done /\ InfoInv
    BY <1>1, <2>1, OnceRunning DEF StartInv
  <2>3. memmap = UsableEntries(response.memmap) /\ \E end \in KernelEnds : kernel = LoadedAt(end)
    BY <1>1, <2>2 DEF StartInv
  <2>4. Entries = E
    BY <2>2, <2>3, MapIsPromised DEF Entries
  <2>5. base \in Nat
    <3>1. \A n : base \in 0 .. n => base \in Nat
      OBVIOUS
    <3> QED BY <2>2, <3>1, AnswersInRange
  <2>6. KernelRange = loaded
    <3>1. PICK end \in KernelEnds : kernel = LoadedAt(end)
      BY <2>3
    <3>2. kernel.start = base
      BY <3>1 DEF LoadedAt
    <3>3. kernel.end \in Nat
      BY <2>2, KernelAssumption DEF IInv, TypeOK
    <3> QED BY <2>5, <3>2, <3>3 DEF KernelRange
  <2>7. ASSUME NEW e \in E PROVE ~(Bytes(0) \subseteq e.base .. EndOf(e) - 1)
    <3>1. e \in Entries /\ memmap \in MemMaps
      BY <2>2, <2>4 DEF IInv, TypeOK
    <3>2. e.base \in Nat /\ e.base >= PageSize
      BY <3>1, EntryFacts
    <3>3. 0 \in Bytes(0) /\ ~(0 \in e.base .. EndOf(e) - 1)
      BY <3>2, SizesAssumption DEF Bytes
    <3> QED BY <3>3
  <2>8. g_total_pages \in Nat
    BY <2>2 DEF IInv, TypeOK
  <2>9. Available = {p \in 1 .. g_total_pages - 1 :
                        /\ \E e \in E : Bytes(p) \subseteq e.base .. EndOf(e) - 1
                        /\ Bytes(p) \cap (loaded \cup BitmapRange) = {}}
    BY <2>4, <2>6 DEF Available
  <2>10. \A p \in 0 .. g_total_pages - 1 : p = 0 \/ p \in 1 .. g_total_pages - 1
    BY <2>8
  <2>11. \A p \in 1 .. g_total_pages - 1 : p \in 0 .. g_total_pages - 1
    BY <2>8
  <2>12. FreePages \cup held = Available
    BY <1>1, <2>2 DEF IInv, NothingLost
  <2> HIDE DEF E, loaded
  <2>13. Available = S
    BY <2>7, <2>9, <2>10, <2>11
  <2> QED BY <2>12, <2>13 DEF SupplyAsAnswered, E, loaded
<1>2. StartInv => SupplyAsAnswered
  BY <1>1 DEF SupplyAsAnswered
<1> QED BY <1>2, StartInvariant, PTL

(* In the start-up, too, a request is refused only if there is no such run. *)
THEOREM StartRefusals == StartSpec => NoFalseRefusal
<1>1. ASSUME StartInv, [StartNext]_<<pmmVars, infoVars>>
      PROVE  [ScanFails => \A s \in 0 .. g_total_pages - 1 : ~(s .. s + page_count - 1 \subseteq FreePages)]_vars
  <2>1. ASSUME ScanFails PROVE \A s \in 0 .. g_total_pages - 1 : ~(s .. s + page_count - 1 \subseteq FreePages)
    <3>1. pc # "boot"
      BY <2>1 DEF ScanFails
    <3>2. \A s \in Nat : ~(s .. s + page_count - 1 \subseteq FreePages)
      BY <1>1, <2>1, <3>1, OnceRunning, FailsNone
    <3> QED BY <3>2
  <2> QED BY <2>1
<1> QED BY <1>1, StartInvariant, PTL DEF StartSpec, NoFalseRefusal

(* In the start-up, too, the allocator implements PagePool. *)
THEOREM StartPool == StartSpec => PagePoolSpec
<1>1. StartInit => Pool!Init
  BY NullIsNoPage DEF StartInit, InitialState, NULL, Pool!Init, FreePages, Running
<1>2. ASSUME StartInv, StartInv', [StartNext]_<<pmmVars, infoVars>> PROVE [Pool!Next]_Pool!vars
  <2>1. CASE Allocator
    <3>1. IInv /\ IInv' /\ Next
      BY <1>2, <2>1, NextGoesOn, NextIInv DEF StartInv, Allocator, Kept
    <3> QED BY <3>1, PoolStep
  <2>2. CASE CopyAnswers
    <3>1. pc = "boot" /\ pc' = "boot" /\ ret' = ret /\ held' = held
      BY <1>2, <2>2 DEF CopyAnswers, StartInv, boot_info_init
    <3> QED BY <3>1 DEF Pool!vars, FreePages, Running
  <2>3. CASE Report \/ UNCHANGED <<pmmVars, infoVars>>
    <3>1. UNCHANGED vars
      BY <2>3 DEF Report, pmmVars
    <3> QED BY <3>1 DEF Pool!vars, FreePages, Running, vars, shape
  <2> QED BY <1>2, <2>1, <2>2, <2>3 DEF StartNext
<1> QED BY <1>1, <1>2, StartInvariant, PTL DEF StartSpec, PagePoolSpec, Pool!Spec
=============================================================================

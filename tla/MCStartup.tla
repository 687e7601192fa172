----------------------------- MODULE MCStartup -----------------------------
EXTENDS Startup, FiniteSetsExt

CONSTANTS
    TopPage,        \* usable memory ends below this page
    KernelSizes     \* in bytes, so that a kernel may end within a page

(* 8, 16, 32 and 64 bits are 1, 2, 3 and 5 hexadecimal digits. *)
MCDigits == 8 :> 1 @@ 16 :> 2 @@ 32 :> 3 @@ 64 :> 5

-----------------------------------------------------------------------------
(* The memory: no usable entry, one or two in either order, anywhere above page 0. *)
Blocks == {[base |-> b * PageSize, length |-> n * PageSize] :
                b \in 1 .. TopPage - 1, n \in 1 .. TopPage - 1}
Inside == {e \in Blocks : e.base + e.length <= TopPage * PageSize}
MapsOfTwo ==
    {<<>>} \cup {<<e>> : e \in Inside}
        \cup {mm \in Inside \X Inside : DisjointEntries(mm)}

(* A kernel starts on a page, inside usable memory or out of it. *)
PageKernels ==
    {[start |-> b * PageSize, end |-> b * PageSize + n] :
        b \in 1 .. TopPage, n \in KernelSizes}

(* It is linked at the top of the addresses. *)
Top == Values(64) - 16
MCKernelEnds == {Top + n : n \in KernelSizes}

(* The answers that tell of such a memory.  Page 0 is never usable. *)
Typed(e, type) == [base |-> e.base, length |-> e.length, type |-> type]
MapAnswer(mm) ==
    LET entries == << Typed([base |-> 0, length |-> PageSize], 1) >>
                    \o [n \in DOMAIN mm |-> Typed(mm[n], LIMINE_MEMMAP_USABLE)]
    IN [revision |-> 0, entry_count |-> Len(entries), entries |-> entries]
MemoryResponses ==
    {[q \in Requests |->
        CASE q = "memmap"         -> MapAnswer(mm)
          [] q = "kernel_address" -> [revision |-> 0, physical_base |-> p * PageSize, virtual_base |-> Top]
          [] OTHER                -> Null] : mm \in MapsOfTwo, p \in 1 .. TopPage}

-----------------------------------------------------------------------------
(* The value of the n-th field of a structure: all zero; all different, in high
   and low digits; the largest; the smallest. *)
Pattern == {"zero", "own", "largest", "least"}
Value(pattern, width, n) ==
    CASE pattern = "zero"    -> 0
      [] pattern = "own"     -> (n * (Values(width) \div 16) + (IF width = 8 THEN 0 ELSE n)) % Values(width)
      [] pattern = "largest" -> Values(width) - 1
      [] pattern = "least"   -> 1
SignedValue(pattern) ==
    CASE pattern = "zero" -> 0 [] pattern = "own" -> -5
      [] pattern = "largest" -> Values(64) \div 2 - 1 [] pattern = "least" -> -(Values(64) \div 2)
UuidValue(pattern, n) ==
    [a |-> Value(pattern, 32, n), b |-> Value(pattern, 16, n + 1), c |-> Value(pattern, 16, n + 2),
     d |-> [m \in 1 .. 8 |-> Value(pattern, 8, n + m)]]

(* A structure whose numbers follow one pattern and what it points to another;
   its arrays hold nothing, one element, or one that is missing and one that is
   there; or they are missing themselves. *)
Shapes == {"none", "one", "second", "missing"}
Count(arrays) == CASE arrays = "none" -> 0 [] arrays = "one" -> 1 [] OTHER -> 2

RECURSIVE Struct(_, _, _, _)
Struct(s, pattern, inner, arrays) ==
    LET fields == FoldSet(LAMBDA f, seen : Append(seen, f), <<>>, DOMAIN Layout[s])
        nth(f) == CHOOSE n \in DOMAIN fields : fields[n] = f
        counts == {CountOf[f] : f \in DOMAIN Layout[s] \cap DOMAIN CountOf}
        field(f, type) ==
            CASE f \in counts          -> Count(arrays)
              [] type \in DOMAIN Bits  -> Value(pattern, Bits[type], nth(f))
              [] type = "i64"          -> SignedValue(pattern)
              [] type = "string"       -> IF pattern = "zero" THEN Null ELSE f
              [] type = "uuid"         -> UuidValue(pattern, nth(f))
              [] type = "file"         -> IF arrays = "missing" THEN Null ELSE Struct("file", inner, inner, arrays)
              [] OTHER -> CASE arrays = "missing" -> Null
                            [] arrays = "none"    -> <<>>
                            [] arrays = "one"     -> <<Struct(Element[type], inner, pattern, "second")>>
                            [] arrays = "second"  -> <<Null, Struct(Element[type], inner, pattern, "missing")>>
    IN [f \in DOMAIN Layout[s] |-> field(f, Layout[s][f])]

(* One answer is any of these; the others are all missing or all the same kind. *)
ShapedResponses ==
    {[q \in Requests |-> IF q = r THEN answer ELSE IF others THEN Struct(q, "own", "own", "one") ELSE Null] :
        <<r, answer, others>> \in
            UNION {{r} \X ({Null} \cup {Struct(r, p, inside, s) : p \in Pattern, inside \in Pattern, s \in Shapes})
                       \X BOOLEAN : r \in Requests}}

MCResponses == MemoryResponses \cup ShapedResponses
=============================================================================

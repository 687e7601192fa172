--------------------------------- MODULE Pmm ---------------------------------
(***************************************************************************)
(* The physical page allocator (mm/pmm.c): pmm_init carves a bitmap out of *)
(* the loader's memory map, pmm_alloc_pages scans it for the first run of  *)
(* clear bits, pmm_free_pages clears bits.  Addresses are bytes.  The scan *)
(* is modelled one page at a time.  Nothing interrupts it: the callers run *)
(* with interrupts masked on the only processor.                           *)
(***************************************************************************)
EXTENDS Integers, Sequences, FiniteSets

CONSTANTS
    PageSize,       \* 4096 in the code
    BitsPerByte,    \* 8 in the code
    MemMaps,        \* memory maps: sequences of usable [base, length] entries
    Kernels,        \* physical ranges [start, end] the kernel may be loaded at
    MaxRequest      \* a client asks for at most this many pages at once

(* Usable entries are page-aligned, do not overlap, and never hold page 0. *)
AlignedEntry(e) ==
    /\ e.base >= PageSize /\ e.length > 0
    /\ e.base % PageSize = 0 /\ e.length % PageSize = 0

DisjointEntries(mm) ==
    \A m, n \in DOMAIN mm :
        m # n => \/ mm[m].base + mm[m].length <= mm[n].base
                 \/ mm[n].base + mm[n].length <= mm[m].base

ASSUME SizesAssumption  == PageSize \in Nat \ {0} /\ BitsPerByte \in Nat \ {0}
ASSUME RequestAssumption == MaxRequest \in Nat
ASSUME MemMapAssumption ==
    \A mm \in MemMaps :
        /\ mm \in Seq([base : Nat, length : Nat])
        /\ \A n \in DOMAIN mm : AlignedEntry(mm[n])
        /\ DisjointEntries(mm)
ASSUME KernelAssumption ==
    \A k \in Kernels : k.start \in Nat /\ k.end \in Nat /\ k.start < k.end

NULL == 0

VARIABLES
    memmap, kernel,     \* g_boot_info and the linker's symbols: fixed at boot
    g_total_pages,
    g_bitmap, g_bitmap_bytes,   \* where the bitmap is, and its size
    bits,               \* the indices whose bit in the bitmap is set
    g_free_bytes,
    pc,                 \* "boot", "halt", "idle", or "scan" inside pmm_alloc_pages
    page_count, i, run, run_start,  \* the argument and locals of pmm_alloc_pages
    ret,                \* what it returned last
    held                \* the pages its callers have: no variable of the code

info  == <<memmap, kernel>>
shape == <<g_total_pages, g_bitmap, g_bitmap_bytes>>
scan  == <<page_count, i, run, run_start>>
vars  == <<info, shape, bits, g_free_bytes, pc, scan, ret, held>>

align_down(x) == (x \div PageSize) * PageSize
align_up(x)   == align_down(x + PageSize - 1)

Entries    == {memmap[n] : n \in DOMAIN memmap}
EndOf(e)   == e.base + e.length

(* The number of pages below the end of the highest usable entry. *)
max_phys == CHOOSE x \in {0} \cup {EndOf(e) : e \in Entries} :
                \A e \in Entries : EndOf(e) <= x
TotalPages  == align_up(max_phys) \div PageSize
BitmapBytes == (TotalPages + BitsPerByte - 1) \div BitsPerByte

(* The pages of 0 .. total - 1 that mark_range reaches. *)
mark_range(base, length, total) ==
    {p \in 0 .. total - 1 :
        align_down(base) <= p * PageSize /\ p * PageSize < align_up(base + length)}

ranges_overlap(a0, a1, b0, b1) == a0 < b1 /\ b0 < a1

(* The bitmap goes to the end of the first entry that has room for it and does
   not have the kernel there. *)
BitmapIn(e) == align_down(align_down(EndOf(e)) - BitmapBytes)

(* Mutant: the kernel is not looked at. *)
Mut_HasRoom(e) == BitmapBytes <= align_down(EndOf(e)) - align_up(e.base)

HasRoom(e) ==
    /\ BitmapBytes <= align_down(EndOf(e)) - align_up(e.base)
    /\ ~ranges_overlap(BitmapIn(e), BitmapIn(e) + BitmapBytes, kernel.start, kernel.end)

place_bitmap_phys ==
    IF \E n \in DOMAIN memmap : HasRoom(memmap[n])
    THEN BitmapIn(memmap[CHOOSE n \in DOMAIN memmap :
                            HasRoom(memmap[n]) /\ \A m \in 1 .. n - 1 : ~HasRoom(memmap[m])])
    ELSE NULL

InitialState ==
    /\ g_total_pages = 0 /\ g_bitmap = NULL /\ g_bitmap_bytes = 0
    /\ bits = {} /\ g_free_bytes = 0
    /\ pc = "boot"
    /\ page_count = 0 /\ i = 0 /\ run = 0 /\ run_start = 0
    /\ ret = NULL /\ held = {}

Init == memmap \in MemMaps /\ kernel \in Kernels /\ InitialState

Usable(total) == UNION {mark_range(e.base, e.length, total) : e \in Entries}

(* Mutant: the bitmap does not reserve itself. *)
Mut_Reserved(at) == mark_range(kernel.start, kernel.end - kernel.start, TotalPages)

Reserved(at) ==
    mark_range(kernel.start, kernel.end - kernel.start, TotalPages)
        \cup mark_range(at, BitmapBytes, TotalPages)

Running == pc \in {"idle", "scan"}

(* Before pmm_init there is no bitmap, and no page is free. *)
FreePages == IF Running THEN (0 .. g_total_pages - 1) \ bits ELSE {}

pmm_init ==
    /\ pc = "boot"
    /\ LET at == place_bitmap_phys IN
       /\ at # NULL
       /\ g_total_pages' = TotalPages /\ g_bitmap_bytes' = BitmapBytes
       /\ g_bitmap' = at
       /\ bits' = ((0 .. BitmapBytes * BitsPerByte - 1) \ Usable(TotalPages)) \cup Reserved(at)
    /\ pc' = "idle"
    /\ g_free_bytes' = Cardinality(FreePages') * PageSize
    /\ UNCHANGED <<info, scan, ret, held>>

(* No place for the bitmap: the machine stops. *)
pmm_init_halts ==
    /\ pc = "boot"
    /\ place_bitmap_phys = NULL
    /\ pc' = "halt"
    /\ g_total_pages' = TotalPages /\ g_bitmap_bytes' = BitmapBytes
    /\ UNCHANGED <<info, g_bitmap, bits, g_free_bytes, scan, ret, held>>

-----------------------------------------------------------------------------
AllocNothing ==
    /\ pc = "idle"
    /\ ret' = NULL
    /\ UNCHANGED <<info, shape, bits, g_free_bytes, pc, scan, held>>

Alloc(n) ==
    /\ pc = "idle" /\ n > 0
    /\ pc' = "scan"
    /\ page_count' = n /\ i' = 0 /\ run' = 0 /\ run_start' = 0
    /\ UNCHANGED <<info, shape, bits, g_free_bytes, ret, held>>

(* Mutant: the last page is never looked at. *)
Mut_Short == pc = "scan" /\ i < g_total_pages - 1

Scanning == pc = "scan" /\ i < g_total_pages

(* Mutant: a run goes on behind a page in use. *)
Mut_Broken == run

(* The length of the run behind a page in use. *)
Broken == 0

ScanUsed ==
    /\ Scanning /\ i \in bits
    /\ run' = Broken /\ i' = i + 1
    /\ UNCHANGED <<info, shape, bits, g_free_bytes, pc, page_count, run_start, ret, held>>

RunStart == IF run = 0 THEN i ELSE run_start

ScanFree ==
    /\ Scanning /\ i \notin bits
    /\ run + 1 # page_count
    /\ run' = run + 1 /\ run_start' = RunStart /\ i' = i + 1
    /\ UNCHANGED <<info, shape, bits, g_free_bytes, pc, page_count, ret, held>>

(* Mutant: one page is charged whatever the length of the run. *)
Mut_Charge == PageSize

Charge == page_count * PageSize

Taken == RunStart .. RunStart + page_count - 1

ScanFound ==
    /\ Scanning /\ i \notin bits
    /\ run + 1 = page_count
    /\ bits' = bits \cup Taken
    /\ g_free_bytes' = g_free_bytes - Charge
    /\ ret' = RunStart * PageSize
    /\ held' = held \cup Taken
    /\ pc' = "idle"
    /\ run' = run + 1 /\ run_start' = RunStart
    /\ UNCHANGED <<info, shape, page_count, i>>

ScanFails ==
    /\ pc = "scan" /\ ~Scanning
    /\ ret' = NULL
    /\ pc' = "idle"
    /\ UNCHANGED <<info, shape, bits, g_free_bytes, scan, held>>

(* A client returns pages it has, the whole of a run or a part of it.  With a
   null pointer or no pages at all pmm_free_pages does nothing. *)
pmm_free_pages(p, n) ==
    /\ pc = "idle" /\ n > 0 /\ p..p + n - 1 \subseteq held
    /\ bits' = bits \ {q \in p .. p + n - 1 : q < g_total_pages}
    /\ g_free_bytes' = g_free_bytes + n * PageSize
    /\ held' = held \ (p .. p + n - 1)
    /\ UNCHANGED <<info, shape, pc, scan, ret>>

Next ==
    \/ pmm_init \/ pmm_init_halts
    \/ AllocNothing \/ \E n \in 1 .. MaxRequest : Alloc(n)
    \/ ScanUsed \/ ScanFree \/ ScanFound \/ ScanFails
    \/ \E p \in held, n \in 1 .. MaxRequest : pmm_free_pages(p, n)

Spec == Init /\ [][Next]_vars

-----------------------------------------------------------------------------
TypeOK ==
    /\ memmap \in MemMaps /\ kernel \in Kernels
    /\ g_total_pages \in Nat /\ g_bitmap \in Nat /\ g_bitmap_bytes \in Nat
    /\ bits \subseteq 0 .. g_bitmap_bytes * BitsPerByte - 1
    /\ g_free_bytes \in Nat
    /\ pc \in {"boot", "halt", "idle", "scan"}
    /\ page_count \in 0 .. MaxRequest
    /\ i \in 0 .. g_total_pages
    /\ run \in 0 .. g_total_pages /\ run_start \in 0 .. g_total_pages
    /\ ret \in {p * PageSize : p \in 0 .. g_total_pages}
    /\ held \subseteq 0 .. g_total_pages - 1

Bytes(p) == p * PageSize .. (p + 1) * PageSize - 1

BitmapRange == g_bitmap .. g_bitmap + g_bitmap_bytes - 1
KernelRange == kernel.start .. kernel.end - 1

(* What there is to hand out: the pages of usable memory with no byte of the
   kernel and no byte of the bitmap on them. *)
Available ==
    {p \in 1 .. g_total_pages - 1 :
        /\ \E e \in Entries : Bytes(p) \subseteq e.base .. EndOf(e) - 1
        /\ Bytes(p) \cap (KernelRange \cup BitmapRange) = {}}

(* Every available page is either free or with one client, and no other page is
   ever free or handed out: not the kernel's, not the bitmap's own, not page 0,
   whose address is the null pointer. *)
NothingLost ==
    Running => FreePages \cup held = Available /\ FreePages \cap held = {}

(* pmm_free_bytes tells the truth. *)
Accounted == Running => g_free_bytes = Cardinality(FreePages) * PageSize

(* The bitmap has a bit for every page and lies in usable memory, clear of the
   kernel that pmm_init is running in. *)
BitmapPlaced ==
    Running =>
        /\ g_total_pages <= g_bitmap_bytes * BitsPerByte
        /\ \E e \in Entries : BitmapRange \subseteq e.base .. EndOf(e) - 1
        /\ BitmapRange \cap KernelRange = {}

(* The scan finds what it is to find: the allocator implements PagePool. *)
Pool == INSTANCE PagePool WITH
            Requests <- 0 .. MaxRequest, NoPage <- 0,
            pool <- FreePages, ret <- ret \div PageSize

PagePoolSpec == Pool!Spec

(* A request is refused only if no run of free pages is long enough. *)
NoFalseRefusal ==
    [][ ScanFails => \A s \in 0 .. g_total_pages - 1 :
                        ~(s .. s + page_count - 1 \subseteq FreePages) ]_vars
=============================================================================

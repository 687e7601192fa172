------------------------------ MODULE Startup ------------------------------
(***************************************************************************)
(* The start of kmain (core/kmain.c): the loader's answers are copied and  *)
(* reported, and from the copies of the memory map and of the kernel's     *)
(* addresses pmm_init builds the page allocator.                           *)
(***************************************************************************)
EXTENDS Pmm, BootInfo

CONSTANTS
    KernelStart,    \* where the kernel is linked: __kernel_start
    KernelEnds      \* what __kernel_end may be

ASSUME LinkAssumption ==
    KernelStart \in 0 .. Values(64) - 1 /\ KernelEnds \subseteq KernelStart + 1 .. Values(64) - 1

pmmVars == vars

LIMINE_MEMMAP_USABLE == 0

MapGiven(mm) == \A n \in 1 .. mm.entry_count : mm.entries # Null /\ mm.entries[n] # Null

Extent(e)         == [base |-> e.base, length |-> e.length]
UsableIn(mm)      == {n \in 1 .. mm.entry_count : mm.entries[n].type = LIMINE_MEMMAP_USABLE}
UsableExtents(mm) == {Extent(mm.entries[n]) : n \in UsableIn(mm)}

(* What the protocol promises pmm_init: both answers are there, the map without
   null pointers; usable entries are whole pages that no other entry shares; the
   kernel is at the address it was linked at, in one piece of memory. *)
Promised(mm, at) ==
    /\ mm # Null /\ at # Null
    /\ MapGiven(mm)
    /\ \A n \in UsableIn(mm) :
          /\ AlignedEntry(mm.entries[n])
          /\ \A m \in 1 .. mm.entry_count :
                m # n => DisjointEntries(<<mm.entries[m], mm.entries[n]>>)
    /\ at.virtual_base = KernelStart
    /\ \A end \in KernelEnds : at.physical_base + (end - KernelStart) < Values(64)

(* MemMaps and Kernels have all that is promised. *)
ASSUME StartAssumption ==
    \A answers \in Responses :
        LET mm == answers.memmap at == answers.kernel_address IN
        Promised(mm, at) =>
            /\ \A k \in 0 .. mm.entry_count : \A s \in [1 .. k -> UsableExtents(mm)] :
                  DisjointEntries(s) => s \in MemMaps
            /\ \A end \in KernelEnds :
                  [start |-> at.physical_base, end |-> at.physical_base + (end - KernelStart)] \in Kernels

(* Mutant: entries of every type are taken for usable memory. *)
Mut_UsableEntries(mm) == [n \in 1 .. mm.entry_count |-> Extent(mm.entries[n])]

(* The entries that find_max_phys, place_bitmap_phys and pmm_init do not pass over. *)
UsableEntries(mm) ==
    LET upto[n \in 0 .. mm.entry_count] ==
            IF n = 0 THEN <<>>
            ELSE IF n \in UsableIn(mm) THEN Append(upto[n - 1], Extent(mm.entries[n])) ELSE upto[n - 1]
    IN upto[mm.entry_count]

(* The physical address of a symbol of the kernel, in 64-bit arithmetic. *)
Physical(symbol, at) == (at.physical_base + (symbol - at.virtual_base)) % Values(64)

kernel_phys_range(end, at) == [start |-> Physical(KernelStart, at), end |-> Physical(end, at)]

StartInit ==
    /\ InfoInit /\ InitialState
    /\ memmap = <<>> /\ kernel = [start |-> 0, end |-> 0]

CopyAnswers ==
    /\ boot_info_init
    /\ memmap' = IF MapGiven(g_boot_info'.memmap) THEN UsableEntries(g_boot_info'.memmap) ELSE <<>>
    /\ \E end \in KernelEnds : kernel' = kernel_phys_range(end, g_boot_info'.kernel_address)
    /\ UNCHANGED <<shape, bits, g_free_bytes, pc, scan, ret, held>>

(* print_framebuffer_info, which kmain does not call, may be called beside the other. *)
Report == pc = "boot" /\ (print_boot_info \/ print_framebuffer_info) /\ UNCHANGED pmmVars

(* pmm_init and then the allocator, where the loader keeps its promise. *)
Allocator ==
    /\ done = {"boot_info_init", "print_boot_info"}
    /\ Promised(response.memmap, response.kernel_address)
    /\ Next
    /\ UNCHANGED infoVars

StartNext == CopyAnswers \/ Report \/ Allocator

StartSpec == StartInit /\ [][StartNext]_<<pmmVars, infoVars>>

-----------------------------------------------------------------------------
(* From the answer through the copy, the choice of entries and the bitmap: what
   the allocator has, in hand or handed out, are exactly the pages the loader calls
   usable, but for the kernel's, where the loader put it, and the bitmap's. *)
SupplyAsAnswered ==
    Running =>
        LET base   == response.kernel_address.physical_base
            loaded == base .. base + (kernel.end - kernel.start) - 1
        IN FreePages \cup held =
            {p \in 0 .. g_total_pages - 1 :
                /\ \E e \in UsableExtents(response.memmap) : Bytes(p) \subseteq e.base .. EndOf(e) - 1
                /\ Bytes(p) \cap (loaded \cup BitmapRange) = {}}
=============================================================================

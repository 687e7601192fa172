--------------------------------- MODULE Vmm ---------------------------------
(***************************************************************************)
(* Page tables (mm/vmm.c) and device mappings (mm/mmio.c), one table entry *)
(* at a time.  A walk takes Depth levels, all alike; it is 4 in the code.  *)
(* The processor may walk the tables at any moment on its own account and  *)
(* remembers what it found until it is told to forget: the TLB.            *)
(***************************************************************************)
EXTENDS Naturals, Sequences, FiniteSets

CONSTANTS
    Depth,          \* levels of page table
    Index,          \* the indices of a table
    KernelIndex,    \* those of the upper half, at the top level
    Pages,          \* virtual pages: sequences of Depth indices
    Devices,        \* ranges for mmio_map: sequences of virtual pages
    Frames,         \* the physical pages the PMM gives out
    LoaderFrames,   \* the page tables the boot loader left
    Data,           \* the physical pages that get mapped
    Boot,           \* the loader's top-level table
    LoaderTables,   \* the loader's tables: those of LoaderFrames, by index
    UserFlags, KernelFlags,     \* sets of flags the kernel maps pages with
    MmioOpts,       \* the options mmio_map is called with
    MaxSpaces,      \* no more address spaces than this are created
    None            \* an entry that is not present

Flags   == {"W", "U", "NX", "G", "PCD", "PWT"}
Tables  == Frames \cup LoaderFrames
Entry   == [frame : Tables \cup Data, flags : SUBSET Flags]
Table   == [Index -> Entry \cup {None}]

ASSUME FramesAssumption ==
    Frames \subseteq Nat /\ Frames \cap LoaderFrames = {} /\ Tables \cap Data = {}
ASSUME PagesAssumption  ==
    Depth \in Nat \ {0, 1} /\ Pages \subseteq [1 .. Depth -> Index] /\ KernelIndex \subseteq Index
ASSUME DataAssumption == Data # {} /\ None \notin Tables \cup Data \cup Entry
ASSUME LoaderAssumption == LoaderTables \in [LoaderFrames -> Table] /\ Boot \in LoaderFrames

VARIABLES
    mem,        \* the contents of each table
    pool,       \* the frames the PMM has
    spaces,     \* the top-level tables of the address spaces
    cr3,
    tlb,        \* the translations the processor remembers
    pc,         \* "idle"; "walk" on the way to the entry; "entry" when it is written
    call,       \* the call in progress
    table, level,   \* where its walk is
    rc          \* what the last call returned: "ok" or "failed"

vars == <<mem, pool, spaces, cr3, tlb, pc, call, table, level, rc>>
walk == <<pc, call, table, level>>

Upper(v) == v[1] \in KernelIndex

(* Devices are mapped in the kernel's half, and no flags but a user page's open
   a page to user mode; what is mapped for user mode is not global. *)
ASSUME DevicesAssumption ==
    Devices \subseteq Seq(Pages) \ {<<>>} /\ \A range \in Devices : \A n \in DOMAIN range : Upper(range[n])
ASSUME FlagsAssumption ==
    /\ UserFlags \cup KernelFlags \cup MmioOpts \subseteq SUBSET Flags
    /\ \A flags \in UserFlags : "U" \in flags /\ "G" \notin flags
    /\ \A flags \in KernelFlags : "U" \notin flags

(* The loader's tables form a tree of Depth levels below Boot, in which nothing
   is mapped for user mode, the lower half is empty, and of the kernel's half every
   entry of the top level that will be needed is there. *)
ASSUME LoaderTreeAssumption ==
    /\ \E lev \in [LoaderFrames -> 1 .. Depth] :
          \A t \in LoaderFrames :
             /\ lev[t] = 1 <=> t = Boot
             /\ \A i \in Index :
                   LET e == LoaderTables[t][i] IN
                   e # None => IF lev[t] = Depth THEN e.frame \in Data /\ "U" \notin e.flags
                               ELSE e.frame \in LoaderFrames /\ lev[e.frame] = lev[t] + 1
    /\ \A t, u \in LoaderFrames, i, j \in Index :
          /\ LoaderTables[t][i] # None /\ LoaderTables[u][j] # None
          /\ LoaderTables[t][i].frame = LoaderTables[u][j].frame /\ LoaderTables[t][i].frame \in LoaderFrames
          => t = u /\ i = j
    /\ \A i \in Index \ KernelIndex : LoaderTables[Boot][i] = None
    /\ \A v \in Pages : Upper(v) => LoaderTables[Boot][v[1]] # None

(* The processor's walk: the table it reaches on each level, and what it finds. *)
Reached(root, v) ==
    LET r[l \in 1 .. Depth] ==
            IF l = 1 THEN root
            ELSE IF r[l - 1] \notin Tables \/ mem[r[l - 1]][v[l - 1]] = None THEN None
                 ELSE mem[r[l - 1]][v[l - 1]].frame
    IN r
Translate(root, v) ==
    LET t == Reached(root, v)[Depth] IN IF t \in Tables THEN mem[t][v[Depth]] ELSE None

(* User mode needs the U bit on every level. *)
UserCan(root, v) ==
    /\ Translate(root, v) # None
    /\ \A l \in 1 .. Depth : "U" \in mem[Reached(root, v)[l]][v[l]].flags

Junk == [i \in Index |-> [frame |-> CHOOSE d \in Data : TRUE, flags |-> {"W", "U"}]]
Zero == [i \in Index |-> None]
NoCall == [op |-> "none"]

(* Free frames hold whatever was there before. *)
Init ==
    /\ mem = [f \in Tables |-> IF f \in Frames THEN Junk ELSE LoaderTables[f]]
    /\ pool = Frames
    /\ spaces = {Boot} /\ cr3 = Boot /\ tlb = {}
    /\ pc = "idle" /\ call = NoCall /\ table = Boot /\ level = 1 /\ rc = "ok"

(* A new value in CR3 clears the TLB of all that is not global. *)
AfterFlush(t) == {x \in t : "G" \in x.entry.flags}
write_cr3(root) == cr3' = root /\ tlb' = AfterFlush(tlb)

Lowest == CHOOSE f \in pool : \A g \in pool : f <= g

-----------------------------------------------------------------------------
(* The calls.  op says which; pages are still to be done, the first of them
   under way; back is the CR3 to return to. *)
Begin(op, root, pages, frame, flags, back) ==
    /\ pc = "idle" /\ pc' = "walk"
    /\ call' = [op |-> op, pages |-> pages, frame |-> frame, flags |-> flags, back |-> back]
    /\ table' = root /\ level' = 1
    /\ UNCHANGED <<mem, pool, spaces, rc>>

Ordinary(flags) == flags \ {"PCD", "PWT"}

vmm_map_page(v, d, flags) ==
    /\ Begin("map", cr3, <<v>>, d, Ordinary(flags), None)
    /\ UNCHANGED <<cr3, tlb>>

vmm_map_page_space(space, v, d, flags) ==
    /\ Begin("map", space, <<v>>, d, Ordinary(flags), cr3)
    /\ write_cr3(space)

vmm_unmap_page(v) ==
    /\ Begin("unmap", cr3, <<v>>, None, {}, None)
    /\ UNCHANGED <<cr3, tlb>>

vmm_unmap_page_space(space, v) ==
    /\ Begin("unmap", space, <<v>>, None, {}, cr3)
    /\ write_cr3(space)

(* A space that vmm_create_space failed to create is refused. *)
RefuseSpace ==
    /\ pc = "idle" /\ rc' = "failed"
    /\ UNCHANGED <<mem, pool, spaces, cr3, tlb, walk>>

(* opts->cache and opts->nx are not looked at. *)
DeviceFlags(opts) == (opts \cap {"W", "G"}) \cup {"PCD", "PWT"}

mmio_map(range, d, opts) ==
    /\ Begin("map", cr3, range, d, DeviceFlags(opts), None)
    /\ UNCHANGED <<cr3, tlb>>

mmio_unmap(range) ==
    /\ Begin("unmap_all", cr3, range, None, {}, None)
    /\ UNCHANGED <<cr3, tlb>>

-----------------------------------------------------------------------------
Page    == Head(call.pages)
Current == mem[table][Page[level]]

Descend ==
    /\ pc = "walk" /\ level < Depth /\ Current # None
    /\ table' = Current.frame /\ level' = level + 1
    /\ UNCHANGED <<mem, pool, spaces, cr3, tlb, pc, call, rc>>

(* Mutant: the new table is open to the kernel only. *)
Mut_Link(f) == [frame |-> f, flags |-> {"W"}]

Link(f) == [frame |-> f, flags |-> {"W"} \cup (call.flags \cap {"U"})]

(* Mutant: the new table is not cleared. *)
Mut_NewTable == mem[Lowest]

NewTable == Zero

Extend ==
    /\ pc = "walk" /\ level < Depth /\ Current = None
    /\ call.op = "map" /\ pool # {}
    /\ pool' = pool \ {Lowest}
    /\ mem' = [mem EXCEPT ![Lowest] = NewTable, ![table][Page[level]] = Link(Lowest)]
    /\ table' = Lowest /\ level' = level + 1
    /\ UNCHANGED <<spaces, cr3, tlb, pc, call, rc>>

(* On to the next page of a device, or back to the caller. *)
More == Len(call.pages) > 1
NextPage ==
    /\ call' = [call EXCEPT !.pages = Tail(@)]
    /\ table' = cr3 /\ level' = 1
    /\ pc' = "walk"
    /\ UNCHANGED <<cr3, rc>>

(* The address space to go on in. *)
Back == IF call.back = None THEN cr3 ELSE call.back

Return(result) ==
    /\ pc' = "idle" /\ call' = NoCall /\ table' = Boot /\ level' = 1
    /\ rc' = result
    /\ cr3' = Back

Kept(t) == IF call.back = None THEN t ELSE AfterFlush(t)

(* A table is missing: vmm_unmap_page has nothing to do, and for vmm_map_page
   there is no memory left.  mmio_map gives up at once and leaves the pages it
   has mapped; mmio_unmap goes on. *)
NoTable ==
    /\ pc = "walk" /\ level < Depth /\ Current = None
    /\ call.op = "map" => pool = {}
    /\ IF call.op = "unmap_all" /\ More
       THEN NextPage /\ UNCHANGED tlb
       ELSE Return("failed") /\ tlb' = Kept(tlb)
    /\ UNCHANGED <<mem, pool, spaces>>

(* The entry is written, without its NX bit at first: the same in all three
   functions that change one. *)
Written == IF call.op = "map" THEN [frame |-> call.frame, flags |-> call.flags \ {"NX"}] ELSE None

WriteEntry ==
    /\ pc = "walk" /\ level = Depth
    /\ mem' = [mem EXCEPT ![table][Page[level]] = Written]
    /\ pc' = "entry"
    /\ UNCHANGED <<pool, spaces, cr3, tlb, call, table, level, rc>>

(* Mutant: there is no invlpg. *)
Mut_Invlpg(v) == tlb

Invlpg(v) == {x \in tlb : x.page # v}

FinishEntry ==
    /\ pc = "entry"
    /\ mem' = IF call.op = "map"
              THEN [mem EXCEPT ![table][Page[level]].flags = @ \cup (call.flags \cap {"NX"})]
              ELSE mem
    /\ IF More THEN NextPage /\ tlb' = Invlpg(Page)
               ELSE Return("ok") /\ tlb' = Kept(Invlpg(Page))
    /\ UNCHANGED <<pool, spaces>>

-----------------------------------------------------------------------------
(* Mutant: both halves are copied. *)
Mut_Fresh == mem[Boot]

Fresh == [i \in Index |-> IF i \in KernelIndex THEN mem[Boot][i] ELSE None]

vmm_create_space ==
    /\ pc = "idle" /\ Cardinality(spaces) < MaxSpaces
    /\ IF pool = {} THEN rc' = "failed" /\ UNCHANGED <<mem, pool, spaces>>
       ELSE /\ mem' = [mem EXCEPT ![Lowest] = Fresh]
            /\ spaces' = spaces \cup {Lowest} /\ pool' = pool \ {Lowest}
            /\ rc' = "ok"
    /\ UNCHANGED <<cr3, tlb, walk>>

vmm_switch_space(space) ==
    /\ pc = "idle"
    /\ write_cr3(space)
    /\ UNCHANGED <<mem, pool, spaces, walk, rc>>

(* The processor looks at a page, or at one it guesses will be next. *)
Fill(v) ==
    /\ Translate(cr3, v) # None
    /\ tlb' = tlb \cup {[page |-> v, entry |-> Translate(cr3, v)]}
    /\ UNCHANGED <<mem, pool, spaces, cr3, walk, rc>>

DevicePages == UNION {{range[n] : n \in DOMAIN range} : range \in Devices}

(* The kernel maps user pages in the lower half only, its own only in the upper
   half, and leaves the pages of devices to mmio_map. *)
Suits(v, flags) ==
    /\ v \notin DevicePages
    /\ flags \in IF Upper(v) THEN KernelFlags ELSE UserFlags

Next ==
    \/ \E v \in Pages, d \in Data, flags \in UserFlags \cup KernelFlags :
          /\ Suits(v, flags)
          /\ \/ vmm_map_page(v, d, flags)
             \/ \E s \in spaces : vmm_map_page_space(s, v, d, flags)
    \/ \E v \in Pages : vmm_unmap_page(v) \/ \E s \in spaces : vmm_unmap_page_space(s, v)
    \/ \E range \in Devices : \/ \E d \in Data, opts \in MmioOpts : mmio_map(range, d, opts)
                              \/ mmio_unmap(range)
    \/ RefuseSpace \/ vmm_create_space \/ \E s \in spaces : vmm_switch_space(s)
    \/ Descend \/ Extend \/ NoTable \/ WriteEntry \/ FinishEntry
    \/ \E v \in Pages : Fill(v)

Spec == Init /\ [][Next]_vars

-----------------------------------------------------------------------------
TypeOK ==
    /\ mem \in [Tables -> Table]
    /\ pool \subseteq Frames
    /\ spaces \subseteq Tables /\ cr3 \in spaces
    /\ \A x \in tlb : x.page \in Pages /\ x.entry \in Entry
    /\ pc \in {"idle", "walk", "entry"}
    /\ table \in Tables /\ level \in 1 .. Depth
    /\ rc \in {"ok", "failed"}

(* The frames in use as tables. *)
InUse == Tables \ pool
Links == {l \in InUse \X Index : mem[l[1]][l[2]] # None /\ mem[l[1]][l[2]].frame \in Tables}

(* The tables form trees that share the kernel's half and nothing else: a table
   in use below the top has one parent entry, unless the parents are top-level
   tables and the entry is the kernel's; and no tree reaches a free frame. *)
TablesAreTrees ==
    /\ \A l \in Links : mem[l[1]][l[2]].frame \notin pool \cup spaces
    /\ \A l, m \in Links :
          mem[l[1]][l[2]].frame = mem[m[1]][m[2]].frame =>
            \/ l = m
            \/ l[2] = m[2] /\ l[2] \in KernelIndex /\ {l[1], m[1]} \subseteq spaces

(* What the processor remembers is what the tables of the current space say,
   whatever the order of its own walks and of the kernel's changes; until the
   invlpg it may be wrong about the page that is being changed, no other. *)
TlbCoherent ==
    \A x \in tlb : Translate(cr3, x.page) # x.entry => pc = "entry" /\ x.page = Page

(* User mode reaches every page of the lower half that is mapped, and none of
   the upper half: each table on the way has the right U bit. *)
Privilege ==
    \A s \in spaces, v \in Pages :
        Translate(s, v) # None => (UserCan(s, v) <=> ~Upper(v))

(* Each call changes one page of one space, or one page of the kernel's half in
   all of them, at the moment it writes the entry; a call that fails half-way
   has changed nothing. *)
Maps == [s \in spaces |-> [v \in Pages |-> Translate(s, v)]]
AS == INSTANCE AddressSpaces WITH
        Shared <- {v \in Pages : Upper(v)}, Entries <- Entry, maps <- Maps
AddressSpacesSpec == AS!Spec
=============================================================================

------------------------------ MODULE BootInfo ------------------------------
(***************************************************************************)
(* What the boot loader answers (arch/x86_64/boot/limine.c), the kernel's  *)
(* copy of it and the report it prints (boot/boot_info.c, core/print.c).   *)
(* Numbers keep the relative widths of their C types, counted in           *)
(* hexadecimal digits; a string stands for itself; a pointer that nobody   *)
(* follows is the number it prints as; labels and layout are left out.     *)
(***************************************************************************)
EXTENDS Integers, Sequences, SequencesExt, TLC

CONSTANTS
    Digits,     \* the hexadecimal digits of 8, 16, 32 and 64 bits
    Responses,  \* what the loader may answer to all the requests
    Null

ASSUME DigitsAssumption ==
    /\ Digits \in [{8, 16, 32, 64} -> Nat \ {0}]
    /\ Digits[8] <= Digits[16] /\ Digits[16] <= Digits[32] /\ Digits[32] <= Digits[64]

VARIABLES
    response,       \* of each request: what the loader answered, or Null
    g_boot_info,    \* the kernel's copies
    report,         \* the lines printed, each a path of fields and a text
    done            \* the calls made

infoVars == <<response, g_boot_info, report, done>>

Power[n \in 0 .. Digits[64]] == IF n = 0 THEN 1 ELSE 16 * Power[n - 1]
Values(width) == Power[Digits[width]]

-----------------------------------------------------------------------------
(* The protocol: the type of each field of each structure.  A type in the plural
   is an array of pointers, counted by the field CountOf names. *)
Of(type, fields) == [f \in fields |-> type]
f ++ g           == [x \in DOMAIN f \cup DOMAIN g |-> IF x \in DOMAIN f THEN f[x] ELSE g[x]]
Plain(fields)    == Of("u64", fields \cup {"revision"})

Layout == [
    hhdm             |-> Plain({"offset"}),
    bootloader_info  |-> Plain({}) ++ Of("string", {"name", "version"}),
    cmdline          |-> Plain({}) ++ Of("string", {"cmdline"}),
    firmware_type    |-> Plain({"firmware_type"}),
    stack_size       |-> Plain({}),
    paging_mode      |-> Plain({"mode"}),
    entry_point      |-> Plain({}),
    kernel           |-> Plain({}) ++ Of("file", {"executable_file"}),
    module           |-> Plain({"module_count"}) ++ Of("files", {"modules"}),
    smbios           |-> Plain({"entry_32", "entry_64"}),
    efi_system_table |-> Plain({"address"}),
    efi_memmap       |-> Plain({"memmap", "memmap_size", "desc_size", "desc_version"}),
    boot_date        |-> Plain({}) ++ Of("i64", {"timestamp"}),
    device_tree_blob |-> Plain({"dtb_ptr"}),
    riscv_bsp_hartid |-> Plain({"bsp_hartid"}),
    performance      |-> Plain({"reset_usec", "init_usec", "exec_usec"}),
    kernel_address   |-> Plain({"physical_base", "virtual_base"}),
    memmap           |-> Plain({"entry_count"}) ++ Of("memmap_entries", {"entries"}),
    acpi             |-> Plain({"address"}),
    smp              |-> Plain({"cpu_count"}) ++ Of("u32", {"flags", "bsp_lapic_id"}) ++ Of("mp_infos", {"cpus"}),
    framebuffer      |-> Plain({"framebuffer_count"}) ++ Of("screens", {"framebuffers"}),
    file             |-> Plain({"address", "size"}) ++ Of("string", {"path", "string"})
                         ++ Of("u32", {"media_type", "unused", "tftp_ip", "tftp_port", "partition_index", "mbr_disk_id"})
                         ++ Of("uuid", {"gpt_disk_uuid", "gpt_part_uuid", "part_uuid"}),
    memmap_entry     |-> Of("u64", {"base", "length", "type"}),
    mp_info          |-> Of("u32", {"processor_id", "lapic_id"}) ++ Of("u64", {"reserved", "goto_address", "extra_argument"}),
    screen           |-> Of("u64", {"address", "width", "height", "pitch", "edid_size", "edid", "mode_count"})
                         ++ Of("u16", {"bpp"}) ++ Of("u8", {"memory_model", "red_mask_size", "red_mask_shift",
                               "green_mask_size", "green_mask_shift", "blue_mask_size", "blue_mask_shift"})
                         ++ Of("modes", {"modes"}),
    mode             |-> Of("u64", {"pitch", "width", "height"})
                         ++ Of("u16", {"bpp"}) ++ Of("u8", {"memory_model", "red_mask_size", "red_mask_shift",
                               "green_mask_size", "green_mask_shift", "blue_mask_size", "blue_mask_shift"}) ]

Bits    == [u8 |-> 8, u16 |-> 16, u32 |-> 32, u64 |-> 64]
CountOf == [modules |-> "module_count", entries |-> "entry_count", cpus |-> "cpu_count",
            framebuffers |-> "framebuffer_count", modes |-> "mode_count"]
Element == [files |-> "file", memmap_entries |-> "memmap_entry", mp_infos |-> "mp_info", screens |-> "screen",
            modes |-> "mode"]

(* The values that have a name. *)
Named == [firmware_type |-> 0 .. 3, mode |-> 0 .. 1, type |-> 0 .. 8, media_type |-> 0 .. 2, memory_model |-> {1}]

Requests ==
    {"bootloader_info", "cmdline", "firmware_type", "stack_size", "hhdm", "framebuffer", "paging_mode",
     "smp", "memmap", "entry_point", "kernel", "module", "acpi", "smbios", "efi_system_table", "efi_memmap",
     "boot_date", "kernel_address", "device_tree_blob", "riscv_bsp_hartid", "performance"}

(* A place is a path, the type of the structure there, and the structure or Null.
   It points to other places; those no more than two pointers from a response are
   all, as no structure of the protocol is deeper. *)
Single(f) == <<f, -1>>
Pointees(place) ==
    LET path == place[1] type == Layout[place[2]] v == place[3]
    IN {<<Append(path, Single(f)), "file", v[f]>> : f \in {g \in DOMAIN type : type[g] = "file"}}
       \cup UNION {{<<Append(path, <<f, j>>), Element[type[f]], IF v[f] = Null THEN Null ELSE v[f][j]>> :
                       j \in 1 .. v[CountOf[f]]} : f \in {g \in DOMAIN type : type[g] \in DOMAIN Element}}
Further(places) == UNION {Pointees(p) : p \in {q \in places : q[3] # Null}}
Places(r, v) ==
    LET top == {<< <<Single(r)>>, r, v>>}
    IN top \cup Further(top) \cup Further(Further(top))

(* What is found there has its type. *)
Fits(type, f, v) ==
    /\ type \in DOMAIN Bits    => v[f] \in 0 .. Values(Bits[type]) - 1
    /\ type = "i64"            => v[f] \in -(Values(64) \div 2) .. Values(64) \div 2 - 1
    /\ type = "uuid"           => v[f] \in [a : 0 .. Values(32) - 1, b : 0 .. Values(16) - 1,
                                           c : 0 .. Values(16) - 1, d : [1 .. 8 -> 0 .. Values(8) - 1]]
    /\ type \in DOMAIN Element => v[f] = Null \/ DOMAIN v[f] = 1 .. v[CountOf[f]]
Sound(place) ==
    LET type == Layout[place[2]] v == place[3]
    IN v = Null \/ (v = [f \in DOMAIN type |-> v[f]] /\ \A f \in DOMAIN type : Fits(type[f], f, v))

ASSUME ResponsesAssumption ==
    \A answers \in Responses : \A r \in Requests : \A place \in Places(r, answers[r]) : Sound(place)

Zeroed(r) == [f \in DOMAIN Layout[r] |-> IF Layout[r][f] \in {"u64", "u32", "i64"} THEN 0 ELSE Null]

-----------------------------------------------------------------------------
(* print.c.  A text is a number, as its sign, base and digits; a string; the
   groups of a UUID; the name of a value; or one of two fixed words. *)
Word(w) == <<w>>

(* Mutant: the digits are put out in the order they are found. *)
Mut_print_uint(v, base) ==
    LET digits[n \in 0 .. v] == IF n < base THEN <<n>> ELSE <<n % base>> \o digits[n \div base]
    IN digits[v]

print_uint(v, base) ==
    LET digits[n \in 0 .. v] == IF n < base THEN <<n>> ELSE Append(digits[n \div base], n % base)
    IN digits[v]

Number(minus, base, digits) == <<"number", minus, base, digits>>

kvprintf(conversion, arg) ==
    CASE conversion = "llu" -> Number(FALSE, 10, print_uint(arg, 10))
      [] conversion = "llx" -> Number(FALSE, 16, print_uint(arg, 16))
      [] conversion = "u"   -> Number(FALSE, 10, print_uint(arg % Values(32), 10))
      [] conversion = "x"   -> Number(FALSE, 16, print_uint(arg % Values(32), 16))
      [] conversion = "s"   -> IF arg = Null THEN Word("null") ELSE <<"string", arg>>

(* boot_info.c: the texts it makes itself. *)
type_name(field, v) == <<"name", IF v \in Named[field] THEN v ELSE -1>>

print_hex_fixed(v, width) ==
    [n \in 1 .. Digits[width] |-> (v \div Power[Digits[width] - n]) % 16]

print_uuid(u) ==
    <<"uuid", << print_hex_fixed(u.a, 32), print_hex_fixed(u.b, 16), print_hex_fixed(u.c, 16),
                 print_hex_fixed(u.d[1], 8) \o print_hex_fixed(u.d[2], 8),
                 FlattenSeq([n \in 1 .. 6 |-> print_hex_fixed(u.d[n + 2], 8)]) >> >>

(* Mutant: the value is negated after one was added, and the one not taken off. *)
Mut_print_signed(v) ==
    Number(v < 0, 10, print_uint(IF v < 0 THEN (-(v + 1)) % Values(64) ELSE v, 10))

print_signed(v) ==
    Number(v < 0, 10, print_uint(IF v < 0 THEN ((-(v + 1)) % Values(64)) + 1 ELSE v, 10))

-----------------------------------------------------------------------------
(* The lines of a structure: how a field is printed; after those, what the field
   leads to that points to others.  A line that shows several fields counts as
   several, and one field twice, one that is only a heading as none. *)
Line(how, field)    == [how |-> how, field |-> field]
Flat(own)           == [own |-> own, nest |-> [how |-> "none"]]
Pointed(own, f, of) == [own |-> own, nest |-> [how |-> "pointed", field |-> f, of |-> of]]
Each(own, f, of)    == [own |-> own, nest |-> [how |-> "each", field |-> f, of |-> of]]
Llu(fields) == [n \in DOMAIN fields |-> Line("llu", fields[n])]
Llx(fields) == [n \in DOMAIN fields |-> Line("llx", fields[n])]
Uint(fields)   == [n \in DOMAIN fields |-> Line("u", fields[n])]
Hex(fields)   == [n \in DOMAIN fields |-> Line("x", fields[n])]
Str(fields)   == [n \in DOMAIN fields |-> Line("s", fields[n])]
Name(field) == << Line("name", field) >>

print_limine_file == Flat(
    Llu(<<"revision">>) \o Llx(<<"address">>) \o Llu(<<"size">>) \o Str(<<"path", "string">>)
    \o Uint(<<"media_type">>) \o Name("media_type") \o Hex(<<"unused", "tftp_ip">>)
    \o Uint(<<"tftp_port", "partition_index">>) \o Hex(<<"mbr_disk_id">>)
    \o << Line("uuid", "gpt_disk_uuid"), Line("uuid", "gpt_part_uuid"), Line("uuid", "part_uuid") >>)
print_limine_file_indexed == print_limine_file

PixelLines == Uint(<<"bpp", "memory_model">>) \o Name("memory_model")
    \o Uint(<<"red_mask_size", "red_mask_shift", "green_mask_size", "green_mask_shift",
           "blue_mask_size", "blue_mask_shift">>)
ModeLines   == Flat(Llu(<<"pitch", "width", "height">>) \o PixelLines)
ScreenLines == Each(Llx(<<"address">>) \o Llu(<<"width", "height", "pitch">>) \o PixelLines
    \o Llu(<<"edid_size">>) \o Llx(<<"edid">>) \o Llu(<<"mode_count">>), "modes", ModeLines)
EntryLines  == Flat(Llx(<<"base", "length">>) \o Llu(<<"type">>) \o Name("type"))
CpuLines    == Flat(Uint(<<"processor_id", "lapic_id">>) \o Llx(<<"reserved", "goto_address", "extra_argument">>))

(* The sections of the report, each after the revision of the answer. *)
LoaderSections == <<
    <<"hhdm",             Flat(Llx(<<"offset">>))>>,
    <<"bootloader_info",  Flat(Str(<<"name", "version">>))>>,
    <<"cmdline",          Flat(Str(<<"cmdline">>))>>,
    <<"firmware_type",    Flat(Llu(<<"firmware_type">>) \o Name("firmware_type"))>>,
    <<"stack_size",       Flat(<<>>)>>,
    <<"paging_mode",      Flat(Llu(<<"mode">>) \o Name("mode"))>>,
    <<"entry_point",      Flat(<<>>)>> >>
FileSections == <<
    <<"kernel",           Pointed(<<>>, "executable_file", print_limine_file)>>,
    <<"module",           Each(Llu(<<"module_count">>), "modules", print_limine_file_indexed)>> >>
FirmwareSections == <<
    <<"smbios",           Flat(Llx(<<"entry_32", "entry_64">>))>>,
    <<"efi_system_table", Flat(Llx(<<"address">>))>>,
    <<"efi_memmap",       Flat(Llx(<<"memmap">>) \o Llu(<<"memmap_size", "desc_size", "desc_version">>))>>,
    <<"boot_date",        Flat(<< Line("signed", "timestamp") >>)>>,
    <<"device_tree_blob", Flat(Llx(<<"dtb_ptr">>))>>,
    <<"riscv_bsp_hartid", Flat(Llu(<<"bsp_hartid">>))>>,
    <<"performance",      Flat(Llu(<<"reset_usec", "init_usec", "exec_usec">>))>> >>
MachineSections == <<
    <<"kernel_address",   Flat(Llx(<<"physical_base", "virtual_base">>))>>,
    <<"memmap",           Each(Llu(<<"entry_count">>), "entries", EntryLines)>>,
    <<"acpi",             Flat(Llx(<<"address">>))>>,
    <<"smp",              Each(Hex(<<"flags">>) \o << Line("x2apic", "flags") >> \o Uint(<<"bsp_lapic_id">>)
                               \o Llu(<<"cpu_count">>), "cpus", CpuLines)>> >>
Sections == LoaderSections \o FileSections \o FirmwareSections \o MachineSections
Screens == <<"framebuffer", Each(Llu(<<"framebuffer_count">>), "framebuffers", ScreenLines)>>

At(path, step, text) == << [path |-> Append(path, step), text |-> text] >>

PrintLine(l, v) ==
    CASE l.how = "name"   -> type_name(l.field, v[l.field])
      [] l.how = "uuid"   -> print_uuid(v[l.field])
      [] l.how = "signed" -> print_signed(v[l.field])
      [] l.how = "x2apic" -> Word(IF v[l.field] % 2 = 1 THEN "yes" ELSE "no")
      [] OTHER            -> kvprintf(l.how, v[l.field])

Own(path, own, v) ==
    [n \in DOMAIN own |-> [path |-> Append(path, Single(own[n].field)), text |-> PrintLine(own[n], v)]]

(* Mutant: an array that is not there is read all the same, as empty. *)
Mut_Steps(l, v) ==
    CASE l.how = "none"    -> <<>>
      [] l.how = "pointed" -> << Single(l.field) >>
      [] l.how = "each"    -> [j \in 1 .. IF v[l.field] = Null THEN 0 ELSE v[CountOf[l.field]] |-> <<l.field, j>>]

(* The steps to what a nest leads to, what is found there, and what is said of
   an array that is missing beside its count. *)
Steps(l, v) ==
    CASE l.how = "none"    -> <<>>
      [] l.how = "pointed" -> << Single(l.field) >>
      [] l.how = "each"    -> [j \in 1 .. v[CountOf[l.field]] |-> <<l.field, j>>]
Item(l, v, n) ==
    CASE l.how = "pointed" -> v[l.field]
      [] l.how = "each"    -> IF v[l.field] = Null THEN Null ELSE v[l.field][n]
Missing(path, l, v) ==
    IF l.how = "each" /\ v[l.field] = Null /\ v[CountOf[l.field]] > 0
    THEN At(path, Single(l.field), Word("null")) ELSE <<>>

(* All lines of a structure with a nest; Inner has those of what it leads to. *)
Lines(path, d, v, Inner(_, _, _)) ==
    Own(path, d.own, v) \o Missing(path, d.nest, v) \o
    FlattenSeq([n \in DOMAIN Steps(d.nest, v) |->
        LET step == Steps(d.nest, v)[n]
            item == Item(d.nest, v, n)
        IN IF item = Null THEN At(path, step, Word("null")) ELSE Inner(Append(path, step), d.nest.of, item)])

(* The nests are two deep at most: the modes of a screen. *)
FlatLines(path, d, v) == Own(path, d.own, v)
ItemLines(path, d, v) == Lines(path, d, v, FlatLines)
AllLines(path, d, v)  == Lines(path, d, v, ItemLines)

(* Whether there is an answer is read off the request, what it was off the copy;
   the copy has no revision for the HHDM, which is read off the answer too. *)
Source(r) == IF r = "hhdm" THEN [response[r] EXCEPT !.offset = g_boot_info[r]] ELSE g_boot_info[r]
Printed(section) ==
    LET r == section[1]
    IN IF response[r] = Null THEN At(<<>>, Single(r), Word("not provided"))
       ELSE AllLines(<<Single(r)>>, [section[2] EXCEPT !.own = Llu(<<"revision">>) \o @], Source(r))

-----------------------------------------------------------------------------
InfoInit ==
    /\ response \in Responses
    /\ g_boot_info = [r \in Requests |-> IF r = "hhdm" THEN 0 ELSE Zeroed(r)]
    /\ report = <<>> /\ done = {}

(* Mutant: the modules are forgotten. *)
Mut_Copied == Requests \ {"module"}

Copied ==
    {"kernel_address", "memmap", "kernel", "bootloader_info", "boot_date", "acpi", "cmdline",
     "device_tree_blob", "efi_memmap", "efi_system_table", "entry_point", "firmware_type", "framebuffer",
     "hhdm", "module", "paging_mode", "performance", "riscv_bsp_hartid", "smbios", "smp", "stack_size"}

boot_info_init ==
    /\ done = {} /\ done' = {"boot_info_init"}
    /\ g_boot_info' = [r \in Requests |->
            IF response[r] = Null \/ r \notin Copied THEN IF r = "hhdm" THEN 0 ELSE Zeroed(r)
            ELSE IF r = "hhdm" THEN response[r].offset ELSE response[r]]
    /\ UNCHANGED <<response, report>>

print_boot_info ==
    /\ "boot_info_init" \in done /\ "print_boot_info" \notin done
    /\ report' = report \o FlattenSeq([n \in DOMAIN Sections |-> Printed(Sections[n])])
    /\ done' = done \cup {"print_boot_info"}
    /\ UNCHANGED <<response, g_boot_info>>

(* Nothing calls it yet; it may be called at any time after the copy. *)
print_framebuffer_info ==
    /\ "boot_info_init" \in done /\ "print_framebuffer_info" \notin done
    /\ report' = report \o Printed(Screens)
    /\ done' = done \cup {"print_framebuffer_info"}
    /\ UNCHANGED <<response, g_boot_info>>

InfoNext == boot_info_init \/ print_boot_info \/ print_framebuffer_info

InfoSpec == InfoInit /\ [][InfoNext]_infoVars

-----------------------------------------------------------------------------
(* What a reader of a text knows: the number it denotes, or the text itself. *)
Horner(base, digits) ==
    LET value[n \in 0 .. Len(digits)] == IF n = 0 THEN 0 ELSE value[n - 1] * base + digits[n]
    IN value[Len(digits)]
Read(text) ==
    CASE text[1] = "number" -> <<"number", (IF text[2] THEN -1 ELSE 1) * Horner(text[3], text[4])>>
      [] text[1] = "uuid"   -> <<"uuid", [n \in 1 .. 5 |-> Horner(16, text[2][n])]>>
      [] OTHER              -> text

(* What is true of a structure, field by field, but for what it points to. *)
Uuid(u) == << u.a, u.b, u.c, u.d[1] * Values(8) + u.d[2], Horner(Values(8), SubSeq(u.d, 3, 8)) >>

FieldFacts(type, f, v) ==
    CASE type \in DOMAIN Bits \cup {"i64"} ->
            {<<"number", v[f]>>}
            \cup (IF f \in DOMAIN Named THEN {type_name(f, v[f])} ELSE {})
            \cup (IF f = "flags" THEN {Word(IF v[f] % 2 = 1 THEN "yes" ELSE "no")} ELSE {})
      [] type = "string" -> {IF v[f] = Null THEN Word("null") ELSE <<"string", v[f]>>}
      [] type = "uuid"   -> {<<"uuid", Uuid(v[f])>>}
      [] type = "file"   -> {}
      [] OTHER           -> IF v[f] = Null /\ v[CountOf[f]] > 0 THEN {Word("null")} ELSE {}

Facts(place) ==
    LET path == place[1] type == Layout[place[2]] v == place[3]
    IN IF v = Null THEN {<<path, Word("null")>>}
       ELSE UNION {{<<Append(path, Single(f)), t>> : t \in FieldFacts(type[f], f, v)} : f \in DOMAIN type}

Reported ==
    (IF "print_boot_info" \in done THEN Requests \ {"framebuffer"} ELSE {})
    \cup (IF "print_framebuffer_info" \in done THEN {"framebuffer"} ELSE {})

(* The report says of every request either that it was not answered or the value
   of each field of the answer, through all arrays and pointers and to the last
   bit of its type; and it says nothing else and nothing twice. *)
ReportTrue ==
    LET said == [n \in DOMAIN report |-> <<report[n].path, Read(report[n].text)>>]
    IN /\ {said[n] : n \in DOMAIN said} =
            UNION {IF response[r] = Null THEN {<< <<Single(r)>>, Word("not provided")>>}
                   ELSE UNION {Facts(place) : place \in Places(r, response[r])} : r \in Reported}
       /\ \A n, m \in DOMAIN said : said[n] = said[m] => n = m
=============================================================================

-------------------------------- MODULE Boot --------------------------------
(***************************************************************************)
(* From the BIOS to the shell: src/boot_stage1.asm and src/boot_stage2.asm *)
(* load the kernel and the memory map, build page tables and enter long    *)
(* mode; src/kernel_entry.asm and kernel_main of src/kernel.c clear bss    *)
(* and set up src/gdt.c, src/idt.c, src/trap.c and the rest.  Memory is    *)
(* followed as the list of ranges written so far, at their real addresses. *)
(* The BIOS is external: any of its calls may fail.                        *)
(***************************************************************************)
EXTENDS Integers, Sequences, SequencesExt

CONSTANTS
    KernelSizes,       \* KERNEL_SIZE_BYTES of the builds considered
    BssBytes,          \* what the linker reserves behind the image
    StackBytes,        \* what the kernel needs below its stack top
    STAGE2_SECTORS,
    MEMORY_MAP_LIMIT,  \* 64
    MapLengths,        \* how many entries the firmware's memory map may have
    FailingCalls,      \* bound: the calls for an entry, from 0 on, that may fail
    LbaWord,           \* 2^32: the low half of a sector number
    HalfWord,          \* 2^16: the low parts of a handler's address
    StubBase,          \* where the trap stubs lie, 16 bytes each
    TssAddress         \* where the task state segment lies

SECTOR_SIZE == 512
BOOT_INFO_ADDR == 20480      \* 0x5000
BOOT_INFO_SIZE == 56
MEMORY_MAP_ADDR == 21504     \* 0x5400
ENTRY_SIZE == 24
PAGE_TABLE_BASE == 4096      \* 0x1000
STAGE2_ADDR == 32768         \* 0x8000
KERNEL_ADDR == 65536         \* 0x10000
STACK_TOP == 589824          \* 0x90000
PMM_MAX_MEMORY == 1073741824 \* 2^30
HUGE_PAGE == 2097152         \* 2^21

Region(lo, bytes) == [lo |-> lo, hi |-> lo + bytes]
Disjoint(a, b) == a.hi <= b.lo \/ b.hi <= a.lo
Inside(a, b) == b.lo <= a.lo /\ a.hi <= b.hi

RoundUp(n, unit) == ((n + unit - 1) \div unit) * unit

\* scripts/build_image.sh: the sectors of the image, and where they begin.
KERNEL_SECTORS(bytes) == RoundUp(bytes, SECTOR_SIZE) \div SECTOR_SIZE
KERNEL_START_LBA == 1 + STAGE2_SECTORS

\* linker.ld: bss begins with a page of its own.
Bss(bytes) == Region(RoundUp(KERNEL_ADDR + bytes, 4096), BssBytes)

\* Nothing in the build checks that kernel and stack do not meet, nor stage 2
\* and the kernel.
ASSUME FitsAssumption ==
    /\ \A bytes \in KernelSizes : Bss(bytes).hi <= STACK_TOP - StackBytes
    /\ STAGE2_SECTORS * SECTOR_SIZE <= KERNEL_ADDR - STAGE2_ADDR

ASSUME BuildAssumption ==
    /\ KernelSizes \subseteq Nat /\ BssBytes \in Nat /\ StackBytes \in Nat
    /\ STAGE2_SECTORS \in Nat /\ MEMORY_MAP_LIMIT \in 0 .. 64 /\ MapLengths \subseteq Nat
    /\ LbaWord \in Nat /\ KERNEL_START_LBA < LbaWord
    /\ HalfWord \in Nat /\ \E b \in 1 .. HalfWord : b * b = HalfWord
    /\ StubBase \in Nat /\ TssAddress \in Nat

VARIABLES
    size, length, ending,        \* the build; the firmware's map and how it ends
    at, mode, interrupts,        \* the program's place, the CPU's mode and flag
    ebx, di, memory_map_count,   \* collect_e820_map
    slots,                       \* address -> entry stored there
    given, cut,                  \* history: entries given, a call that failed
    kernel_sectors_left, kernel_segment, lba_low, lba_high,
    unreadable,                  \* history: a disk read failed
    writes,                      \* the ranges written, in order
    boot_info,
    gdtr, tr, idt, pic,          \* descriptor tables, interrupt controller
    ready, reserved              \* kernel parts set up, ranges of pmm_init

firmware == <<size, length, ending>>
e820 == <<ebx, di, memory_map_count, slots, given, cut>>
disk == <<kernel_sectors_left, kernel_segment, lba_low, lba_high>>
loader == <<firmware, e820, disk, unreadable, boot_info>>
tables == <<gdtr, tr, idt, pic>>
kernel == <<ready, reserved>>
settled == <<loader, at, mode, writes, tables, kernel>>
bootVars == <<settled, interrupts>>

\* A range of sectors from lba on, and a range of anything else.
WriteSectors(region, lba) ==
    writes' = Append(writes, [lo |-> region.lo, hi |-> region.hi, lba |-> lba])
Write(region) == WriteSectors(region, -1)
-----------------------------------------------------------------------------
(* Stage 1.                                                                *)

BootInit ==
    /\ size \in KernelSizes
    /\ length \in MapLengths
    /\ ending \in {"zero", "carry", "cycle"}
    /\ at = "stage1" /\ mode = "real" /\ interrupts = TRUE
    /\ ebx = 0 /\ di = 0 /\ memory_map_count = 0
    /\ slots = <<>> /\ given = <<>> /\ cut = FALSE
    /\ kernel_sectors_left = 0 /\ kernel_segment = 0 /\ lba_low = 0 /\ lba_high = 0
    /\ unreadable = FALSE
    /\ writes = <<>>
    /\ boot_info = [magic |-> FALSE, entries |-> 0, kernel_end |-> 0]
    /\ gdtr = [limit |-> 0, entry |-> <<>>] /\ tr = 0
    /\ idt = <<>> /\ pic = [base |-> 8, open |-> 0 .. 7]
    /\ ready = {} /\ reserved = {}

\* disk_error, load_error and a panic: cli and hlt, for ever.
Stop == at' = "halted" /\ interrupts' = FALSE

\* int 0x13: reads count sectors to segment:0, or fails.
DiskRead(lba, count, segment, next) ==
    \/ /\ WriteSectors(Region(segment * 16, count * SECTOR_SIZE), lba)
       /\ next
       /\ UNCHANGED unreadable
    \/ /\ unreadable' = TRUE
       /\ Stop
       /\ UNCHANGED <<writes, disk>>

stage1 ==
    /\ at = "stage1"
    /\ DiskRead(1, STAGE2_SECTORS, STAGE2_ADDR \div 16,
                at' = "stage2" /\ interrupts' = TRUE /\ UNCHANGED disk)
    /\ UNCHANGED <<firmware, mode, e820, boot_info, tables, kernel>>
-----------------------------------------------------------------------------
(* Stage 2 in real mode.                                                   *)

stage2_start ==
    /\ at = "stage2"
    /\ ebx' = 0
    /\ di' = MEMORY_MAP_ADDR
    /\ memory_map_count' = 0
    /\ at' = "e820"
    /\ UNCHANGED <<firmware, mode, interrupts, slots, given, cut, disk, unreadable,
                   writes, boot_info, tables, kernel>>

\* Whether the BIOS has an entry to give for ebx; the next value of ebx: 0
\* behind the last entry, or a value whose call fails, or one that begins anew.
HasEntry == length > 0 /\ (ebx < length \/ ending = "cycle")
Entry == (ebx % length) + 1
Continuation == IF Entry = length /\ ending = "zero" THEN 0 ELSE Entry

Slot == Region(di, ENTRY_SIZE)

\* Mutant: the next entry overwrites this one.
StoredInPlace == di' = di /\ memory_map_count' = memory_map_count + 1

Stored == di' = di + ENTRY_SIZE /\ memory_map_count' = memory_map_count + 1

\* An entry is given; ebx = 0 ends the loop.
e820_entry ==
    /\ at = "e820"
    /\ memory_map_count < MEMORY_MAP_LIMIT
    /\ HasEntry
    /\ Write(Slot)
    /\ slots' = [a \in DOMAIN slots \cup {di} |-> IF a = di THEN Entry ELSE slots[a]]
    /\ given' = Append(given, Entry)
    /\ Stored
    /\ ebx' = Continuation
    /\ at' = IF Continuation = 0 THEN "load_kernel" ELSE at
    /\ UNCHANGED <<firmware, mode, interrupts, cut, disk, unreadable, boot_info, tables,
                   kernel>>

\* Carry or a wrong signature ends the loop, behind the last entry or early;
\* the slot has its last word written already.
e820_fails ==
    /\ at = "e820"
    /\ memory_map_count < MEMORY_MAP_LIMIT
    /\ HasEntry => memory_map_count \in FailingCalls
    /\ cut' = HasEntry
    /\ Write(Slot)
    /\ at' = "load_kernel"
    /\ UNCHANGED <<firmware, mode, interrupts, ebx, di, memory_map_count, slots, given,
                   disk, unreadable, boot_info, tables, kernel>>

e820_full ==
    /\ at = "e820"
    /\ memory_map_count >= MEMORY_MAP_LIMIT
    /\ at' = "load_kernel"
    /\ UNCHANGED <<loader, mode, interrupts, writes, tables, kernel>>

load_kernel ==
    /\ at = "load_kernel"
    /\ kernel_sectors_left' = KERNEL_SECTORS(size)
    /\ kernel_segment' = KERNEL_ADDR \div 16
    /\ lba_low' = KERNEL_START_LBA % LbaWord
    /\ lba_high' = 0
    /\ at' = "next_chunk"
    /\ UNCHANGED <<firmware, mode, interrupts, e820, unreadable, writes, boot_info,
                   tables, kernel>>

Chunk == IF kernel_sectors_left <= 127 THEN kernel_sectors_left ELSE 127

\* Mutant: without the adc.
CarryLost == UNCHANGED lba_high

\* adc dword [kernel_lba_high], 0.
Carry == lba_high' = lba_high + ((lba_low + Chunk) \div LbaWord)

next_chunk ==
    /\ at = "next_chunk"
    /\ kernel_sectors_left > 0
    /\ DiskRead(lba_high * LbaWord + lba_low, Chunk, kernel_segment,
                /\ kernel_sectors_left' = kernel_sectors_left - Chunk
                /\ kernel_segment' = (kernel_segment + Chunk * 32) % 65536
                /\ lba_low' = (lba_low + Chunk) % LbaWord
                /\ Carry
                /\ UNCHANGED <<at, interrupts>>)
    /\ UNCHANGED <<firmware, mode, e820, boot_info, tables, kernel>>

\* Behind the last chunk; fill_boot_info.
fill_boot_info ==
    /\ at = "next_chunk"
    /\ kernel_sectors_left = 0
    /\ Write(Region(BOOT_INFO_ADDR, BOOT_INFO_SIZE))
    /\ boot_info' = [magic |-> TRUE, entries |-> memory_map_count,
                     kernel_end |-> KERNEL_ADDR + size]
    /\ at' = "protect"
    /\ UNCHANGED <<firmware, mode, interrupts, e820, disk, unreadable, tables, kernel>>
-----------------------------------------------------------------------------
(* Stage 2 in protected and long mode.                                     *)

Descriptor(access, flags) == [access |-> access, flags |-> flags]
Table(limit, entry) == [limit |-> limit, entry |-> entry]

\* The code segment at selector 8 and the data segments at 16.
gdt32 == Table(23, [s \in {8, 16} |-> IF s = 8 THEN Descriptor(154, 207)
                                               ELSE Descriptor(146, 207)])
gdt64 == Table(23, [s \in {8, 16} |-> IF s = 8 THEN Descriptor(154, 32)
                                               ELSE Descriptor(146, 0)])

\* The descriptor of a selector: inside the table, with the access byte.
Loads(table, selector, bytes, access) ==
    /\ selector \in DOMAIN table.entry
    /\ selector + bytes - 1 <= table.limit
    /\ table.entry[selector].access = access

LongMode(table, selector) == table.entry[selector].flags = 32

\* cs and the data segments from a table; anything else is a fault, and with
\* no IDT yet that resets the machine.
Segments(table, long) ==
    /\ Loads(table, 8, 8, 154) /\ LongMode(table, 8) = long
    /\ Loads(table, 16, 8, 146)

EnterWith(table, long, next) ==
    /\ gdtr' = table
    /\ at' = IF Segments(table, long) THEN next ELSE "reset"

\* cli, lgdt, enable_a20, cr0 and the far jump.
protected_mode ==
    /\ at = "protect"
    /\ interrupts' = FALSE
    /\ mode' = "protected"
    /\ EnterWith(gdt32, FALSE, "page_tables")
    /\ UNCHANGED <<loader, writes, tr, idt, pic, kernel>>

\* Mutant: counts bytes where rep stosd counts double words, and doubles them.
PageTableBytesDoubled == 6144 * 4

\* rep stosd: three tables of a page each.
PageTableBytes == 3072 * 4

\* .map_loop: what the entries of the page directory point to.
Directory == [k \in 0 .. 511 |-> k * HUGE_PAGE]

setup_page_tables ==
    /\ at = "page_tables"
    /\ Write(Region(PAGE_TABLE_BASE, PageTableBytes))
    /\ at' = "long"
    /\ UNCHANGED <<loader, mode, interrupts, tables, kernel>>

\* lgdt, PAE, LME, paging and the far jump; call 0x10000.
long_mode_start ==
    /\ at = "long"
    /\ mode' = "long"
    /\ EnterWith(gdt64, TRUE, "entry")
    /\ UNCHANGED <<loader, interrupts, writes, tr, idt, pic, kernel>>
-----------------------------------------------------------------------------
(* The kernel.                                                             *)

\* _start of kernel_entry.asm.
kernel_entry ==
    /\ at = "entry"
    /\ Write(Bss(size))
    /\ at' = "console_init"
    /\ UNCHANGED <<loader, mode, interrupts, tables, kernel>>

\* vga_initialize clears the screen; then the check of the boot record.
console_init ==
    /\ at = "console_init"
    /\ Write(Region(753664, 4000))
    /\ IF boot_info.magic
         THEN at' = "boot_init" /\ UNCHANGED interrupts
         ELSE Stop
    /\ UNCHANGED <<loader, mode, tables, kernel>>

\* The parts of kernel_main that set variables of their own, modelled elsewhere.
Calls(part, next) ==
    /\ at = part
    /\ at' = next
    /\ ready' = ready \cup {part}
    /\ UNCHANGED <<loader, mode, interrupts, writes, tables, reserved>>

boot_init == Calls("boot_init", "gdt_init")

\* A number in parts of HalfWord, or of the square root of it, and back.
HalfByte == CHOOSE b \in 1 .. HalfWord : b * b = HalfWord
LowPart(n) == n % HalfWord
MidPart(n) == (n \div HalfWord) % HalfWord
HighPart(n) == n \div (HalfWord * HalfWord)

\* gdt.tss_seg: the limit, and the base in four fields.
TssDescriptor ==
    [access |-> 137, flags |-> 0, limit |-> 103,
     base_low |-> LowPart(TssAddress),
     base_mid |-> (TssAddress \div HalfWord) % HalfByte,
     base_high |-> (TssAddress \div (HalfWord * HalfByte)) % HalfByte,
     base_upper |-> HighPart(TssAddress)]

\* code_seg, data_seg and tss_seg of the kernel's own table.
KernelSegment(s) == IF s = 8 THEN Descriptor(154, 32)
                    ELSE IF s = 16 THEN Descriptor(146, 0) ELSE TssDescriptor

\* Mutant: a limit that takes the TSS descriptor for one of 8 bytes.
kernel_gdt_short == Table(31, [s \in {8, 16, 24} |-> KernelSegment(s)])

kernel_gdt == Table(39, [s \in {8, 16, 24} |-> KernelSegment(s)])

\* gdt_load and tss_load(0x18), which needs all 16 bytes of the descriptor.
gdt_init ==
    /\ at = "gdt_init"
    /\ gdtr' = kernel_gdt
    /\ tr' = 24
    /\ at' = IF Segments(kernel_gdt, TRUE) /\ Loads(kernel_gdt, 24, 16, 137)
               THEN "trap_init" ELSE "reset"
    /\ UNCHANGED <<loader, mode, interrupts, writes, idt, pic, kernel>>

isr_stub_table == [vector \in 0 .. 47 |-> StubBase + 16 * vector]

\* Mutant: the shift of the middle part forgotten.
idt_set_gate_unshifted(handler, selector, flags) ==
    [offset_low |-> LowPart(handler), selector |-> selector, type_attr |-> flags,
     offset_mid |-> LowPart(handler), offset_high |-> HighPart(handler)]

idt_set_gate(handler, selector, flags) ==
    [offset_low |-> LowPart(handler), selector |-> selector, type_attr |-> flags,
     offset_mid |-> MidPart(handler), offset_high |-> HighPart(handler)]

pic_remap == pic' = [base |-> 32, open |-> {0, 1, 2}]

trap_init ==
    /\ at = "trap_init"
    /\ pic_remap
    /\ idt' = [vector \in 0 .. 47 |-> idt_set_gate(isr_stub_table[vector], 8, 142)]
    /\ at' = "keyboard_init"
    /\ UNCHANGED <<loader, mode, interrupts, writes, gdtr, tr, kernel>>

keyboard_init == Calls("keyboard_init", "system_init_timer")
system_init_timer == Calls("system_init_timer", "pmm_init")

\* Mutant: only what the boot record names.
ReservationsNamed ==
    { Region(KERNEL_ADDR, boot_info.kernel_end - KERNEL_ADDR),
      Region(BOOT_INFO_ADDR, BOOT_INFO_SIZE),
      Region(MEMORY_MAP_ADDR, ENTRY_SIZE * boot_info.entries),
      Region(4096, 16384) }

\* The ranges pmm_init withholds.
Reservations ==
    { Region(0, 1048576),
      Region(KERNEL_ADDR, boot_info.kernel_end - KERNEL_ADDR),
      Region(BOOT_INFO_ADDR, BOOT_INFO_SIZE),
      Region(MEMORY_MAP_ADDR, ENTRY_SIZE * boot_info.entries),
      Region(4096, 16384) }

pmm_init ==
    /\ at = "pmm_init"
    /\ reserved' = Reservations
    /\ at' = "heap_init"
    /\ UNCHANGED <<loader, mode, interrupts, writes, tables, ready>>

heap_init == Calls("heap_init", "sti")

cpu_sti ==
    /\ at = "sti"
    /\ interrupts' = TRUE
    /\ at' = "shell"
    /\ UNCHANGED <<loader, mode, writes, tables, kernel>>

\* shell_run returns; system_qemu_exit, and behind it cli and hlt.
shell_returns ==
    /\ at = "shell"
    /\ at' = "exited"
    /\ interrupts' = FALSE
    /\ UNCHANGED <<loader, mode, writes, tables, kernel>>

Load == stage1 \/ stage2_start \/ e820_entry \/ e820_fails \/ e820_full
          \/ load_kernel \/ next_chunk \/ fill_boot_info
          \/ protected_mode \/ setup_page_tables \/ long_mode_start

kernel_main == kernel_entry \/ console_init \/ boot_init \/ gdt_init \/ trap_init
                 \/ keyboard_init \/ system_init_timer \/ pmm_init \/ heap_init \/ cpu_sti

BootNext == Load \/ kernel_main \/ shell_returns
-----------------------------------------------------------------------------
\* kernel_main begins.
KernelStarts == at = "console_init"

\* The memory map of the boot record is what the firmware gave, entry by
\* entry in its place, at most MEMORY_MAP_LIMIT entries, and all of them
\* unless a call failed or there are too many (collect_e820_map).
MapFaithful ==
    KernelStarts =>
      /\ boot_info.entries = Len(given)
      /\ boot_info.entries <= MEMORY_MAP_LIMIT
      /\ \A i \in 1 .. boot_info.entries :
           /\ MEMORY_MAP_ADDR + (i - 1) * ENTRY_SIZE \in DOMAIN slots
           /\ slots[MEMORY_MAP_ADDR + (i - 1) * ENTRY_SIZE] = given[i]
      /\ cut \/ boot_info.entries = MEMORY_MAP_LIMIT \/ boot_info.entries >= length

\* When the kernel runs, its memory holds the sectors of its image in order,
\* although they were read in pieces with a segment and a sector number that
\* advance separately; no read failed, and each stayed inside its segment.
LoadedWhole ==
    KernelStarts =>
      /\ ~unreadable
      /\ \A i \in DOMAIN writes : writes[i].lba >= 0 =>
           writes[i].hi - writes[i].lo <= 65536
      /\ \A sector \in 0 .. KERNEL_SECTORS(size) - 1 :
           LET place == Region(KERNEL_ADDR + sector * SECTOR_SIZE, SECTOR_SIZE)
           IN  \E i \in DOMAIN writes :
                 /\ Inside(place, writes[i])
                 /\ writes[i].lba >= 0
                 /\ writes[i].lba + (place.lo - writes[i].lo) \div SECTOR_SIZE
                      = KERNEL_START_LBA + sector

\* What runs or is in use while something is written: the BIOS and the stage
\* that calls it with its stack, then the stack of stage 2 and the kernel.
InUse ==
    (IF mode = "real" THEN {Region(0, 1280)}
                      ELSE {Region(STACK_TOP - StackBytes, StackBytes)})
      \cup (IF at = "stage1" THEN {Region(31744 - 256, 256 + 512)} ELSE {})
      \cup (IF mode = "real" /\ at # "stage1" THEN {Region(32512 - 256, 256)} ELSE {})

\* No write of the loader or of the starting kernel hits what was written
\* before or is in use: page tables, boot record, memory map, stages, stacks,
\* image and bss are placed by hand in four files.
WritesHarmless ==
    [][Len(writes') > Len(writes) =>
         \A region \in Range(writes) \cup InUse : Disjoint(Last(writes'), region)]_bootVars

\* Everything the running kernel depends on, bss and stack included, is
\* withheld from the frame allocator by pmm_init, and every frame that it can
\* hand out is mapped at its own address by the page directory of stage 2.
MemoryProtected ==
    at = "heap_init" =>
      /\ \A region \in Range(writes) \cup InUse :
           \E range \in reserved : Inside(region, range)
      /\ \A k \in 0 .. (PMM_MAX_MEMORY \div HUGE_PAGE) - 1 :
           k \in DOMAIN Directory /\ Directory[k] = k * HUGE_PAGE

\* The address of a gate, and the base of the TSS, as the CPU puts them together.
GateAddress(gate) ==
    gate.offset_low + HalfWord * gate.offset_mid + HalfWord * HalfWord * gate.offset_high
TssBase(d) ==
    d.base_low + HalfWord * (d.base_mid + HalfByte * d.base_high)
      + HalfWord * HalfWord * d.base_upper

\* Whether a vector leads to its stub, through an interrupt gate with a code
\* segment; such a gate clears the interrupt flag.
Reaches(vector) ==
    /\ vector \in DOMAIN idt /\ idt[vector].type_attr = 142
    /\ GateAddress(idt[vector]) = isr_stub_table[vector]
    /\ Loads(gdtr, idt[vector].selector, 8, 154) /\ LongMode(gdtr, idt[vector].selector)

\* Interrupts are on only where they can be handled: in real mode with the
\* vectors of the BIOS where they were, in long mode with every vector and
\* every line the controller lets through leading to its stub, no line on a
\* vector of an exception, the handlers set up and the TSS found.
InterruptsReady ==
    interrupts =>
      CASE mode = "real" -> pic.base = 8 /\ idt = <<>>
        [] mode = "long" ->
             /\ \A vector \in 0 .. 47 : Reaches(vector)
             /\ \A irq \in pic.open : pic.base + irq \in 32 .. 47
             /\ {"keyboard_init", "system_init_timer"} \subseteq ready
             /\ TssBase(gdtr.entry[tr]) = TssAddress
        [] OTHER -> FALSE

\* The machine reaches the shell unless the disk fails, whatever the firmware
\* does with its memory map, and it never faults on the way.
BootEnds == <>(at = "shell" \/ (at = "halted" /\ unreadable))
=============================================================================

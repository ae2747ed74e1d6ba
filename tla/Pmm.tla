-------------------------------- MODULE Pmm --------------------------------
(***************************************************************************)
(* The physical memory manager, src/pmm.c: one bit per frame of the first  *)
(* gigabyte (set = not available), a counter of free frames beside it,     *)
(* pmm_init that builds both from the BIOS memory map, the first-fit scan  *)
(* of pmm_alloc_frames, and pmm_free_frames.  Every loop whose partial     *)
(* state matters runs one iteration per step.                              *)
(***************************************************************************)
EXTENDS Integers, FiniteSets, Sequences

CONSTANTS
    PageSize,      \* PMM_PAGE_SIZE
    FrameLimit,    \* PMM_MAX_FRAMES
    LowMemory,     \* the bytes below the end of the BIOS area, 0x100000
    PageTableBase, \* the boot page tables, 0x1000 and
    PageTableSize, \* 0x4000 bytes long
    InfoSize,      \* sizeof(boot_info_t)
    EntrySize,     \* sizeof(memory_map_entry_t)
    BootInfos,     \* what the boot loader may hand over
    Counts         \* the frame counts callers ask for

Entry == [base : Nat, length : Nat, type : Nat]

BootInfo == [memory_map : Seq(Entry), memory_map_addr : Nat, info_addr : Nat,
             kernel_phys_start : Nat, kernel_phys_size : Nat]

ASSUME PageAssumption == PageSize \in Nat \ {0}
ASSUME LimitAssumption == FrameLimit \in Nat \ {0}
ASSUME CountsAssumption == Counts \subseteq Nat
ASSUME BootAssumption == BootInfos \subseteq BootInfo
ASSUME LowAssumption ==
    /\ LowMemory \in Nat \ {0}
    /\ {PageTableBase, PageTableSize, InfoSize, EntrySize} \subseteq Nat

Frames == 0 .. FrameLimit - 1

VARIABLES
    frame_bitmap,  \* the frames whose bit is set
    free_frames,
    boot,          \* *boot_info
    pc,            \* the function being executed
    i,             \* the loop index of pmm_init
    count, frame, run_start, run_length,  \* locals of pmm_alloc_frames
    ret,           \* the address pmm_alloc_frames returned last
    owned          \* history: the frames callers hold

scan == <<count, frame, run_start, run_length>>
vars == <<frame_bitmap, free_frames, boot, pc, i, scan, ret, owned>>
-----------------------------------------------------------------------------
page_align_down(value) == value - (value % PageSize)

page_align_up(value) == page_align_down(value + PageSize - 1)

\* The frames a loop "for (addr = start; addr < end; addr += PAGE)" visits,
\* clipped to the memory the bitmap describes.
FramesBetween(start, end) ==
    {f \in Frames : start <= f * PageSize /\ f * PageSize < end}

\* reserve_range covers every frame the range touches.
Reserved(base, length) ==
    FramesBetween(page_align_down(base), page_align_up(base + length))

\* Mutant: rounding outwards frees frames that are only partly usable.
AvailableOutward(base, length) == Reserved(base, length)

\* free_range covers only the frames that lie in the range entirely.
Available(base, length) ==
    FramesBetween(page_align_up(base), page_align_down(base + length))

\* Mutant: counts every visited frame, the already reserved ones too.
reserve_range_recount(fs) ==
    /\ frame_bitmap' = frame_bitmap \cup fs
    /\ free_frames' = free_frames - Cardinality(fs)

reserve_range(fs) ==
    /\ frame_bitmap' = frame_bitmap \cup fs
    /\ free_frames' = free_frames - Cardinality(fs \ frame_bitmap)

free_range(fs) ==
    /\ frame_bitmap' = frame_bitmap \ fs
    /\ free_frames' = free_frames + Cardinality(fs \cap frame_bitmap)

\* The ranges pmm_init reserves, in its order.
Reservations ==
    << <<0, LowMemory>>,
       <<boot.kernel_phys_start, boot.kernel_phys_size>>,
       <<boot.info_addr, InfoSize>>,
       <<boot.memory_map_addr, EntrySize * Len(boot.memory_map)>>,
       <<PageTableBase, PageTableSize>> >>
-----------------------------------------------------------------------------
\* .bss is zero: no bit is set and nothing is counted before pmm_init.
Init ==
    /\ frame_bitmap = {}
    /\ free_frames = 0
    /\ boot \in BootInfos
    /\ pc = "start"
    /\ i = 0
    /\ count = 0 /\ frame = 0 /\ run_start = 0 /\ run_length = 0
    /\ ret = 0
    /\ owned = {}

pmm_init ==
    /\ pc = "start"
    /\ frame_bitmap' = Frames
    /\ free_frames' = 0
    /\ pc' = "free"
    /\ i' = 1
    /\ UNCHANGED <<boot, scan, ret, owned>>

\* One entry of the memory map; only type 1 is usable.
pmm_init_free ==
    /\ pc = "free"
    /\ i <= Len(boot.memory_map)
    /\ LET e == boot.memory_map[i]
       IN  IF e.type = 1 THEN free_range(Available(e.base, e.length))
                         ELSE UNCHANGED <<frame_bitmap, free_frames>>
    /\ i' = i + 1
    /\ UNCHANGED <<boot, pc, scan, ret, owned>>

pmm_init_freed ==
    /\ pc = "free"
    /\ i > Len(boot.memory_map)
    /\ pc' = "reserve"
    /\ i' = 1
    /\ UNCHANGED <<frame_bitmap, free_frames, boot, scan, ret, owned>>

pmm_init_reserve ==
    /\ pc = "reserve"
    /\ reserve_range(Reserved(Reservations[i][1], Reservations[i][2]))
    /\ i' = i + 1
    /\ pc' = IF i = 5 THEN "idle" ELSE "reserve"
    /\ UNCHANGED <<boot, scan, ret, owned>>
-----------------------------------------------------------------------------
\* The call: either refused at once, or the scan starts.
pmm_alloc_frames(n) ==
    /\ pc = "idle"
    /\ IF n = 0 \/ n > FrameLimit
         THEN /\ ret' = 0
              /\ UNCHANGED <<pc, scan>>
         ELSE /\ pc' = "scan"
              /\ count' = n /\ frame' = 0 /\ run_start' = 0 /\ run_length' = 0
              /\ UNCHANGED ret
    /\ UNCHANGED <<frame_bitmap, free_frames, boot, i, owned>>

\* Mutant: the run goes on across an allocated frame.
BlockedKeepsRun ==
    UNCHANGED <<run_start, run_length>>

\* A frame whose bit is set breaks the run.
Blocked ==
    /\ run_length' = 0
    /\ UNCHANGED run_start

scan_used ==
    /\ pc = "scan" /\ frame < FrameLimit
    /\ frame \in frame_bitmap
    /\ Blocked
    /\ frame' = frame + 1
    /\ UNCHANGED <<frame_bitmap, free_frames, boot, pc, i, count, ret, owned>>

\* run_start after this frame has been seen free.
RunStart == IF run_length = 0 THEN frame ELSE run_start

scan_free ==
    /\ pc = "scan" /\ frame < FrameLimit
    /\ frame \notin frame_bitmap
    /\ run_length + 1 # count
    /\ run_start' = RunStart
    /\ run_length' = run_length + 1
    /\ frame' = frame + 1
    /\ UNCHANGED <<frame_bitmap, free_frames, boot, pc, i, count, ret, owned>>

\* The counter after a run of count frames is taken.
Charged == free_frames - count

scan_found ==
    /\ pc = "scan" /\ frame < FrameLimit
    /\ frame \notin frame_bitmap
    /\ run_length + 1 = count
    /\ LET taken == RunStart .. RunStart + count - 1
       IN  /\ frame_bitmap' = frame_bitmap \cup taken
           /\ owned' = owned \cup taken
    /\ free_frames' = Charged
    /\ ret' = RunStart * PageSize
    /\ run_start' = RunStart
    /\ run_length' = run_length + 1
    /\ pc' = "idle"
    /\ UNCHANGED <<boot, i, count, frame>>

scan_failed ==
    /\ pc = "scan" /\ frame = FrameLimit
    /\ ret' = 0
    /\ pc' = "idle"
    /\ UNCHANGED <<frame_bitmap, free_frames, boot, i, scan, owned>>
-----------------------------------------------------------------------------
\* Mutant: does not stop at a clear bit, and counts a freed frame again.
ClearedBlindly(f, n) == {g \in Frames : f <= g /\ g < f + n}

\* The frames pmm_free_frames clears: from f on, up to the first bit that is
\* clear already.
Cleared(f, n) ==
    {g \in Frames : f <= g /\ g < f + n /\ \A h \in f .. g : h \in frame_bitmap}

\* A caller returns frames it holds; frames that are free already (a second
\* free) and frames beyond the limit may be among them, and the code copes.
Returnable(f, n) ==
    \A g \in Frames : f <= g /\ g < f + n => g \in owned \/ g \notin frame_bitmap

\* The null pointer (frame 0), a count of 0 and an address beyond the limit
\* return early: nothing changes.
pmm_free_frames(f, n) ==
    /\ pc = "idle"
    /\ Returnable(f, n)
    /\ f # 0 /\ n # 0 /\ f < FrameLimit
    /\ frame_bitmap' = frame_bitmap \ Cleared(f, n)
    /\ free_frames' = free_frames + Cardinality(Cleared(f, n))
    /\ owned' = owned \ Cleared(f, n)
    /\ UNCHANGED <<boot, pc, i, scan, ret>>
-----------------------------------------------------------------------------
InitStep == pmm_init \/ pmm_init_free \/ pmm_init_freed \/ pmm_init_reserve

ScanStep == scan_used \/ scan_free \/ scan_found \/ scan_failed

Next ==
    \/ InitStep
    \/ \E n \in Counts : pmm_alloc_frames(n)
    \/ ScanStep
    \/ \E f \in Frames, n \in Counts : pmm_free_frames(f, n)

Spec == Init /\ [][Next]_vars
-----------------------------------------------------------------------------
\* Every variable has its C type, and a running scan its loop bounds.
TypeOK ==
    /\ frame_bitmap \subseteq Frames
    /\ free_frames \in 0 .. FrameLimit
    /\ boot \in BootInfos
    /\ pc \in {"start", "free", "reserve", "idle", "scan"}
    /\ i \in Nat
    /\ count \in Nat
    /\ frame \in 0 .. FrameLimit
    /\ run_start \in Nat
    /\ run_length \in Nat
    /\ ret \in Nat
    /\ owned \subseteq Frames

\* free_frames, kept by four pieces of code that adjust it on their own, is
\* at every moment the number of clear bits: pmm_free_bytes never drifts and
\* never wraps below zero.
AccountingExact ==
    pc # "start" => free_frames = Cardinality(Frames \ frame_bitmap)

\* The byte b of physical memory lies in the range.
Covers(base, length, b) == base <= b /\ b < base + length

\* No frame that is available or in a caller's hands contains a byte that the
\* memory map does not call usable, or a byte of the BIOS area, the kernel
\* image, the boot record, the memory map or the page tables: pmm_init's
\* rounding of unaligned ranges never goes the wrong way.
OnlyUsableMemory ==
    pc \in {"idle", "scan"} =>
      \A f \in (Frames \ frame_bitmap) \cup owned :
        \A b \in f * PageSize .. (f + 1) * PageSize - 1 :
          /\ \E k \in DOMAIN boot.memory_map :
               /\ boot.memory_map[k].type = 1
               /\ Covers(boot.memory_map[k].base, boot.memory_map[k].length, b)
          /\ \A k \in 1 .. 5 : ~Covers(Reservations[k][1], Reservations[k][2], b)

\* The loop invariant of the first-fit scan: run_length is the length of the
\* stretch of free frames that ends just below frame, it starts at run_start,
\* and no stretch of count free frames lies below frame.
ScanExact ==
    pc = "scan" =>
      /\ run_length < count /\ run_length <= frame
      /\ \A f \in frame - run_length .. frame - 1 : f \notin frame_bitmap
      /\ frame = run_length \/ frame - run_length - 1 \in frame_bitmap
      /\ run_length > 0 => run_start = frame - run_length
      /\ \A s \in Frames : s + count <= frame =>
           \E f \in Frames : s <= f /\ f < s + count /\ f \in frame_bitmap

\* The frames pmm_init is to withhold: those in no usable entry, and those
\* one of the reserved ranges touches.
Usable == UNION {Available(boot.memory_map[k].base, boot.memory_map[k].length) :
                   k \in {j \in DOMAIN boot.memory_map : boot.memory_map[j].type = 1}}

Kept == UNION {Reserved(Reservations[k][1], Reservations[k][2]) : k \in 1 .. 5}

Withheld == (Frames \ Usable) \cup Kept

\* The bits set are exactly the frames withheld at boot and the frames that
\* callers hold, and these are different frames: over any sequence of calls
\* no frame is lost, given out twice, or stolen from the kernel.
NoFrameLost ==
    pc \in {"idle", "scan"} =>
      /\ frame_bitmap = Withheld \cup owned
      /\ Withheld \cap owned = {}

\* The bitmap, the counter and the scan implement the frame pool of
\* FrameAllocator: each call takes effect at once when it returns, takes the
\* lowest run that fits, and refuses only when no run fits.
Pool == INSTANCE FrameAllocator WITH
    booted <- pc \in {"idle", "scan"},
    free <- IF pc \in {"idle", "scan"} THEN Frames \ frame_bitmap ELSE {},
    held <- owned,
    reply <- ret

ImplementsPool == Pool!Spec
=============================================================================

# A verification of simple_kernel in TLA+

simple_kernel is a BIOS-booted x86_64 kernel with a shell: a two-stage boot
loader, traps and a timer, a keyboard driver, a serial port, a text console, a
frame allocator, a heap, a real-time clock reader and a PCI walk. This directory
holds a model of it: one module per component, configurations with which TLC
explores small instances, and proofs that TLAPS checks. `PROJECT.json` relates
every definition to the lines it models and lists the hazards, the runs and the
theorems. Paths below are relative to the repository; line numbers are in
`PROJECT.json`.

## 1. The system

The kernel has one thread of control, the *main program* (the shell), and
interrupt handlers that run to completion with interrupts off. What can
interleave is therefore: main program against handler (at every instruction),
both against the devices (timer, 8042 keyboard controller, 8259 interrupt
controllers, UART, clock chip). Before it runs, two boot stages load it with the
help of a BIOS whose calls may fail. There are no locks. Nothing is persisted, so
nothing is recovered after a crash.

| Component | State | Operations | Used by / talks to |
|---|---|---|---|
| boot loader (`boot_stage*.asm`, `kernel_entry.asm`) | registers, memory map, page tables, boot record | E820 loop, disk read, mode switches, clearing bss | BIOS, build script; `kernel_main` |
| initialisation (`kernel.c`, `gdt.c`, `idt.c`) | descriptor tables, controller masks | one call after the other, then `sti` | all of the following |
| physical memory (`pmm.c`) | bitmap, `free_frames` | `pmm_init`, `pmm_alloc_frames`, `pmm_free_frames` | boot record; heap, shell |
| heap (`heap.c`) | list of block headers in the memory itself, `total_bytes`, `used_bytes` | `kmalloc`, `kcalloc`, `kfree` | frame allocator; shell |
| traps (`trap_asm.asm`, `trap.c`) | the stack, in-service bits of the controllers | 48 stubs, `trap_dispatch`, `pic_send_eoi` | keyboard, system, panic |
| timer, sleep, reboot (`system.c`) | `timer_ticks` | handler increments, `system_sleep_ms`, `system_reboot`, `system_halt` | trap, 8042; shell |
| keyboard (`keyboard.c`) | ring with `head` and `tail`, shift and prefix flags | handler writes, `keyboard_getevent` reads | trap; input |
| serial port (`serial.c`) | in the device | polled | input, console |
| input (`input.c`) | none | `input_getevent`: polls serial port and keyboard, halts | serial, keyboard; shell |
| console (`vga.c`) | scrollback rows, cursor, viewport, colour; screen and hardware cursor as copies | put a character, clear, scroll, set the colour | shell, kprint |
| shell (`shell.c`) | line buffer, history ring, walk position | parse, edit, recall, execute | everything |
| real-time clock (`rtc.c`) | none; the chip's registers tick by themselves | `rtc_read_time` | shell |
| PCI (`pci.c`) | the caller's array | `pci_enumerate` | shell |
| kstring, kprint (`kstring.c`, `kprint.c`) | none | compare, parse, convert, print | shell, traps |
| panic, console, cpuinfo | none | | |

What is hard here, and what correctness means in each component:

* **boot** - addresses chosen by hand in four files, a disk read cut into pieces
  with three counters, firmware that may end its memory map in three ways or
  fail, and an order of initialisation in which one step too early is a triple
  fault. Correct: the kernel is in memory whole, nothing in use is overwritten,
  interrupts come on when everything they need is there, and the shell is
  reached unless the disk fails.

* **physical memory** - a counter kept beside a bitmap by four loops, ranges
  that begin and end inside frames, a scan that must find runs up to the last
  frame, frees of frames that are already free. Correct: counter and bitmap
  agree, only usable memory is handed out, no frame is lost or owned twice, and
  the whole is a first-fit allocator.
* **heap** - headers that move as blocks are split and merged, a counter,
  unsigned arithmetic. Correct: blocks tile the memory taken from the frame
  allocator, an allocation is a used block big enough for the request, free
  neighbours are merged.
* **keyboard, input, timer** - handler and main program share a ring and a
  counter without locks, and the main program halts between checking and being
  woken. Correct: the ring is a first-in first-out queue, no key, byte or wake-up
  is lost, each interrupt is acknowledged once, a sleep is long enough and ends,
  a reboot resets the machine.
* **trap entry** - stubs must agree with the CPU on who pushes an error code.
  Correct: the C frame is the interrupted state, and a handled interrupt leaves
  no trace.
* **clock** - registers read one by one while the clock runs. Correct: the time
  returned is one the clock had; the call returns.
* **console** - a buffer that shifts under cursor and viewport. Correct: the
  user sees a roll of paper on which nothing moves.
* **shell** - C strings left over from the last command, a ring of remembered
  lines. Correct: Enter executes what is on the screen; arrows show the right
  lines and bring back the one being typed; the command that runs is the one
  typed, with the numbers typed.
* **PCI** - three nested loops that stop when an array is full, and addresses and
  registers made of packed fields. Correct: the first devices, in order, each
  with the contents of its own header.

## 2. The modules

Mutants (definitions named for a plausible slip, with a comment "Mutant:") stand
before the definitions they would replace; no specification uses them. They show
that each property depends on the code it is about.

**Pmm** (`pmm.c`). `frame_bitmap` is the set of frames whose bit is set. `pmm_init`
is a step per entry of the memory map and per reserved range; the loop of
`pmm_alloc_frames` is a step per frame (`scan_used`, `scan_free`, `scan_found`,
`scan_failed`); `pmm_free_frames` is one step, as nothing can run in between that
looks at the bitmap. `owned` is a history variable: what callers hold. Sizes of
page, memory and the low reserved areas are constants.
**FrameAllocator** is what `pmm.h` promises: a set of free frames from which the
lowest run of the length asked for is taken, in one step. `ImplementsPool` is the
refinement: a scan stutters until it ends.

**Heap** (`heap.c`) runs over the abstract pool of FrameAllocator, which Pmm is
proved to implement. `list` is the order of the block headers, `hdr` their
contents by address. A header that coalescing has swallowed stays in `hdr` but not
in `list` while a caller holds a pointer behind it, since the code goes on using
it. The loop of `heap_coalesce` is a recursive function of the list, a step of it
(`merge_next`) per block. `kmalloc` is split by outcome
(`kmalloc_fit`, `kmalloc_expand`, `kmalloc_fail`); the calls are atomic because
no handler uses the heap. Arithmetic on sizes is modulo `Word`. `use` says which
frames the machine has and how callers use the heap.

**Keyboard** (`keyboard.c`): the whole of `keyboard_process_scancode` is one step
(it runs with interrupts off); `keyboard_getevent` is three (`getevent_check`,
`getevent_read`, `getevent_advance`), between which the handler may run.
**EventQueue** is the bounded queue it implements. **KeyboardTyping** adds the
history of scancodes sent and says what they mean.

**InputSystem** composes Keyboard with the trap dispatcher, the timer, the 8259
(`irr`, `isr`), the 8042 (`kbc`), a serial terminal (`line` to `uart`), the loop
of `input_getevent` including `hlt`, `system_sleep_ms`, `system_reboot` and
`system_halt`. The devices are external: modelled from how the code uses them. The
8042 works off its input buffer (`busy`) only when its output buffer is empty, and
a command written to a busy controller is lost; these are the two reasons for the
loop of `system_reboot`. A spurious interrupt may come at
any time the CPU accepts interrupts. Interrupts do not nest: the gates clear the
interrupt flag.

**Boot** (`boot_stage1.asm`, `boot_stage2.asm`, `kernel_entry.asm`, `kernel.c`,
`gdt.c`, `idt.c`, with the sector counts of `scripts/build_image.sh` and the place
of bss in `linker.ld`): a step per BIOS call and per call of `kernel_main`. Memory
is the list `writes` of the ranges written so far, at their real addresses, with
the sector that each holds. `slots` is the memory map being built, `kernel_segment`,
`lba_low` and `lba_high` the counters of the disk read. Descriptor tables are
functions from selectors to the fields that decide whether the CPU accepts them; a
segment that cannot be loaded resets the machine. Addresses are put into gates and
into the TSS descriptor in parts, and the CPU's reading puts them together again.
**TrapEntry** (`trap_asm.asm`, `trap.h`, `trap.c`): the stack as a sequence of
words, what CPU, stub, `PUSH_REGS`, the alignment, the C function with its dump of
the frame and `POP_REGS` do to it. Words are symbolic: a word is the register or
field it was pushed from.
**Machine** composes the two: a trap in the shell goes through the gate that Boot
has written into the stub of TrapEntry.

**Rtc** (`rtc.c`) against a clock that updates between any two register reads.
Seconds and hours stand for the six registers: a carry that reaches registers read
at different moments is what may tear a reading. The clock has the seconds 58 and
59 only, so that every second tick carries into the hour; registers are BCD or
binary, 12- or 24-hour, as register B says.

**ShellParser**, **CommandLine** and **Shell** (`shell.c`): the in-place tokenizer
over every short line; the lookup of its first word in the table of commands and
the commands that have arguments (echo, color, rainbow, sleep, allocdemo), with the
functions of **Kstring** (`kstring.c`); and the loop of `shell_run` with the editing
keys, history and the scrolling keys, over the alphabet of **Characters**. Shell
models a buffer as the C string in it; what the parser leaves in `cmd_buffer` is
therefore part of the state at the next prompt.

**Vga** (`vga.c`) and **Terminal**, the roll of paper it implements: line numbers
are fixed in Terminal, row numbers shift in Vga, and `dropped` counts the rows
lost. `ImplementsRoll` maps row r to line `dropped + r`. An entry is a character
with its colour; `vga_setcolor` changes what is written later and redraws nothing.

**Pci** (`pci.c`): the walk over bus, slot and function, the packing of their numbers
into an address and the unpacking of the header. A register is the sequence of its
four bytes; the host bridge takes the address apart.

**PmmProofs**, **HeapProofs**, **InputSystemProofs** (which has the theorems on Keyboard
too), **RtcProofs**, **ShellProofs**, **VgaProofs**, **PciProofs** and **MachineProofs**
extend the modules they are named for and hold the theorems (section 5).

The modules `MC...` give the constants that a configuration cannot write.
The type invariant of a module is checked as the first conjunct of its main invariant
(`BlocksTile`, `ReadStable`, `ServiceBalanced`, `ReturnsGenuine`, `RecallShowsEntry`,
`ScreenCurrent`).

## 3. The runs

| Run | What it shows |
|---|---|
| `pmm` | `AccountingExact`, `OnlyUsableMemory`, `NoFrameLost`, `ScanExact`, `ImplementsPool` for 15 boot records and any sequence of calls |
| `heap` | `BlocksTile`, `LiveAreBlocks`, `UsedExact` with three live allocations over frames that do not touch, and with one over frames that do, which is how the shell uses the heap; for the latter also `AllFreedIsWhole` |
| `heap_stale` | violated: finding 1 |
| `keyboard` | `ReadStable`, `ImplementsQueue`: the ring without a lock is a queue; `DecodesAsTyped`: every sequence of six scancodes, prefixes and releases included |
| `input` | `ServiceBalanced`, `KeyboardArmed`, `SleepsLongEnough`, and under fairness `KeysDelivered`, `BytesDelivered`, `SleepEnds`, `Reboots` |
| `rtc` | `ReturnsGenuine`: a time that is returned was the time |
| `rtc_tick` | violated: finding 2 |
| `machine` | boot: `MapFaithful`, `LoadedWhole`, `WritesHarmless`, `MemoryProtected`, `InterruptsReady`, and under fairness `BootEnds`; then any of 47 traps: `FrameGenuine`, `Transparent` |
| `command_line` | `ParsesWords`, `DoesAsTyped`, `NumbersExact` for every line of up to 7 characters |
| `shell` | `RecallShowsEntry`, `ExecutesShown`, `RemembersRecent`, `DraftRestored` |
| `vga` | `ScreenCurrent`, `ImplementsRoll` |
| `pci` | `FindsFirst`, `WalkEnds` over the whole configuration space |

Two runs end in a violation. Each states what a text or a test of the repository
says, and shows that the code does otherwise:

1. `heap_expand` (heap.c:81) returns a block that `heap_coalesce` may just have
   merged into its free predecessor, so memory is handed out that the list calls
   free.
2. `rtc_read_time` (rtc.c:40) never renews its first sample: once the clock has
   ticked in between, it does not return.

### Where a property stops short

Some properties and instances leave out a case in which the code does something
else. Each is small, and each is a place to look at when the code is changed:

* *Merged sizes* (heap.c:52). The size of a merged block is 8 modulo 16, and the
  end computed from its rounded size is 8 bytes too far, so such a block is not
  merged again with the free block behind it. Hence `AllFreedIsWhole` is about
  callers with one allocation at a time.
* *Joined regions* (heap.c:54-57, :78). `heap_expand` does not count the header of a
  region in `total_bytes`, but when `kfree` joins two regions that touch, the second
  header becomes payload. A block that is then cut from the whole may make
  `used_bytes` exceed `total_bytes`, and `heap_free_bytes` wraps: over two adjacent
  frames, allocate 64, 3984 and 4000 bytes, free the third, second and first, and
  allocate 8150; 8168 bytes of 8144 are in use. The uses of `heap` do not join
  regions, and the theorems say so where they need it (`RegionsKept`).
* *Sizes near 2^64* (heap.c:21, :66, :141). `align_up`, the header and the product
  in `kcalloc` wrap, and the block is smaller than the request. The arithmetic of
  the model wraps too; the sizes of the runs do not reach it, and `Modest` is the
  hypothesis of the theorems that says so.
* *Two shift keys* (keyboard.c:70). Releasing one of two that are held ends the
  shift; `DecodesAsTyped` describes this.
* *Delays near 2^64* (system.c:48). The deadline wraps and the sleep ends at once.
  The run `input` has such a delay; `SleepsLongEnough` speaks of the others.
* *12-hour mode* (rtc.c:60). 12 p.m. becomes 0 o'clock and 12 a.m. stays 12. The run
  `rtc` has all four modes; `ReturnsGenuine` leaves out the hours called twelve.
* *Vector 29* (trap_asm.asm:97). The CPU pushes an error code and the stub a second
  one, so that every field of the frame above the vector is off by a word.
  `machine` runs the 47 others.
* *A terminal without pauses* (input.c:55). The serial port is asked first, so keys
  wait while bytes keep coming. The terminals of `input` send finite scripts.
* *A kernel that outgrows its place* (boot_stage2.asm:20). That image, bss and stack
  fit below 0x90000 is an assumption of Boot (`FitsAssumption`); nothing in the
  build checks it.
* *The color command* (shell.c:190). The colour lasts until the next prompt, which is
  printed with `kprint_colored` and leaves light grey behind.
* *A NUL from the serial port* (shell.c:543). `shell_run` stores it like any other
  character: `pos` moves on, nothing is shown for it, and the string ends there, so
  that what is typed behind it is shown and never executed. The keyboard has no such
  key. The alphabet of Shell is without NUL, and what the run `shell` and the
  theorems say of the shell, `ExecutesShown` first of all, is said of such input.
* *A key pressed during boot* (keyboard.c:140). A byte that waits in the 8042 while the
  interrupt controller is initialised may never raise its interrupt again; `input`
  begins with an empty controller.

### Bounds

The theorems of section 5 remove these bounds from every safety property of the passing
runs; what is left to the bounds alone is liveness and the absence of deadlock.

* `pmm`: 7 frames of 4 bytes. Five memory maps with entries that start and end
  inside frames, overlap, are of other types, and go beyond the limit; three
  kernels, one of them beyond the limit; requests of 0, 1, 2, 3 and more frames
  than there are.
* `heap`: the real page size, header and alignment; `Word` is 2^16 in place of 2^64,
  which only moves the point at which sums wrap. Eight frames, of which two or five are usable; the sizes
  lie on both sides of the split threshold and of the page boundary.
* `keyboard`: 3 slots, that is 2 events, and 6 scancodes (`MaxCodes`): full,
  wrapped and empty rings all occur. One scancode of each kind the decoder tells
  apart.
* `input`: 2 keys, 2 ticks, a ring of one event, four terminal scripts; so a full
  ring, a key between check and halt, and a sleep during typing all occur.
  `MaxKeys` and `MaxTicks` are the bounds; the timer goes on firing when
  `timer_ticks` has reached `MaxTicks`, and only the count stands still.
* `rtc`: up to 5 updates (`MaxUpdates`), all modes, hours at which the BCD carry, noon
  and midnight lie.
* `shell`: lines of 2 characters, 2 remembered lines, a command that stops the
  shell: the ring wraps, duplicates occur, the line is full.
* `command_line`: 7 characters of an alphabet of two letters, two digits and the
  space, and 2 arguments: more words than fit, spaces at every place, names of
  which one begins with another, numbers with leading zeros, and numbers beyond
  `Word`, which is 128 in place of 2^64.
* `vga`: 5 rows of 2 columns, window of 2; `MaxDropped` 2 rows lost. The buffer
  shifts while the window is at the bottom, in the middle and at the top. Two
  colours of one character: no operation looks at an entry, so two entries that
  differ are enough to see where each one goes, and what is left of a text below
  the last row shows as a line in two colours.
* `pci`: the real 256 buses, 32 slots and 8 functions; devices at the first and the
  last place, in two slots next to each other and with a further function, in
  every combination; arrays of 0, 2 and 4 entries.
* `machine`: a kernel of one chunk and one of three; memory maps of no, two and 65
  entries against the real limit of 64, each ended by ebx = 0, by carry, or never;
  the first, the second and the last call may fail (`FailingCalls`), as may every
  disk read. The stubs lie where an address has bits in all three parts of a
  gate, with parts of `HalfWord` = 16 in place of 2^16; sector numbers carry at
  `LbaWord` = 128 in place of 2^32. One trap is followed, from a stack of either
  alignment.

Deadlock is checked wherever the system runs on. It is off for `keyboard`,
which ends when the last scancode has been read, for `command_line` and `pci`,
which follow a computation to its end, for `machine`, which ends with the trap it
follows or with a disk that cannot be read, and for `shell`, where exit and halt
are meant to end.

### Fairness

`input` assumes: the timer fires again and again (the
PIT runs in its periodic mode and is never reprogrammed); a terminal sends the
rest of what it began; handlers go on; the 8042, when it has room for an answer
again and again, works off what it was sent; an interrupt that is enabled again and
again is taken, and the main program is not starved (strong fairness: handlers are
a few instructions, the timer period is a millisecond and keys are slower). The
assumption on the terminal is needed: after `ESC [` the code waits for the final
byte and reads nothing else. `machine` assumes
that the processor and a BIOS call go on until the shell, `pci` that the walk does.
`rtc_tick` assumes that the code runs on and that an
update of the clock, once begun, ends; the counterexample is a loop of the code
under these.

## 4. What the models leave out

* `cpuinfo` (one instruction decoded into fields, without state), serial
  transmission (a busy wait on the device), the border of the screen, the texts
  of messages and of tables such as `pci_class_name`, the colours of the single
  characters of `kprint_rainbow`, and what the commands without arguments print. `keyboard_getchar` and `keyboard_get_line` are called
  by tests only. `kmemcpy`, `kmemmove` and `kmemset` are the assignments of the
  modules whose code calls them.
* In Boot, what the BIOS does beyond the registers and memory of a call, A20, and
  the bits of control registers; interrupts that the BIOS handles in real mode.
* In Pmm, `base + length` of a memory map entry does not wrap: firmware does not
  report such entries.
* Payload bytes of heap blocks, and callers that free what they do not own.
* A down arrow after an up arrow at an *empty* prompt brings up what the last
  command left in `cmd_buffer`. This is in the model; `DraftRestored` speaks of
  lines that are not empty, as the repository does not say what should happen.
* An arrow key from a serial terminal whose bytes arrive apart is read as ESC and
  two characters. This too is in the model and under no property.

## 5. What is proved

Each safety property of the passing runs is a theorem: of the specification of its module,
for every value of the constants that satisfies the assumptions named. The bounds of the runs (`MaxCodes`, `MaxKeys`, `MaxDropped`
and so on) are among these constants, so they bound nothing here. `PROJECT.json` lists the theorems. Every proof has the
same frame: an inductive invariant, a lemma per action (or group of actions that disturb
the same part), and the property from the invariant.

### Physical memory

`PmmProofs` proves of `Pmm!Spec`, for every page size and number of frames
(`PageAssumption`, `LimitAssumption`: positive), every memory map and kernel place
(`BootAssumption`: well-formed records of naturals), every set of requests
(`CountsAssumption`) and every position of the low reserved areas
(`LowAssumption`: the first one is not empty, which makes frame 0 unavailable and
address 0 usable as the failure code):

* `TypeCorrect`: in particular `free_frames` never wraps below zero;
* `CounterCorrect`: `free_frames` is the number of clear bits;
* `BitmapCorrect`: the set bits are what boot withheld and what callers hold;
* `ScanCorrect`: the loop invariant of the first-fit scan;
* `UsableCorrect`: no byte outside usable entries, or in a reserved range, is ever
  available or handed out;
* `Refinement`: `Spec => Pool!Spec`, the abstract first-fit pool.

The inductive invariant is

    IInv == TypeOK /\ AccountingExact /\ BootProgress /\ NoFrameLost /\ Asked /\ ScanExact

`AccountingExact` alone is not inductive: the counter changes by the size of a set
difference only if the frames handed out were clear, which is `ScanExact` (the
current run is clear and ends before the current frame; no run long enough ends
earlier). `BootProgress` says which frames are clear after i entries of the map and
which are reserved after k ranges, and makes the facts about boot
(`OnlyUsableMemory`) follow from those about single ranges. `Asked` carries the
early return of `pmm_alloc_frames` into the loop. The proof has one lemma per
action; those on rounding (`AlignDown`, `AlignUp`, `AvailableIsInside`,
`TouchedIsReserved`) say that usable ranges are rounded inwards and reserved ones
outwards, those on sets (`SetBits`, `ClearBits`) how the counter follows the
bitmap. The refinement uses `ScanExact` once more: the run found is the lowest,
and a scan that fails has seen that there is none.

### Heap

`HeapProofs`, for every page size that is a multiple of 16 and holds a header, every number
of frames (`SpaceAssumption`), every machine and every set of requests (`UseAssumption`) from
which no sum wraps (`Modest`), with any number of allocations alive at a time:

* `Tiling`, `Holding` and `Apart`: `BlocksTile`, `LiveAreBlocks` and `NotInFreeBlock` hold as
  long as each region that `heap_expand` takes is still a block when it returns
  (`NewRegionKept`). Finding 1 is what happens when it is not, so the theorems say that,
  sizes that wrap apart, it is the only way in which these three fail;
* `Counting`: `UsedExact` holds as long as no region is swallowed, by `kfree` neither
  (`RegionsKept`; *Joined regions* in section 3 is why this is needed);
* `NoFragments`, `OneAtATime`, `OneKeepsRegions`: a caller with one allocation at a time
  needs neither hypothesis. It has all of these properties, leaves whole regions behind,
  and never makes `heap_coalesce` swallow one. `allocdemo` (shell.c:360-373), the only caller in
  the kernel, is such a caller.

The uses of the run `heap` satisfy `Modest` and `RegionsKept`, that of `heap_stale` does not.

The inductive invariants are

    Core == pool and types /\ Tiles(list, hdr, held) /\ LiveOK(list, hdr, live) /\ the two counters
    Counted == the owned bytes without the headers of regions are at most total_bytes
    Alone == one caller => Core /\ Counted /\ Lone

`Tiles` says that a byte lies in a block if and only if it lies in a frame of the heap, and
that the blocks are in order. It is stated over bytes because splitting and merging move
the boundaries of blocks and keep the set of bytes. What makes it inductive
is `GapIsFrames`: a gap between two blocks consists of frames, so it has at least a page, and
the rounding by which `heap_coalesce` computes the end of a block cannot bridge it; a
block is merged with the one that really touches it or with none. `heap_coalesce` is a
walk, and `Walked` is its loop invariant: what of the list it has behind it covers the same
bytes as before, with the same blocks in use. The induction over the walk is by
`Reaches` (a set of naturals with 0 and all successors), for which the smallest element
outside the set is enough. The counters are cardinalities of sets of bytes (`PayloadMore`:
one block adds its size). `Lone` is about sizes modulo 16: a whole region has 8, a block cut
from it and its rest have 0, and merging these gives 8 again; this is why
the rounding does no harm with one allocation and does with more.

### Keyboard

`InputSystemProofs`, for every ring of at least two slots (`SizeAssumption`) and every set of
bytes as scancodes (`ScancodeAssumption`):

* `Stable`: `ReadStable`, which is inductive as it stands. Once `getevent_check` has seen
  `head # tail` the handler can only make the ring longer, and its test for room
  keeps it from writing the slot that is being read. The work is in the arithmetic: `RingIs`
  says what the contents of the ring are in terms of the distance from tail to head modulo
  the size.
* `Refinement`: the ring is the bounded queue of EventQueue. The handler appends or, when
  the ring is full, drops; the reader takes the oldest event in the step that moves `tail`.
* `Decoding`: what a scancode queues is what the codes so far make it mean
  (`DecodesAsTyped`, stated over the whole history of codes). The invariant adds that the
  two flags of the driver are functions of that history: `extended_prefix` says that a
  prefix came last, `shift_pressed` that the last shift code which is not the second byte
  of an extended one was a press.

On the whole of the input system, for every number of keys, terminal bytes and ticks (`WordAssumption`:
the count of ticks followed fits a word; `DelayAssumption`): a step of the system is to the
driver a scancode, a step of the reader, or nothing (`DriverStep`), so that `SystemStable`
and `SystemQueue` follow from the lemmas on the driver. `Service`, `Armed` and `Sleeps` are from

    SysInv == ReadStable /\ ServiceBalanced /\ KeyboardArmed /\ DeadlineKept

where `DeadlineKept` says that the deadline is start plus delay modulo the word for as long
as the sleep goes on. `KeyboardArmed` needs `ServiceBalanced`: that the byte in the 8042
has a request or a handler is kept only because a handler reads before it acknowledges, and
acknowledges its own interrupt.

### Clock

`RtcProofs!Genuine`, for every set of modes, of hours to start at and every number of updates
(`ClockAssumption`). The invariant keeps, for each byte read so far, a moment at which the
register had that value; the moments t1 <= t2 <= t3 <= t4 lie within the call. At the
comparison the samples agree, and the moment with the hour of the first and the seconds of
the second lies between t1 and t3: the time returned was the time then. The lemmas on registers (`BcdIs`, `CodeIs`, `HourIs`) take
the value through BCD and 12-hour code and back; `HourIs` is where the hours called twelve
drop out.

### Shell

`ShellProofs`, for every line length and history size (`SizeAssumption`: both positive) and
every alphabet: `Recall`, `Execution`, `Draft`, `Memory`. The invariant is

    ShellInv == RecallShowsEntry /\ ShowsBuffer /\ SavesDraft

`ShowsBuffer` relates the screen to the C string left in `cmd_buffer`: either all of it is
shown or, behind a new prompt, none of it. Without it nothing relates the string that Enter
executes to what is on the screen. `SavesDraft` is what the way back down rests on.
`AddIs` says what `history_add` does to the list of lines that the ring stands for:
nothing, one more, or one more and the oldest gone.

The second half of the module is about the line that is handed over, for lines of every
length, every `MAX_ARGS` and every alphabet without NUL (`ParserAssumption`).

* `Parsing` (`ParsesWords`). The invariant `ParseInv` says that from `input` on the memory is
  still the line as typed and ends in NUL (`Scanning`), that each pointer handed out is at the
  start of a word whose end in memory is a NUL, with exactly k words before the k-th
  argument (`Placed`), and that the words before `input` are these (`Found`). A step writes
  one NUL at the end of the word found, at or behind `input`, hence in no string handed out before (`PlacedKept`). At
  the end either no word is left or the array is full (`Complete`).
* `ParserMeetsLoop`. Shell does not run the parser: it takes the command to be `Command` of
  the line and `cmd_buffer` to keep `Remains` of it. The theorem says that the strings at
  `cmd` and at the start of the buffer are these when the parser is done; it joins the two
  halves.
* `Executing` (`DoesAsTyped`), for tables in which no name occurs twice (`TablesAssumption`):
  `CompareIs`, that `kstrcmp` tells strings without NUL apart, `LookupIs` and, for echo
  and rainbow, `JoinedIs`.
* `Numbers` (`NumbersExact`): `ParseIs`, that wrapping at each digit is wrapping once
  (`WrapOnce`), and `DecIs`, that the digits computed lowest first and copied back to front
  are the numeral of the number: the first k of them stand for the number divided by the
  power of ten that is left. `Wide` is the hypothesis that 31 decimal digits hold every
  number, as the buffers of `convert_u64` require, and that the defaults 100 and 64 are
  numbers; 2^64 satisfies it, as does the 128 of the run. It is a hypothesis of the theorem
  because TLC cannot write 10^31 in an ASSUME.

Induction over the line and over the digits goes through `Reaches`, which has a set of naturals in the place of the
predicate, and `Recursion`, which has a function in the place of the step: the library's
theorems take operators there and cannot be instantiated by the installed provers.

### Console

`VgaProofs`, for every buffer larger than the window (`GeometryAssumption`), every alphabet
with a space and every palette with light grey (`CharsAssumption`). `Screen`: `ScreenCurrent`
is inductive, by way of `Refreshing`, the lemma that a call which ends in render and cursor
update leaves the screen equal to the viewport. `Refinement`: each call is one operation of
Terminal on the roll. The step that needs care is the line feed in the last row, at which
rows, cursor and viewport shift and `dropped` grows: `AdvanceRefines` shows that every line
keeps its number, and that a viewport that was scrolled back stays on its lines until they
are gone.

### PCI

`PciProofs!Enumeration`, for every set of functions present and every array size
(`CandidatesAssumption`). The places are numbered in the order of the loops; the invariant
says that the entries are in that order and before the place looked at next (`Sorted`),
and that nothing is left out among them and, while there is room, before that place
(`Complete`). The functions behind a header without bit 7 are skipped by moving the place
eight on. `ReadIs` shows that the address packed by the code is the one the host bridge
takes apart, for every bus, slot, function and offset.

### From power-on to a trap

`MachineProofs`, for every kernel size, bss, stack and loader that fit their places
(`FitsAssumption`), every limit of the memory map up to the 64 entries its place holds,
every address of the stubs and of the TSS, and every size of byte, of which two make the part of an
address that a descriptor holds (`BuildAssumption`):

* `Interrupts`: `TablesInv` says which of the tables, controllers and drivers are set up at
  each place of the boot. `GateIs` and `TssIs` put the parts of an address together again.
* `MemoryMap`: the entries given so far are at their places, `di` is behind the last, and
  `ebx` counts them while there are more (`MapInv`).
* `Placement`: no write hits what is in use. `LayInv` says for each place of the boot where
  the writes so far may lie, one region per step that writes, and how far the disk read is:
  segment and sector number are both linear in the sectors read, with the carry from the low
  to the high word (`ReadInv`).
* `Image`: each sector read so far is held by a write (`LoadInv`); `Placement` is why no
  later write takes it away.
* `Memory`: the first megabyte, which `pmm_init` reserves, contains all these regions.
* `FrameRead`, `Transparency`, with the hypothesis that vector 29 is not raised (section 3
  says why it is needed): `TrapInv` says at each place of trap entry and exit how many words
  of the frame are on the stack and that each is the word its field is named for. The CPU aligns the
  stack before it pushes, and an even number of words lies between there and the call, hence
  `and rsp, -16` drops nothing that the exit would miss. That a trap enters its own stub is
  `GatesReach`, from `TablesInv`: this is where boot and trap meet.

The proof of `FrameRead` failed at first because two arms of a CASE in `FrameGenuine` both
applied to vector 14; the definition is now an IF. `KeyboardTyping!Meaning` was corrected in
the same way.

### What is model-checked only

**Liveness** (`KeysDelivered`, `BytesDelivered`, `SleepEnds`, `Reboots`, `BootEnds`,
`WalkEnds`, `rtc_tick`) and the absence of deadlock: the prover does not treat fairness
and ENABLED.

## 6. Plan

Done: models of memory, heap, keyboard, input, timer and reboot, boot and initialisation,
traps, clock, shell and its commands, console and PCI; proofs of every safety property
that the passing runs check.

Next:

1. A statement that the boot record of Boot satisfies `BootAssumption` of Pmm, whose
   theorems hold of every such record, so that the theorems on boot and memory join.
2. When finding 1 is repaired (heap.c:81): `NewRegionKept` becomes provable, and `Tiling`,
   `Holding` and `Apart` lose their hypothesis.

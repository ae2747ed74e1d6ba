-------------------------------- MODULE Heap --------------------------------
(***************************************************************************)
(* The kernel heap, src/heap.c: a list of blocks, each a header followed   *)
(* by its payload, cut first-fit out of regions of frames that come from   *)
(* the frame pool.  The pool is FrameAllocator, which Pmm implements.      *)
(*                                                                         *)
(* list is what a walk from heap_head meets, and hdr maps the address of   *)
(* every header the code can still read, those in the list and those in    *)
(* front of a caller's pointer, to its size and free fields.               *)
(***************************************************************************)
EXTENDS Integers, FiniteSets, SequencesExt

CONSTANTS
    PageSize,    \* HEAP_PAGE_SIZE
    FrameLimit,
    Word,        \* 2^64 in the code: size_t arithmetic is modulo Word
    Uses         \* the ways the heap may be used, see UseAssumption

\* A machine and its callers: the frames the pool starts with, the sizes and
\* the <<count, size>> pairs callers ask for, and, as a bound, the number of
\* allocations alive at the same time.
ASSUME UseAssumption ==
    \A u \in Uses : /\ u.usable \subseteq 1 .. FrameLimit - 1
                   /\ u.sizes \subseteq Nat
                   /\ u.pairs \subseteq Nat \X Nat
                   /\ u.maxLive \in Nat

\* The memory has addresses, and a page holds a header and more.
ASSUME SpaceAssumption ==
    /\ {FrameLimit, Word} \subseteq Nat \ {0}
    /\ PageSize \in Nat /\ PageSize >= 64 /\ PageSize % 16 = 0
    /\ FrameLimit * PageSize <= Word

HeaderSize == 24  \* sizeof(heap_block_t)
HEAP_ALIGNMENT == 16
HEAP_MIN_SPLIT == 32

VARIABLES
    use,                        \* which of Uses this is
    booted, free, held, reply,  \* the frame pool
    list,         \* the addresses of the blocks, in list order
    hdr,          \* address -> [size, free]
    total_bytes,
    used_bytes,
    live          \* history: [ptr, asked] of each allocation not freed

pool == <<booted, free, held, reply>>
vars == <<use, pool, list, hdr, total_bytes, used_bytes, live>>

Pool == INSTANCE FrameAllocator WITH Counts <- Nat
-----------------------------------------------------------------------------
align_up(value) ==
    LET v == (value + HEAP_ALIGNMENT - 1) % Word
    IN  v - (v % HEAP_ALIGNMENT)

\* The address after the payload of block b.
End(h, b) == b + HeaderSize + h[b].size

\* The list and the headers, as the helpers of heap.c pass them on.
Mem(l, h) == [list |-> l, hdr |-> h]

\* A header written at address b.
With(h, b, size, isFree) ==
    [c \in DOMAIN h \cup {b} |-> IF c = b THEN [size |-> size, free |-> isFree] ELSE h[c]]

\* The headers that a walk or a kfree can still read.
Readable(h, l, allocs) ==
    [b \in Range(l) \cup {a.ptr - HeaderSize : a \in allocs} |-> h[b]]

\* In address order: before the first block that is not below it.
heap_append_block(m, b) ==
    LET k == SelectInSeq(m.list, LAMBDA c : c >= b)
    IN  Mem(IF k = 0 THEN Append(m.list, b) ELSE InsertAt(m.list, k, b), m.hdr)

\* Mutant: forgets the header between the two payloads.
MergeableShort(h, b, c) ==
    h[b].free /\ h[c].free /\ b + align_up(h[b].size) = c

\* Mutant: does not look whether the next block is in use.
MergeableBlindly(h, b, c) ==
    h[b].free /\ b + HeaderSize + align_up(h[b].size) = c

\* Block c may be merged into the free block b that precedes it in the list.
Mergeable(h, b, c) ==
    h[b].free /\ h[c].free /\ b + HeaderSize + align_up(h[b].size) = c

\* Mutant: forgets that the header of c becomes payload.
MergedWithoutHeader(h, b, c) == h[b].size + h[c].size

\* The size of b after it has swallowed c.
Merged(h, b, c) == h[b].size + HeaderSize + h[c].size

\* The walk has come from the last block of acc to c: one of them is the
\* next block it looks at.
merge_next(acc, c) ==
    IF acc.list # <<>> /\ Mergeable(acc.hdr, Last(acc.list), c)
      THEN Mem(acc.list, With(acc.hdr, Last(acc.list),
                              Merged(acc.hdr, Last(acc.list), c), TRUE))
      ELSE Mem(Append(acc.list, c), acc.hdr)

\* One walk over the list; a block that has grown is tried again with the
\* block that now follows it.
heap_coalesce(m) ==
    LET walk[k \in 0 .. Len(m.list)] ==
          IF k = 0 THEN Mem(<<>>, m.hdr) ELSE merge_next(walk[k - 1], m.list[k])
    IN  walk[Len(m.list)]

\* A block of this size leaves a useful rest behind its first aligned bytes.
Splittable(size, aligned) == size >= (aligned + HeaderSize + HEAP_MIN_SPLIT) % Word

\* Cuts b to size and puts the rest behind it.  A block that is not in the
\* list (see heap_expand) links the rest to itself only.
heap_split_block(m, b, size) ==
    LET aligned == align_up(size)
        rest == b + HeaderSize + aligned
        k == SelectInSeq(m.list, LAMBDA c : c = b)
    IN  IF ~Splittable(m.hdr[b].size, aligned)
          THEN m
          ELSE Mem(IF k = 0 THEN m.list ELSE InsertAt(m.list, k + 1, rest),
                   With(With(m.hdr, rest, m.hdr[b].size - aligned - HeaderSize, TRUE),
                        b, aligned, m.hdr[b].free))

\* Mutant: forgets that the region starts with a header.
PagesWithoutHeader(size) == ((size + PageSize - 1) % Word) \div PageSize

\* The frames heap_expand asks for.
Pages(size) ==
    LET bytes == align_up((size + HeaderSize) % Word)
    IN  ((bytes + PageSize - 1) % Word) \div PageSize

\* The region becomes a free block of the list, merged with its neighbours;
\* heap_expand returns region itself in any case.
Expanded(region, pages) ==
    heap_coalesce(
      heap_append_block(
        Mem(list, With(hdr, region, pages * PageSize - HeaderSize, TRUE)), region))

\* The end of kmalloc: cut the block, mark it used, charge it, return it.
Take(m, b, size, asked) ==
    LET s == heap_split_block(m, b, size)
    IN  /\ list' = s.list
        /\ used_bytes' = (used_bytes + s.hdr[b].size) % Word
        /\ live' = live \cup {[ptr |-> b + HeaderSize, asked |-> asked]}
        /\ hdr' = Readable([s.hdr EXCEPT ![b].free = FALSE], list', live')
-----------------------------------------------------------------------------
\* heap_init after pmm_init has filled the pool.
Init ==
    /\ use \in Uses
    /\ booted = TRUE /\ free = use.usable /\ held = {} /\ reply = 0
    /\ list = <<>>
    /\ hdr = <<>>
    /\ total_bytes = 0
    /\ used_bytes = 0
    /\ live = {}

\* The first block of the list that can hold size bytes, 0 if there is none.
FirstFit(size) == SelectInSeq(list, LAMBDA b : hdr[b].free /\ hdr[b].size >= size)

kmalloc_fit(n, asked) ==
    /\ FirstFit(align_up(n)) # 0
    /\ Take(Mem(list, hdr), list[FirstFit(align_up(n))], align_up(n), asked)
    /\ UNCHANGED <<pool, total_bytes>>

kmalloc_expand(n, asked) ==
    /\ FirstFit(align_up(n)) = 0
    /\ Pool!Alloc(Pages(align_up(n)))
    /\ total_bytes' = total_bytes + Pages(align_up(n)) * PageSize - HeaderSize
    /\ Take(Expanded(reply', Pages(align_up(n))), reply', align_up(n), asked)

\* No block and no frames: the null pointer.
kmalloc_fail(n) ==
    /\ FirstFit(align_up(n)) = 0
    /\ Pool!Refuse(Pages(align_up(n)))
    /\ UNCHANGED <<list, hdr, total_bytes, used_bytes, live>>

\* A size of 0 returns at once and changes nothing.
kmalloc(n, asked) ==
    /\ n # 0
    /\ Cardinality(live) < use.maxLive
    /\ kmalloc_fit(n, asked) \/ kmalloc_expand(n, asked) \/ kmalloc_fail(n)

kcalloc(c, size) ==
    /\ c # 0 /\ size # 0
    /\ kmalloc((c * size) % Word, c * size)

\* Mutant: reads the size after the block has been merged.
UnchargeLate(b) ==
    used_bytes - heap_coalesce(Mem(list, [hdr EXCEPT ![b].free = TRUE])).hdr[b].size

\* What kfree charges back.
Uncharge(b) == used_bytes - hdr[b].size

kfree(a) ==
    LET b == a.ptr - HeaderSize
        m == heap_coalesce(Mem(list, [hdr EXCEPT ![b].free = TRUE]))
    IN  /\ live' = live \ {a}
        /\ IF hdr[b].free
             THEN /\ UNCHANGED <<list, used_bytes>>
                  /\ hdr' = Readable(hdr, list, live')
             ELSE /\ list' = m.list
                  /\ hdr' = Readable(m.hdr, m.list, live')
                  /\ used_bytes' = Uncharge(b) % Word
        /\ UNCHANGED <<pool, total_bytes>>

Next ==
    \/ \E n \in use.sizes : kmalloc(n, n) /\ UNCHANGED use
    \/ \E p \in use.pairs : kcalloc(p[1], p[2]) /\ UNCHANGED use
    \/ \E a \in live : kfree(a) /\ UNCHANGED use

Spec == Init /\ [][Next]_vars
-----------------------------------------------------------------------------
Blocks == Range(list)

InUse == {b \in Blocks : ~hdr[b].free}

\* The bytes of a block, its payload, and the bytes of a frame.
Bytes(h, b) == b .. End(h, b) - 1
Payload(h, b) == b + HeaderSize .. End(h, b) - 1
FrameBytes(f) == f * PageSize .. (f + 1) * PageSize - 1

\* The list is a sequence of written headers, and the counters are words.
TypeOK ==
    /\ Blocks \subseteq DOMAIN hdr
    /\ \A b \in DOMAIN hdr : hdr[b].size \in 0 .. Word - 1 /\ hdr[b].free \in BOOLEAN
    /\ total_bytes \in 0 .. Word - 1
    /\ used_bytes \in 0 .. Word - 1

\* Headers and payloads of the listed blocks fill the frames the heap has
\* taken from the pool exactly: no two blocks overlap, none reaches memory
\* the heap does not own, and no byte of a region is ever lost by splitting
\* and merging.
BlocksTile ==
    /\ TypeOK
    /\ \A k \in 1 .. Len(list) - 1 : End(hdr, list[k]) <= list[k + 1]
    /\ UNION {Bytes(hdr, b) : b \in Blocks} = UNION {FrameBytes(f) : f \in held}

\* Every pointer a caller has not freed is the payload of a listed block that
\* is in use and at least as large as the request, and every block in use
\* belongs to one such pointer: nothing is handed out twice, cut short, or
\* leaked.
LiveAreBlocks ==
    /\ \A a \in live : /\ a.ptr - HeaderSize \in Blocks
                       /\ ~hdr[a.ptr - HeaderSize].free
                       /\ hdr[a.ptr - HeaderSize].size >= a.asked
    /\ \A b \in Blocks : ~hdr[b].free => \E a \in live : a.ptr = b + HeaderSize
    /\ \A a1, a2 \in live : a1.ptr = a2.ptr => a1 = a2

\* used_bytes is the payload in use and never exceeds total_bytes, so that
\* heap_free_bytes, their difference, never wraps below zero.
UsedExact ==
    /\ used_bytes = Cardinality(UNION {Payload(hdr, b) : b \in InUse})
    /\ used_bytes <= total_bytes

\* Callers that hold one allocation at a time, as allocdemo does, leave no
\* fragments: once it has been freed, the free blocks are the regions again.
AllFreedIsWhole ==
    use.maxLive = 1 /\ live = {} => \A b \in Blocks : b % PageSize = 0

\* The sizes asked for are so far from 2^64 that no sum wraps.
Modest ==
    \A u \in Uses : \A n \in u.sizes \cup {p[1] * p[2] : p \in u.pairs} :
      n + 2 * PageSize <= Word

\* heap_expand's region is not merged into the free block before it, so that
\* the address it returns is that of a block.
NewRegionKept == held' # held => reply' \in Blocks'

\* Nor is a block at the start of a frame merged into the one before it later.
RegionsKept ==
    /\ NewRegionKept
    /\ \A b \in Blocks : b % PageSize = 0 => b \in Blocks'

\* A caller's memory never lies inside a block the heap considers free.
NotInFreeBlock ==
    \A a \in live, b \in Blocks :
      hdr[b].free => a.ptr + a.asked <= b \/ End(hdr, b) <= a.ptr

=============================================================================

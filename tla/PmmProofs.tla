----------------------------- MODULE PmmProofs -----------------------------
(***************************************************************************)
(* Proofs about the physical memory manager, for every page size, memory   *)
(* size, memory map and sequence of calls.                                 *)
(***************************************************************************)
EXTENDS Pmm, TLAPS, FiniteSetTheorems

-----------------------------------------------------------------------------
(* Arithmetic of the page rounding.                                        *)

\* Rounding down yields at most the value, by less than a page.
LEMMA AlignDown ==
    ASSUME NEW v \in Nat
    PROVE  /\ page_align_down(v) \in Nat
           /\ page_align_down(v) <= v
           /\ v < page_align_down(v) + PageSize
  <1>1. v % PageSize \in 0 .. PageSize - 1
    BY PageAssumption
  <1>2. v % PageSize <= v
    BY PageAssumption
  <1> QED BY <1>1, <1>2, PageAssumption DEF page_align_down

\* Rounding up yields at least the value, by less than a page.
LEMMA AlignUp ==
    ASSUME NEW v \in Nat
    PROVE  /\ page_align_up(v) \in Nat
           /\ v <= page_align_up(v)
           /\ page_align_up(v) < v + PageSize
  <1>1. v + PageSize - 1 \in Nat
    BY PageAssumption
  <1> QED BY <1>1, AlignDown, PageAssumption DEF page_align_up

\* Multiplication by the page size keeps the order of frame numbers.
LEMMA PageMonotone ==
    ASSUME NEW a \in Nat, NEW b \in Nat
    PROVE  /\ a * PageSize \in Nat
           /\ a <= b <=> a * PageSize <= b * PageSize
           /\ a < b => a * PageSize + PageSize <= b * PageSize
  <1>1. \A c \in Nat : c * PageSize \in Nat
    BY PageAssumption
  <1>2. ASSUME NEW c \in Nat, NEW d \in Nat, d >= c
        PROVE  c * PageSize <= d * PageSize
    <2>1. PICK e \in Nat : d = c + e
      BY <1>2
    <2>2. d * PageSize = c * PageSize + e * PageSize
      BY <2>1, PageAssumption
    <2> QED BY <1>1, <2>2
  <1>3. ASSUME NEW c \in Nat, NEW d \in Nat, d > c
        PROVE  c * PageSize + PageSize <= d * PageSize
    <2>1. (c + 1) * PageSize = c * PageSize + PageSize
      BY PageAssumption
    <2>2. (c + 1) * PageSize <= d * PageSize
      BY <1>2, <1>3
    <2> QED BY <2>1, <2>2
  <1>4. a <= b => a * PageSize <= b * PageSize
    BY <1>2
  <1>5. ~(a <= b) => ~(a * PageSize <= b * PageSize)
    <2>1. SUFFICES ASSUME a > b PROVE ~(a * PageSize <= b * PageSize)
      OBVIOUS
    <2>2. b * PageSize + PageSize <= a * PageSize
      BY <1>3, <2>1
    <2> QED BY <2>2, <1>1, PageAssumption
  <1> QED BY <1>1, <1>3, <1>4, <1>5

\* A rounded address is the address of a frame.
LEMMA AlignedIsFrame ==
    ASSUME NEW v \in Nat
    PROVE  \E q \in Nat : page_align_down(v) = q * PageSize
  <1>1. v \div PageSize \in Nat
    BY PageAssumption
  <1>2. v = PageSize * (v \div PageSize) + (v % PageSize)
    BY PageAssumption
  <1>3. page_align_down(v) = (v \div PageSize) * PageSize
    BY <1>1, <1>2, PageAssumption DEF page_align_down
  <1> QED BY <1>1, <1>3

\* free_range only makes frames available that lie in the range entirely.
LEMMA AvailableIsInside ==
    ASSUME NEW base \in Nat, NEW length \in Nat,
           NEW f \in Available(base, length),
           NEW b \in Nat, f * PageSize <= b, b < f * PageSize + PageSize
    PROVE  Covers(base, length, b)
  <1>1. f \in Nat /\ f * PageSize \in Nat
    BY PageMonotone, LimitAssumption DEF Available, FramesBetween, Frames
  <1>2. base <= f * PageSize
    BY <1>1, AlignUp DEF Available, FramesBetween
  <1>3. PICK q \in Nat : page_align_down(base + length) = q * PageSize
    BY AlignedIsFrame
  <1>4. f * PageSize < q * PageSize
    BY <1>3 DEF Available, FramesBetween
  <1>5. f < q
    BY <1>1, <1>4, PageMonotone
  <1>6. f * PageSize + PageSize <= q * PageSize
    BY <1>1, <1>5, PageMonotone
  <1>7. q * PageSize <= base + length
    BY <1>3, AlignDown
  <1> QED BY <1>1, <1>2, <1>6, <1>7, PageAssumption, PageMonotone DEF Covers

\* reserve_range withholds every frame the range touches.
LEMMA TouchedIsReserved ==
    ASSUME NEW base \in Nat, NEW length \in Nat, NEW f \in Frames,
           NEW b \in Nat, f * PageSize <= b, b < f * PageSize + PageSize,
           Covers(base, length, b)
    PROVE  f \in Reserved(base, length)
  <1>1. f \in Nat /\ f * PageSize \in Nat
    BY PageMonotone, LimitAssumption DEF Frames
  <1>2. PICK q \in Nat : page_align_down(base) = q * PageSize
    BY AlignedIsFrame
  <1>3. q * PageSize <= base /\ q * PageSize \in Nat
    BY <1>2, AlignDown
  <1>4. q * PageSize < f * PageSize + PageSize
    BY <1>1, <1>3, PageAssumption DEF Covers
  <1>5. ~(f < q)
    BY <1>1, <1>3, <1>4, PageMonotone, PageAssumption
  <1>6. q * PageSize <= f * PageSize
    BY <1>1, <1>5, PageMonotone
  <1>7. f * PageSize < page_align_up(base + length)
    <2>1. base + length <= page_align_up(base + length)
      BY AlignUp
    <2>2. page_align_up(base + length) \in Nat
      BY AlignUp
    <2> QED BY <1>1, <2>1, <2>2 DEF Covers
  <1> QED BY <1>2, <1>6, <1>7 DEF Reserved, FramesBetween

\* Frame 0 lies in the BIOS area and is always withheld.
LEMMA FrameZeroReserved == 0 \in Reserved(0, LowMemory)
  <1>1. LowMemory \in Nat \ {0} /\ 0 \in Frames
    BY LowAssumption, LimitAssumption DEF Frames
  <1>2. Covers(0, LowMemory, 0)
    BY <1>1 DEF Covers
  <1>3. 0 * PageSize = 0
    BY PageAssumption
  <1>4. 0 * PageSize <= 0 /\ 0 < 0 * PageSize + PageSize
    BY <1>3, PageAssumption
  <1> QED BY <1>1, <1>2, <1>4, TouchedIsReserved
-----------------------------------------------------------------------------
(* The frames are a finite set, and so are its subsets.                    *)

\* The frames are finitely many, so that sets of them can be counted.
LEMMA FramesFinite ==
    ASSUME NEW S \in SUBSET Frames
    PROVE  /\ IsFiniteSet(S)
           /\ Cardinality(S) \in 0 .. FrameLimit
  <1>1. IsFiniteSet(Frames) /\ Cardinality(Frames) = FrameLimit
    BY FS_Interval, LimitAssumption DEF Frames
  <1>2. IsFiniteSet(S) /\ Cardinality(S) <= Cardinality(Frames)
    BY <1>1, FS_Subset
  <1> QED BY <1>1, <1>2, FS_CardinalityType

\* Setting bits lowers the number of clear bits by the bits that were clear.
LEMMA SetBits ==
    ASSUME NEW B \in SUBSET Frames, NEW S \in SUBSET Frames
    PROVE  Cardinality(Frames \ (B \cup S))
             = Cardinality(Frames \ B) - Cardinality(S \ B)
  <1> DEFINE C == Frames \ B
             D == S \ B
  <1>1. IsFiniteSet(C) /\ IsFiniteSet(D)
    BY FramesFinite
  <1>2. Cardinality(C \ D) = Cardinality(C) - Cardinality(C \cap D)
    BY <1>1, FS_Difference
  <1>3. C \cap D = D /\ C \ D = Frames \ (B \cup S)
    OBVIOUS
  <1> QED BY <1>2, <1>3

\* Clearing bits raises it by the bits that were set.
LEMMA ClearBits ==
    ASSUME NEW B \in SUBSET Frames, NEW S \in SUBSET Frames
    PROVE  Cardinality(Frames \ (B \ S))
             = Cardinality(Frames \ B) + Cardinality(S \cap B)
  <1> DEFINE C == Frames \ B
             D == S \cap B
  <1>1. IsFiniteSet(C) /\ IsFiniteSet(D)
    BY FramesFinite
  <1>2. Cardinality(C \cup D) = Cardinality(C) + Cardinality(D) - Cardinality(C \cap D)
    BY <1>1, FS_Union
  <1>3. C \cap D = {} /\ C \cup D = Frames \ (B \ S)
    OBVIOUS
  <1>4. Cardinality(C \cap D) = 0
    BY <1>3, FS_EmptySet
  <1>5. Cardinality(C) \in Nat /\ Cardinality(D) \in Nat
    BY <1>1, FS_CardinalityType
  <1> QED BY <1>2, <1>3, <1>4, <1>5
-----------------------------------------------------------------------------
(* The inductive invariant.                                                *)

UsableBelow(n) ==
    UNION {Available(boot.memory_map[k].base, boot.memory_map[k].length) :
             k \in {j \in DOMAIN boot.memory_map :
                      j < n /\ boot.memory_map[j].type = 1}}

KeptBelow(n) ==
    UNION {Reserved(Reservations[k][1], Reservations[k][2]) : k \in 1 .. n - 1}

\* How far pmm_init has come.
BootProgress ==
    /\ pc = "start" => owned = {}
    /\ pc = "free" =>
         /\ owned = {}
         /\ i \in 1 .. Len(boot.memory_map) + 1
         /\ frame_bitmap = Frames \ UsableBelow(i)
    /\ pc = "reserve" =>
         /\ owned = {}
         /\ i \in 1 .. 5
         /\ frame_bitmap = (Frames \ Usable) \cup KeptBelow(i)

\* The loop of pmm_alloc_frames runs with a request it has not refused.
Asked == pc = "scan" => count \in 1 .. FrameLimit /\ count \in Counts

IInv == TypeOK /\ AccountingExact /\ BootProgress /\ NoFrameLost /\ Asked /\ ScanExact
-----------------------------------------------------------------------------
\* The boot record never changes, and with it what is to be withheld.
LEMMA BootStable ==
    ASSUME boot' = boot
    PROVE  /\ Reservations' = Reservations
           /\ Usable' = Usable /\ Kept' = Kept /\ Withheld' = Withheld
           /\ \A n : UsableBelow(n)' = UsableBelow(n)
           /\ \A n : KeptBelow(n)' = KeptBelow(n)
  <1>1. Reservations' = Reservations
    BY DEF Reservations
  <1>2. Usable' = Usable
    BY DEF Usable
  <1>3. Kept' = Kept
    BY <1>1 DEF Kept
  <1>4. \A n : UsableBelow(n)' = UsableBelow(n)
    BY DEF UsableBelow
  <1>5. \A n : KeptBelow(n)' = KeptBelow(n)
    BY <1>1 DEF KeptBelow
  <1> QED BY <1>1, <1>2, <1>3, <1>4, <1>5 DEF Withheld

\* reserve_range and free_range visit frames only.
LEMMA RangesAreFrames ==
    ASSUME NEW base, NEW length
    PROVE  Available(base, length) \subseteq Frames /\ Reserved(base, length) \subseteq Frames
  BY DEF Available, Reserved, FramesBetween

\* Each of the five reservations is a range of natural numbers.
LEMMA ReservationsType ==
    ASSUME boot \in BootInfos
    PROVE  \A k \in 1 .. 5 : Reservations[k][1] \in Nat /\ Reservations[k][2] \in Nat
  <1>1. boot \in BootInfo
    BY BootAssumption
  <1>2. Len(boot.memory_map) \in Nat /\ boot.memory_map \in Seq(Entry)
    BY <1>1 DEF BootInfo
  <1>3. EntrySize * Len(boot.memory_map) \in Nat
    BY <1>2, LowAssumption
  <1>4. /\ boot.kernel_phys_start \in Nat /\ boot.kernel_phys_size \in Nat
        /\ boot.info_addr \in Nat /\ boot.memory_map_addr \in Nat
    BY <1>1 DEF BootInfo
  <1>5. SUFFICES ASSUME NEW k \in {1, 2, 3, 4, 5}
                 PROVE  Reservations[k][1] \in Nat /\ Reservations[k][2] \in Nat
    BY 1 .. 5 = {1, 2, 3, 4, 5}
  <1>6. CASE k = 1 BY <1>6, LowAssumption DEF Reservations
  <1>7. CASE k = 2 BY <1>7, <1>4 DEF Reservations
  <1>8. CASE k = 3 BY <1>8, <1>4, LowAssumption DEF Reservations
  <1>9. CASE k = 4 BY <1>9, <1>3, <1>4 DEF Reservations
  <1>10. CASE k = 5 BY <1>10, LowAssumption DEF Reservations
  <1> QED BY <1>6, <1>7, <1>8, <1>9, <1>10

\* The map loop has freed all usable frames when it ends.
LEMMA UsableComplete ==
    ASSUME boot \in BootInfos
    PROVE  UsableBelow(Len(boot.memory_map) + 1) = Usable
  <1>1. boot.memory_map \in Seq(Entry)
    BY BootAssumption DEF BootInfo
  <1>2. {j \in DOMAIN boot.memory_map :
           j < Len(boot.memory_map) + 1 /\ boot.memory_map[j].type = 1}
        = {j \in DOMAIN boot.memory_map : boot.memory_map[j].type = 1}
    BY <1>1
  <1> QED BY <1>2 DEF UsableBelow, Usable

\* One iteration of the map loop.
LEMMA UsableStep ==
    ASSUME boot \in BootInfos, NEW n \in 1 .. Len(boot.memory_map)
    PROVE  UsableBelow(n + 1) =
             UsableBelow(n) \cup
               IF boot.memory_map[n].type = 1
                 THEN Available(boot.memory_map[n].base, boot.memory_map[n].length)
                 ELSE {}
  <1>1. boot.memory_map \in Seq(Entry)
    BY BootAssumption DEF BootInfo
  <1> DEFINE J(m) == {j \in DOMAIN boot.memory_map : j < m /\ boot.memory_map[j].type = 1}
  <1>2. J(n + 1) = J(n) \cup (IF boot.memory_map[n].type = 1 THEN {n} ELSE {})
    BY <1>1
  <1> QED BY <1>2 DEF UsableBelow

\* One iteration of the reservations.
LEMMA KeptStep ==
    ASSUME NEW n \in 1 .. 5
    PROVE  KeptBelow(n + 1) =
             KeptBelow(n) \cup Reserved(Reservations[n][1], Reservations[n][2])
  <1>1. 1 .. (n + 1) - 1 = (1 .. n - 1) \cup {n}
    OBVIOUS
  <1> QED BY <1>1 DEF KeptBelow

\* The five reservations of pmm_init make up Kept; before the first nothing is kept.
LEMMA KeptComplete == KeptBelow(6) = Kept /\ KeptBelow(1) = {}
  <1>1. 1 .. 6 - 1 = 1 .. 5 /\ 1 .. 1 - 1 = {}
    OBVIOUS
  <1> QED BY <1>1 DEF KeptBelow, Kept

\* Before the first entry of the memory map nothing is usable.
LEMMA UsableEmpty ==
    ASSUME boot \in BootInfos
    PROVE  UsableBelow(1) = {}
  <1>1. boot.memory_map \in Seq(Entry)
    BY BootAssumption DEF BootInfo
  <1>2. {j \in DOMAIN boot.memory_map : j < 1 /\ boot.memory_map[j].type = 1} = {}
    BY <1>1
  <1> QED BY <1>2 DEF UsableBelow
-----------------------------------------------------------------------------
(* Type correctness and the exact counter.                                 *)

\* The counter that equals the number of clear bits is in range.
LEMMA CounterInRange ==
    ASSUME NEW B \in SUBSET Frames
    PROVE  Cardinality(Frames \ B) \in 0 .. FrameLimit
  BY FramesFinite

\* The inductive invariant holds before pmm_init.
LEMMA InitIInv == Init => IInv
  <1> SUFFICES ASSUME Init PROVE IInv
    OBVIOUS
  <1> QED BY LimitAssumption
      DEF Init, IInv, TypeOK, AccountingExact, BootProgress, NoFrameLost, Asked,
          ScanExact, Frames

\* pmm_init starts with all bits set.
LEMMA InitCall ==
    ASSUME IInv, pmm_init
    PROVE  IInv'
  <1> USE DEF IInv, pmm_init
  <1>1. Cardinality(Frames \ Frames) = 0
    BY FS_EmptySet
  <1>2. TypeOK'
    BY LimitAssumption DEF TypeOK, scan
  <1>3. AccountingExact'
    BY <1>1 DEF AccountingExact
  <1>4. BootProgress'
    <2>1. boot \in BootInfos /\ boot' = boot
      BY DEF TypeOK
    <2>2. UsableBelow(1) = {}
      BY <2>1, UsableEmpty
    <2>3. UsableBelow(i') = UsableBelow(1) /\ UsableBelow(i)' = UsableBelow(i')
      BY <2>1 DEF UsableBelow
    <2>4. Len(boot.memory_map) \in Nat
      BY <2>1, BootAssumption DEF BootInfo
    <2> QED BY <2>1, <2>2, <2>3, <2>4 DEF BootProgress
  <1>5. NoFrameLost' /\ Asked' /\ ScanExact'
    BY DEF NoFrameLost, Asked, ScanExact
  <1> QED BY <1>2, <1>3, <1>4, <1>5

\* One entry of the map: free_range keeps the counter and frees as planned.
LEMMA InitFree ==
    ASSUME IInv, pmm_init_free
    PROVE  IInv'
  <1> USE DEF IInv
  <1> DEFINE e == boot.memory_map[i]
             S == IF e.type = 1 THEN Available(e.base, e.length) ELSE {}
  <1>1. /\ boot \in BootInfos /\ boot' = boot /\ pc = "free" /\ pc' = "free"
        /\ i \in Nat /\ i' = i + 1 /\ i <= Len(boot.memory_map)
        /\ frame_bitmap \subseteq Frames
        /\ UNCHANGED <<scan, ret, owned>>
    BY DEF TypeOK, pmm_init_free
  <1>2. S \subseteq Frames
    BY RangesAreFrames
  <1>3. frame_bitmap' = frame_bitmap \ S
    BY DEF pmm_init_free, free_range
  <1>4. free_frames' = free_frames + Cardinality(S \cap frame_bitmap)
    <2>1. CASE e.type = 1
      BY <2>1 DEF pmm_init_free, free_range
    <2>2. CASE e.type # 1
      <3>1. S \cap frame_bitmap = {}
        BY <2>2
      <3>2. free_frames' = free_frames /\ free_frames \in Nat
        BY <2>2 DEF pmm_init_free, TypeOK
      <3> QED BY <3>1, <3>2, FS_EmptySet
    <2> QED BY <2>1, <2>2
  <1>5. free_frames' = Cardinality(Frames \ frame_bitmap')
    BY <1>1, <1>2, <1>3, <1>4, ClearBits DEF AccountingExact
  <1>6. TypeOK'
    <2>1. frame_bitmap' \subseteq Frames
      BY <1>1, <1>3
    <2>2. free_frames' \in 0 .. FrameLimit
      BY <2>1, <1>5, CounterInRange
    <2> QED BY <1>1, <2>1, <2>2 DEF TypeOK, scan
  <1>7. BootProgress'
    <2>1. i \in 1 .. Len(boot.memory_map) /\ frame_bitmap = Frames \ UsableBelow(i)
          /\ owned = {}
      BY <1>1 DEF BootProgress
    <2>2. UsableBelow(i + 1) = UsableBelow(i) \cup S
      BY <1>1, <2>1, UsableStep
    <2>3. UsableBelow(i)' = UsableBelow(i + 1)
      BY <1>1 DEF UsableBelow
    <2>4. Len(boot.memory_map) \in Nat
      BY <1>1, BootAssumption DEF BootInfo
    <2> QED BY <1>1, <1>3, <2>1, <2>2, <2>3, <2>4 DEF BootProgress
  <1>8. NoFrameLost' /\ Asked' /\ ScanExact' /\ AccountingExact'
    BY <1>1, <1>5 DEF NoFrameLost, Asked, ScanExact, AccountingExact
  <1> QED BY <1>6, <1>7, <1>8

\* The map is exhausted: everything usable has been freed.
LEMMA InitFreed ==
    ASSUME IInv, pmm_init_freed
    PROVE  IInv'
  <1> USE DEF IInv
  <1>1. /\ boot \in BootInfos /\ boot' = boot /\ pc = "free" /\ pc' = "reserve"
        /\ i' = 1 /\ i \in Nat /\ i > Len(boot.memory_map)
        /\ UNCHANGED <<frame_bitmap, free_frames, scan, ret, owned>>
    BY DEF TypeOK, pmm_init_freed
  <1>2. TypeOK'
    BY <1>1 DEF TypeOK, scan
  <1>3. BootProgress'
    <2>1. Len(boot.memory_map) \in Nat
      BY <1>1, BootAssumption DEF BootInfo
    <2>2. i = Len(boot.memory_map) + 1 /\ owned = {} /\ frame_bitmap = Frames \ UsableBelow(i)
      BY <1>1, <2>1 DEF BootProgress
    <2>3. UsableBelow(i) = Usable
      BY <1>1, <2>2, UsableComplete
    <2>4. Usable' = Usable /\ KeptBelow(i)' = KeptBelow(1)
      BY <1>1, BootStable DEF KeptBelow, Reservations
    <2> QED BY <1>1, <2>2, <2>3, <2>4, KeptComplete DEF BootProgress
  <1>4. NoFrameLost' /\ Asked' /\ ScanExact' /\ AccountingExact'
    BY <1>1 DEF NoFrameLost, Asked, ScanExact, AccountingExact
  <1> QED BY <1>2, <1>3, <1>4

\* One reservation; after the fifth the pool is open.
LEMMA InitReserve ==
    ASSUME IInv, pmm_init_reserve
    PROVE  IInv'
  <1> USE DEF IInv
  <1> DEFINE S == Reserved(Reservations[i][1], Reservations[i][2])
  <1>1. /\ boot \in BootInfos /\ boot' = boot /\ pc = "reserve"
        /\ pc' = IF i = 5 THEN "idle" ELSE "reserve"
        /\ i \in 1 .. 5 /\ i' = i + 1 /\ owned = {}
        /\ frame_bitmap \subseteq Frames
        /\ frame_bitmap = (Frames \ Usable) \cup KeptBelow(i)
        /\ UNCHANGED <<scan, ret, owned>>
    BY DEF TypeOK, BootProgress, pmm_init_reserve
  <1>2. S \subseteq Frames
    BY RangesAreFrames
  <1>3. /\ frame_bitmap' = frame_bitmap \cup S
        /\ free_frames' = free_frames - Cardinality(S \ frame_bitmap)
    BY DEF pmm_init_reserve, reserve_range
  <1>4. free_frames' = Cardinality(Frames \ frame_bitmap')
    BY <1>1, <1>2, <1>3, SetBits DEF AccountingExact
  <1>5. TypeOK'
    <2>1. frame_bitmap' \subseteq Frames
      BY <1>1, <1>2, <1>3
    <2>2. free_frames' \in 0 .. FrameLimit
      BY <2>1, <1>4, CounterInRange
    <2> QED BY <1>1, <2>1, <2>2 DEF TypeOK, scan
  <1>6. frame_bitmap' = (Frames \ Usable) \cup KeptBelow(i + 1)
    BY <1>1, <1>3, KeptStep
  <1>7. /\ KeptBelow(i)' = KeptBelow(i + 1) /\ Usable' = Usable
        /\ Withheld' = Withheld
    BY <1>1, BootStable DEF KeptBelow, Reservations
  <1>8. BootProgress'
    BY <1>1, <1>6, <1>7 DEF BootProgress
  <1>9. NoFrameLost'
    BY <1>1, <1>6, <1>7, KeptComplete DEF NoFrameLost, Withheld
  <1>10. Asked' /\ ScanExact' /\ AccountingExact'
    BY <1>1, <1>4 DEF Asked, ScanExact, AccountingExact
  <1> QED BY <1>5, <1>8, <1>9, <1>10
-----------------------------------------------------------------------------
(* The calls.                                                              *)

\* The call of pmm_alloc_frames, refused or not, preserves the invariant.
LEMMA AllocCall ==
    ASSUME IInv, NEW n \in Counts, pmm_alloc_frames(n)
    PROVE  IInv'
  <1> USE DEF IInv
  <1>1. n \in Nat
    BY CountsAssumption
  <1>2. /\ pc = "idle" /\ pc' \in {"idle", "scan"}
        /\ UNCHANGED <<frame_bitmap, free_frames, boot, i, owned>>
    BY DEF pmm_alloc_frames
  <1>3. TypeOK'
    BY <1>1, LimitAssumption DEF TypeOK, pmm_alloc_frames, scan
  <1>4. AccountingExact' /\ BootProgress'
    BY <1>2 DEF AccountingExact, BootProgress
  <1>5. NoFrameLost'
    BY <1>2, BootStable DEF NoFrameLost
  <1>6. Asked'
    BY <1>1, LimitAssumption DEF Asked, pmm_alloc_frames
  <1>7. ScanExact'
    <2>1. CASE pc' = "idle"
      BY <2>1 DEF ScanExact
    <2>2. CASE pc' = "scan"
      <3>1. count' = n /\ n > 0 /\ frame' = 0 /\ run_length' = 0
        BY <1>1, <1>2, <2>2 DEF pmm_alloc_frames
      <3>2. \A s \in Frames : ~(s + n <= 0)
        BY <1>1, <3>1, LimitAssumption DEF Frames
      <3> QED BY <1>1, <3>1, <3>2 DEF ScanExact
    <2> QED BY <1>2, <2>1, <2>2
  <1> QED BY <1>3, <1>4, <1>5, <1>6, <1>7

\* A frame in use ends the run and preserves the invariant.
LEMMA ScanUsed ==
    ASSUME IInv, scan_used
    PROVE  IInv'
  <1> USE DEF IInv
  <1>1. /\ pc = "scan" /\ pc' = "scan" /\ frame \in Frames /\ frame \in frame_bitmap
        /\ frame' = frame + 1 /\ run_length' = 0 /\ run_start' = run_start
        /\ count \in Nat /\ run_length \in Nat /\ run_length < count
        /\ UNCHANGED <<frame_bitmap, free_frames, boot, i, count, ret, owned>>
    BY LimitAssumption DEF scan_used, Blocked, TypeOK, ScanExact, Frames
  <1>2. TypeOK'
    BY <1>1, LimitAssumption DEF TypeOK, Frames
  <1>3. AccountingExact' /\ BootProgress' /\ Asked'
    BY <1>1 DEF AccountingExact, BootProgress, Asked
  <1>4. NoFrameLost'
    BY <1>1, BootStable DEF NoFrameLost
  <1>5. ScanExact'
    <2>1. ASSUME NEW s \in Frames, s + count <= frame + 1
          PROVE  \E f \in Frames : s <= f /\ f < s + count /\ f \in frame_bitmap
      <3>1. CASE s + count <= frame
        BY <1>1, <2>1, <3>1 DEF ScanExact
      <3>2. CASE ~(s + count <= frame)
        <4>1. s <= frame /\ frame < s + count
          BY <1>1, <2>1, <3>2, LimitAssumption DEF Frames
        <4> QED BY <1>1, <4>1
      <3> QED BY <3>1, <3>2
    <2>2. frame' - run_length' - 1 = frame /\ frame' - run_length' .. frame' - 1 = {}
      BY <1>1, LimitAssumption DEF Frames
    <2>3. run_length' < count' /\ run_length' <= frame'
      BY <1>1, LimitAssumption DEF Frames
    <2> QED BY <1>1, <2>1, <2>2, <2>3 DEF ScanExact
  <1> QED BY <1>2, <1>3, <1>4, <1>5

\* In a scan the run under way starts run_length frames below frame.
LEMMA RunStartIs ==
    ASSUME IInv, pc = "scan", frame < FrameLimit
    PROVE  /\ RunStart = frame - run_length
           /\ RunStart \in Frames
  BY LimitAssumption DEF IInv, TypeOK, ScanExact, RunStart, Frames

\* A free frame that does not complete the run preserves the invariant.
LEMMA ScanFree ==
    ASSUME IInv, scan_free
    PROVE  IInv'
  <1> USE DEF IInv
  <1>1. /\ pc = "scan" /\ pc' = "scan" /\ frame \in Frames /\ frame \notin frame_bitmap
        /\ frame' = frame + 1 /\ run_length' = run_length + 1
        /\ run_start' = frame - run_length
        /\ count \in Nat /\ run_length \in Nat /\ run_length + 1 < count
        /\ run_length <= frame
        /\ UNCHANGED <<frame_bitmap, free_frames, boot, i, count, ret, owned>>
    BY LimitAssumption, RunStartIs DEF scan_free, TypeOK, ScanExact, Frames
  <1>2. TypeOK'
    BY <1>1, LimitAssumption DEF TypeOK, Frames
  <1>3. AccountingExact' /\ BootProgress' /\ Asked'
    BY <1>1 DEF AccountingExact, BootProgress, Asked
  <1>4. NoFrameLost'
    BY <1>1, BootStable DEF NoFrameLost
  <1>5. ScanExact'
    <2>1. ASSUME NEW s \in Frames, s + count <= frame + 1
          PROVE  \E f \in Frames : s <= f /\ f < s + count /\ f \in frame_bitmap
      <3>1. CASE s + count <= frame
        BY <1>1, <2>1, <3>1 DEF ScanExact
      <3>2. CASE ~(s + count <= frame)
        <4> DEFINE g == frame - run_length - 1
        <4>1. s <= g /\ g < s + count /\ frame # run_length
          BY <1>1, <2>1, <3>2, LimitAssumption DEF Frames
        <4>2. g \in frame_bitmap /\ g \in Frames
          BY <1>1, <4>1 DEF ScanExact, TypeOK
        <4> QED BY <4>1, <4>2
      <3> QED BY <3>1, <3>2
    <2>2. frame' - run_length' = frame - run_length
      BY <1>1, LimitAssumption DEF Frames
    <2>3. \A f \in frame - run_length .. frame : f \notin frame_bitmap
      BY <1>1, LimitAssumption DEF ScanExact, Frames
    <2>4. /\ frame' - 1 = frame /\ run_length' < count' /\ run_length' <= frame'
          /\ frame' = run_length' <=> frame = run_length
      BY <1>1, LimitAssumption DEF Frames
    <2> QED BY <1>1, <2>1, <2>2, <2>3, <2>4 DEF ScanExact
  <1> QED BY <1>2, <1>3, <1>4, <1>5

\* The run found consists of count clear bits.
LEMMA FoundRun ==
    ASSUME IInv, scan_found
    PROVE  LET taken == RunStart .. RunStart + count - 1
           IN  /\ taken \subseteq Frames
               /\ taken \cap frame_bitmap = {}
               /\ Cardinality(taken) = count
               /\ RunStart + count = frame + 1
  <1> USE DEF IInv
  <1>1. /\ pc = "scan" /\ frame \in Frames /\ frame \notin frame_bitmap
        /\ count \in Nat /\ run_length \in Nat /\ run_length + 1 = count
        /\ run_length <= frame
        /\ RunStart = frame - run_length /\ RunStart \in Frames
    BY LimitAssumption, RunStartIs DEF scan_found, TypeOK, ScanExact, Frames
  <1>2. RunStart + count = frame + 1 /\ RunStart + count - 1 = frame
    BY <1>1, LimitAssumption DEF Frames
  <1>3. \A f \in frame - run_length .. frame : f \notin frame_bitmap
    BY <1>1, LimitAssumption DEF ScanExact, Frames
  <1>4. RunStart .. RunStart + count - 1 \subseteq Frames
    BY <1>1, <1>2, LimitAssumption DEF Frames
  <1>5. Cardinality(RunStart .. RunStart + count - 1) = count
    <2>1. RunStart \in Int /\ frame \in Int /\ ~(RunStart > frame) /\ frame - RunStart + 1 = count
      BY <1>1, LimitAssumption DEF Frames
    <2> QED BY <1>2, <2>1, FS_Interval
  <1> QED BY <1>1, <1>2, <1>3, <1>4, <1>5

\* Taking the run pmm_alloc_frames has found preserves the invariant.
LEMMA ScanFound ==
    ASSUME IInv, scan_found
    PROVE  IInv'
  <1> USE DEF IInv
  <1> DEFINE taken == RunStart .. RunStart + count - 1
  <1>1. /\ pc = "scan" /\ pc' = "idle" /\ UNCHANGED <<boot, i, count, frame>>
        /\ frame_bitmap' = frame_bitmap \cup taken
        /\ owned' = owned \cup taken
        /\ free_frames' = free_frames - count
        /\ ret' = RunStart * PageSize
        /\ run_start' = RunStart /\ run_length' = run_length + 1
    BY DEF scan_found, Charged
  <1>2. /\ taken \subseteq Frames /\ taken \cap frame_bitmap = {}
        /\ Cardinality(taken) = count
    BY FoundRun
  <1>3. taken \ frame_bitmap = taken /\ frame_bitmap \subseteq Frames
    BY <1>2 DEF TypeOK
  <1>4. free_frames' = Cardinality(Frames \ frame_bitmap')
    BY <1>1, <1>2, <1>3, SetBits DEF AccountingExact
  <1>5. TypeOK'
    <2>1. frame_bitmap' \subseteq Frames /\ owned' \subseteq Frames
      BY <1>1, <1>2 DEF TypeOK
    <2>2. free_frames' \in 0 .. FrameLimit
      BY <2>1, <1>4, CounterInRange
    <2>3. RunStart \in Nat
      BY RunStartIs, LimitAssumption DEF scan_found, Frames
    <2>4. RunStart * PageSize \in Nat
      BY <2>3, PageMonotone
    <2> QED BY <1>1, <2>1, <2>2, <2>3, <2>4 DEF TypeOK
  <1>6. NoFrameLost'
    <2>1. Withheld' = Withheld
      BY <1>1, BootStable
    <2>2. frame_bitmap = Withheld \cup owned /\ Withheld \cap owned = {}
      BY <1>1 DEF NoFrameLost
    <2> QED BY <1>1, <1>2, <2>1, <2>2 DEF NoFrameLost
  <1>7. AccountingExact' /\ BootProgress' /\ Asked' /\ ScanExact'
    BY <1>1, <1>4 DEF AccountingExact, BootProgress, Asked, ScanExact
  <1> QED BY <1>5, <1>6, <1>7

\* A scan that ends without a run preserves the invariant.
LEMMA ScanFailed ==
    ASSUME IInv, scan_failed
    PROVE  IInv'
  <1> USE DEF IInv
  <1>1. /\ pc = "scan" /\ pc' = "idle" /\ ret' = 0
        /\ UNCHANGED <<frame_bitmap, free_frames, boot, i, scan, owned>>
    BY DEF scan_failed
  <1>2. TypeOK'
    BY <1>1 DEF TypeOK, scan
  <1>3. NoFrameLost'
    BY <1>1, BootStable DEF NoFrameLost
  <1>4. AccountingExact' /\ BootProgress' /\ Asked' /\ ScanExact'
    BY <1>1 DEF AccountingExact, BootProgress, Asked, ScanExact
  <1> QED BY <1>2, <1>3, <1>4

\* Freeing clears bits of frames the caller holds, each counted once.
LEMMA FreeCall ==
    ASSUME IInv, NEW f \in Frames, NEW n \in Counts, pmm_free_frames(f, n)
    PROVE  IInv'
  <1> USE DEF IInv
  <1> DEFINE S == Cleared(f, n)
  <1>1. /\ pc = "idle" /\ pc' = "idle" /\ UNCHANGED <<boot, i, scan, ret>>
        /\ frame_bitmap' = frame_bitmap \ S
        /\ free_frames' = free_frames + Cardinality(S)
        /\ owned' = owned \ S
    BY DEF pmm_free_frames
  <1>2. S \subseteq Frames /\ S \subseteq frame_bitmap
    BY LimitAssumption DEF Cleared, Frames
  <1>3. S \subseteq owned
    BY <1>2 DEF pmm_free_frames, Returnable, Cleared
  <1>4. S \cap frame_bitmap = S /\ frame_bitmap \subseteq Frames
    BY <1>2 DEF TypeOK
  <1>5. free_frames' = Cardinality(Frames \ frame_bitmap')
    BY <1>1, <1>2, <1>4, ClearBits DEF AccountingExact
  <1>6. TypeOK'
    <2>1. frame_bitmap' \subseteq Frames /\ owned' \subseteq Frames
      BY <1>1, <1>4 DEF TypeOK
    <2>2. free_frames' \in 0 .. FrameLimit
      BY <2>1, <1>5, CounterInRange
    <2> QED BY <1>1, <2>1, <2>2 DEF TypeOK, scan
  <1>7. NoFrameLost'
    <2>1. Withheld' = Withheld
      BY <1>1, BootStable
    <2>2. frame_bitmap = Withheld \cup owned /\ Withheld \cap owned = {}
      BY <1>1 DEF NoFrameLost
    <2> QED BY <1>1, <1>3, <2>1, <2>2 DEF NoFrameLost
  <1>8. AccountingExact' /\ BootProgress' /\ Asked' /\ ScanExact'
    BY <1>1, <1>5 DEF AccountingExact, BootProgress, Asked, ScanExact
  <1> QED BY <1>6, <1>7, <1>8

\* A step that changes nothing preserves the invariant.
LEMMA Stutter ==
    ASSUME IInv, UNCHANGED vars
    PROVE  IInv'
  <1> USE DEF IInv
  <1>1. UNCHANGED <<frame_bitmap, free_frames, boot, pc, i, count, frame, run_start,
                    run_length, ret, owned>>
    BY DEF vars, scan
  <1>2. TypeOK' /\ AccountingExact' /\ Asked' /\ ScanExact'
    BY <1>1 DEF TypeOK, AccountingExact, Asked, ScanExact
  <1>3. NoFrameLost'
    BY <1>1, BootStable DEF NoFrameLost
  <1>4. BootProgress'
    <2>1. UsableBelow(i)' = UsableBelow(i) /\ KeptBelow(i)' = KeptBelow(i)
      BY <1>1 DEF UsableBelow, KeptBelow, Reservations
    <2>2. Usable' = Usable
      BY <1>1, BootStable
    <2> QED BY <1>1, <2>1, <2>2 DEF BootProgress
  <1> QED BY <1>2, <1>3, <1>4

\* The invariant is inductive: every step of pmm.c keeps it.
LEMMA Inductive == IInv /\ [Next]_vars => IInv'
  <1> SUFFICES ASSUME IInv, [Next]_vars PROVE IInv'
    OBVIOUS
  <1>1. CASE InitStep
    BY <1>1, InitCall, InitFree, InitFreed, InitReserve DEF InitStep
  <1>2. CASE \E n \in Counts : pmm_alloc_frames(n)
    BY <1>2, AllocCall
  <1>3. CASE ScanStep
    BY <1>3, ScanUsed, ScanFree, ScanFound, ScanFailed DEF ScanStep
  <1>4. CASE \E f \in Frames, n \in Counts : pmm_free_frames(f, n)
    BY <1>4, FreeCall
  <1>5. CASE UNCHANGED vars
    BY <1>5, Stutter
  <1> QED BY <1>1, <1>2, <1>3, <1>4, <1>5 DEF Next
-----------------------------------------------------------------------------
(* The theorems.                                                           *)

\* The inductive invariant holds in every reachable state of pmm.c.
LEMMA AlwaysIInv == Spec => []IInv
  BY InitIInv, Inductive, PTL DEF Spec

\* pmm.c keeps its types: no counter leaves its range, no index the bitmap.
THEOREM TypeCorrect == Spec => []TypeOK
  <1>1. IInv => TypeOK
    BY DEF IInv
  <1> QED BY <1>1, AlwaysIInv, PTL

\* free_frames is always the number of clear bits.
THEOREM CounterCorrect == Spec => []AccountingExact
  <1>1. IInv => AccountingExact
    BY DEF IInv
  <1> QED BY <1>1, AlwaysIInv, PTL

\* The bits set are the withheld frames and the frames callers hold.
THEOREM BitmapCorrect == Spec => []NoFrameLost
  <1>1. IInv => NoFrameLost
    BY DEF IInv
  <1> QED BY <1>1, AlwaysIInv, PTL

\* The loop invariant of the first-fit scan.
THEOREM ScanCorrect == Spec => []ScanExact
  <1>1. IInv => ScanExact
    BY DEF IInv
  <1> QED BY <1>1, AlwaysIInv, PTL

\* What is withheld covers all memory that is not the pool's to give.
LEMMA UsableOnly == IInv => OnlyUsableMemory
  <1> SUFFICES ASSUME IInv, pc \in {"idle", "scan"},
                      NEW f \in (Frames \ frame_bitmap) \cup owned,
                      NEW b \in f * PageSize .. (f + 1) * PageSize - 1
               PROVE  /\ \E k \in DOMAIN boot.memory_map :
                           /\ boot.memory_map[k].type = 1
                           /\ Covers(boot.memory_map[k].base, boot.memory_map[k].length, b)
                      /\ \A k \in 1 .. 5 : ~Covers(Reservations[k][1], Reservations[k][2], b)
    BY DEF OnlyUsableMemory
  <1> USE DEF IInv
  <1>1. f \in Frames /\ f \notin Withheld
    BY DEF NoFrameLost, TypeOK
  <1>2. f \in Usable /\ f \notin Kept
    BY <1>1 DEF Withheld
  <1>3. f \in Nat /\ f * PageSize \in Nat
    BY <1>1, PageMonotone, LimitAssumption DEF Frames
  <1>4. (f + 1) * PageSize = f * PageSize + PageSize
    BY <1>3, PageAssumption
  <1>5. b \in Nat /\ f * PageSize <= b /\ b < f * PageSize + PageSize
    BY <1>3, <1>4, PageAssumption
  <1>6. boot \in BootInfos /\ boot.memory_map \in Seq(Entry)
    BY BootAssumption DEF TypeOK, BootInfo
  <1>7. PICK k \in DOMAIN boot.memory_map :
           /\ boot.memory_map[k].type = 1
           /\ f \in Available(boot.memory_map[k].base, boot.memory_map[k].length)
    BY <1>2 DEF Usable
  <1>8. boot.memory_map[k].base \in Nat /\ boot.memory_map[k].length \in Nat
    <2>1. boot.memory_map[k] \in Entry
      BY <1>6, <1>7
    <2> QED BY <2>1 DEF Entry
  <1>9. Covers(boot.memory_map[k].base, boot.memory_map[k].length, b)
    BY <1>5, <1>7, <1>8, AvailableIsInside
  <1>10. ASSUME NEW m \in 1 .. 5, Covers(Reservations[m][1], Reservations[m][2], b)
         PROVE  FALSE
    <2>1. Reservations[m][1] \in Nat /\ Reservations[m][2] \in Nat
      BY <1>6, <1>10, ReservationsType
    <2>2. f \in Reserved(Reservations[m][1], Reservations[m][2])
      BY <1>1, <1>5, <1>10, <2>1, TouchedIsReserved
    <2> QED BY <1>2, <2>2 DEF Kept
  <1> QED BY <1>7, <1>9, <1>10

\* No available or held frame contains a byte that is not usable memory.
THEOREM UsableCorrect == Spec => []OnlyUsableMemory
  BY UsableOnly, AlwaysIInv, PTL
-----------------------------------------------------------------------------
(* The bitmap, counter and scan implement the abstract frame pool.         *)

\* Before pmm_init the pool is the initial pool.
LEMMA InitRefines == Init => Pool!Init
  BY DEF Init, Pool!Init

\* Booting: the pool opens when the fifth range has been reserved.
LEMMA BootRefines ==
    ASSUME IInv, IInv', InitStep
    PROVE  Pool!Boot \/ UNCHANGED Pool!vars
  <1> USE DEF IInv
  <1>1. CASE pc' = "idle"
    <2>1. /\ pc = "reserve" /\ i = 5 /\ UNCHANGED <<ret, owned>>
      BY <1>1 DEF InitStep, pmm_init, pmm_init_free, pmm_init_freed, pmm_init_reserve
    <2>2. frame_bitmap' = (Withheld \cup owned)'
      BY <1>1 DEF NoFrameLost
    <2>3. 0 \in Kept'
      <3>1. Reservations'[1] = <<0, LowMemory>>
        BY DEF Reservations
      <3>2. 1 \in 1 .. 5
        OBVIOUS
      <3> QED BY <3>1, <3>2, FrameZeroReserved DEF Kept
    <2>4. 0 \in frame_bitmap'
      BY <2>2, <2>3 DEF Withheld
    <2>5. (Frames \ frame_bitmap') \in SUBSET (Frames \ {0})
      BY <2>4
    <2> QED BY <1>1, <2>1, <2>5 DEF Pool!Boot, Pool!Frames, Frames
  <1>2. CASE pc' # "idle"
    <2>1. /\ pc \notin {"idle", "scan"} /\ pc' \notin {"idle", "scan"}
          /\ UNCHANGED <<ret, owned>>
      BY <1>2 DEF InitStep, pmm_init, pmm_init_free, pmm_init_freed, pmm_init_reserve
    <2> QED BY <2>1 DEF Pool!vars
  <1> QED BY <1>1, <1>2

\* The call is refused at once, or only starts the scan.
LEMMA CallRefines ==
    ASSUME IInv, NEW n \in Counts, pmm_alloc_frames(n)
    PROVE  Pool!Refuse(n) \/ UNCHANGED Pool!vars
  <1>1. n \in Nat
    BY CountsAssumption
  <1>2. pc = "idle" /\ UNCHANGED <<frame_bitmap, owned>>
    BY DEF pmm_alloc_frames
  <1>3. CASE n = 0 \/ n > FrameLimit
    <2>1. pc' = "idle" /\ ret' = 0
      BY <1>2, <1>3 DEF pmm_alloc_frames
    <2>2. n = 0 \/ \A s \in Pool!Frames : ~Pool!Fits(s, n)
      BY <1>1, <1>3, LimitAssumption DEF Pool!Fits, Pool!Frames
    <2> QED BY <1>2, <2>1, <2>2 DEF Pool!Refuse
  <1>4. CASE ~(n = 0 \/ n > FrameLimit)
    <2>1. pc' = "scan" /\ ret' = ret
      BY <1>4 DEF pmm_alloc_frames
    <2> QED BY <1>2, <2>1 DEF Pool!vars
  <1> QED BY <1>3, <1>4

\* The scan takes effect when it returns.
LEMMA FoundRefines ==
    ASSUME IInv, scan_found
    PROVE  Pool!Alloc(count)
  <1> USE DEF IInv
  <1> DEFINE s == RunStart
             taken == s .. s + count - 1
             avail == Frames \ frame_bitmap
  <1>1. /\ pc = "scan" /\ pc' = "idle" /\ count \in 1 .. FrameLimit
        /\ frame_bitmap' = frame_bitmap \cup taken
        /\ owned' = owned \cup taken
        /\ ret' = s * PageSize
    BY DEF scan_found, Asked
  <1>2. /\ taken \subseteq Frames /\ taken \cap frame_bitmap = {}
        /\ s \in Frames /\ s + count = frame + 1 /\ frame < FrameLimit
    BY FoundRun, RunStartIs DEF scan_found
  <1>3. frame \in Nat /\ s \in Nat /\ count \in Nat
    BY <1>1, <1>2, LimitAssumption DEF TypeOK, Frames
  <1>4. Pool!Run(s, count) = taken /\ Pool!Frames = Frames
    BY <1>2, <1>3, LimitAssumption DEF Pool!Run, Pool!Frames, Frames
  <1>5. Pool!Fits(s, count)
    BY <1>1, <1>2, <1>3, <1>4, LimitAssumption DEF Pool!Fits
  <1>6. ASSUME NEW t \in Frames, t < s, Pool!Fits(t, count)
        PROVE  FALSE
    <2>1. t + count <= frame /\ t \in Nat
      BY <1>2, <1>3, <1>6, LimitAssumption DEF Frames
    <2>2. PICK g \in Frames : t <= g /\ g < t + count /\ g \in frame_bitmap
      BY <1>1, <2>1 DEF ScanExact
    <2>3. g \in Pool!Run(t, count)
      BY <1>4, <2>2 DEF Pool!Run
    <2> QED BY <1>1, <1>6, <2>2, <2>3 DEF Pool!Fits
  <1>7. Frames \ frame_bitmap' = avail \ taken
    BY <1>1
  <1>8. count > 0
    BY <1>1
  <1>9. /\ \A t \in Pool!Frames : t < s => ~Pool!Fits(t, count)
        /\ s \in Pool!Frames
    BY <1>2, <1>4, <1>6
  <1>10. /\ Frames \ frame_bitmap' = (Frames \ frame_bitmap) \ Pool!Run(s, count)
         /\ owned' = owned \cup Pool!Run(s, count)
    BY <1>1, <1>4, <1>7
  <1> HIDE DEF s
  <1> QED BY <1>1, <1>5, <1>8, <1>9, <1>10 DEF Pool!Alloc

\* A scan of pmm_alloc_frames that fails is a refusal of the pool.
LEMMA FailedRefines ==
    ASSUME IInv, scan_failed
    PROVE  Pool!Refuse(count)
  <1> USE DEF IInv
  <1>1. /\ pc = "scan" /\ pc' = "idle" /\ frame = FrameLimit /\ ret' = 0
        /\ UNCHANGED <<frame_bitmap, owned>>
    BY DEF scan_failed
  <1>2. ASSUME NEW s \in Pool!Frames, Pool!Fits(s, count)
        PROVE  FALSE
    <2>1. s \in Frames /\ s + count <= FrameLimit
      BY <1>2 DEF Pool!Fits, Pool!Frames, Frames
    <2>2. PICK g \in Frames : s <= g /\ g < s + count /\ g \in frame_bitmap
      BY <1>1, <2>1 DEF ScanExact
    <2>3. g \in Pool!Run(s, count)
      BY <2>2 DEF Pool!Run, Pool!Frames, Frames
    <2> QED BY <1>1, <1>2, <2>2, <2>3 DEF Pool!Fits
  <1> QED BY <1>1, <1>2 DEF Pool!Refuse

\* pmm_free_frames returns frames to the pool.
LEMMA FreeRefines ==
    ASSUME IInv, NEW f \in Frames, NEW n \in Counts, pmm_free_frames(f, n)
    PROVE  Pool!Free(f, n)
  <1> USE DEF IInv
  <1> DEFINE S == Cleared(f, n)
             back == {g \in Pool!Run(f, n) : \A h \in f .. g : h \in owned}
  <1>1. /\ pc = "idle" /\ pc' = "idle" /\ ret' = ret
        /\ frame_bitmap' = frame_bitmap \ S
        /\ owned' = owned \ S
    BY DEF pmm_free_frames
  <1>2. owned \subseteq frame_bitmap /\ n \in Nat /\ f \in Nat
    BY <1>1, CountsAssumption, LimitAssumption DEF NoFrameLost, Frames
  <1>3. ASSUME NEW g \in Frames, f <= g, g < f + n
        PROVE  (\A h \in f .. g : h \in frame_bitmap) <=> (\A h \in f .. g : h \in owned)
    <2>1. \A h \in f .. g : h \in Frames /\ f <= h /\ h < f + n
      BY <1>2, <1>3, LimitAssumption DEF Frames
    <2>2. \A h \in f .. g : h \in owned \/ h \notin frame_bitmap
      BY <2>1 DEF pmm_free_frames, Returnable
    <2> QED BY <1>2, <2>2
  <1>4. back = S
    BY <1>3 DEF Cleared, Pool!Run, Pool!Frames, Frames
  <1>5. Frames \ frame_bitmap' = (Frames \ frame_bitmap) \cup S
    BY <1>1 DEF Cleared
  <1> QED BY <1>1, <1>4, <1>5 DEF Pool!Free

\* Every step of pmm.c is a step of the pool or leaves it alone.
LEMMA NextRefines == IInv /\ IInv' /\ [Next]_vars => [Pool!Next]_(Pool!vars)
  <1> SUFFICES ASSUME IInv, IInv', [Next]_vars
               PROVE  Pool!Next \/ UNCHANGED Pool!vars
    OBVIOUS
  <1>1. CASE InitStep
    BY <1>1, BootRefines DEF Pool!Next
  <1>2. CASE \E n \in Counts : pmm_alloc_frames(n)
    BY <1>2, CallRefines DEF Pool!Next
  <1>3. CASE scan_used \/ scan_free
    BY <1>3 DEF scan_used, scan_free, Pool!vars
  <1>4. CASE scan_found
    BY <1>4, FoundRefines DEF Pool!Next, IInv, Asked, scan_found
  <1>5. CASE scan_failed
    BY <1>5, FailedRefines DEF Pool!Next, IInv, Asked, scan_failed
  <1>6. CASE \E f \in Frames, n \in Counts : pmm_free_frames(f, n)
    BY <1>6, FreeRefines DEF Pool!Next, Pool!Frames, Frames
  <1>7. CASE UNCHANGED vars
    BY <1>7 DEF vars, Pool!vars
  <1> QED BY <1>1, <1>2, <1>3, <1>4, <1>5, <1>6, <1>7 DEF Next, ScanStep

\* pmm.c implements the frame pool: first fit, refusal only when no run fits,
\* and no run handed out twice.
THEOREM Refinement == Spec => ImplementsPool
  <1>1. Init => Pool!Init
    BY InitRefines
  <1>2. IInv /\ IInv' /\ [Next]_vars => [Pool!Next]_(Pool!vars)
    BY NextRefines
  <1> QED BY <1>1, <1>2, AlwaysIInv, PTL DEF Spec, ImplementsPool, Pool!Spec
=============================================================================

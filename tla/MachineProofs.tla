--------------------------- MODULE MachineProofs ---------------------------
(***************************************************************************)
(* Proofs about the machine from power-on to a trap in the running kernel, *)
(* for every build that fits its memory, every memory map the firmware may *)
(* give and every depth of the interrupted stack.                          *)
(***************************************************************************)
EXTENDS Machine, WellFoundedInduction, TLAPS

-----------------------------------------------------------------------------
(* Addresses in parts: descriptors and gates.                              *)

\* Division by a number that is not known.
LEMMA Divided ==
    ASSUME NEW n \in Nat, NEW d \in Nat, d > 0
    PROVE  /\ n \div d \in Nat /\ n % d \in Nat /\ n % d < d
           /\ n = d * (n \div d) + (n % d)
  OBVIOUS

\* A quotient and a rest determine each other.
LEMMA DividedIs ==
    ASSUME NEW d \in Nat, d > 0, NEW p \in Nat, NEW q \in Nat,
           NEW r \in Nat, r < d, NEW s \in Nat, s < d, d * p + r = d * q + s
    PROVE  p = q /\ r = s
  <1>1. CASE p < q
    <2>1. PICK k \in Nat : q = p + 1 + k
      <3>1. q - p - 1 \in Nat /\ q = p + 1 + (q - p - 1)
        BY <1>1
      <3> QED BY <3>1
    <2>2. d * q = d * p + d + d * k /\ d * k \in Nat
      BY <2>1
    <2> QED BY <2>2
  <1>2. CASE q < p
    <2>1. PICK k \in Nat : p = q + 1 + k
      <3>1. p - q - 1 \in Nat /\ p = q + 1 + (p - q - 1)
        BY <1>2
      <3> QED BY <3>1
    <2>2. d * p = d * q + d + d * k /\ d * k \in Nat
      BY <2>1
    <2> QED BY <2>2
  <1>3. CASE p = q
    BY <1>3
  <1> QED BY <1>1, <1>2, <1>3

\* Dividing twice is dividing by the product.
LEMMA DividedTwice ==
    ASSUME NEW n \in Nat, NEW d \in Nat, d > 0, NEW e \in Nat, e > 0
    PROVE  n \div (d * e) = (n \div d) \div e
  <1>1. PICK q \in Nat, r \in Nat : n = d * q + r /\ r < d /\ q = n \div d
    BY Divided
  <1>2. PICK u \in Nat, v \in Nat : q = e * u + v /\ v < e /\ u = q \div e
    BY Divided
  <1>3. PICK m \in Nat : m = d * e /\ m > 0
    <2>1. d * e \in Nat /\ d * e > 0
      OBVIOUS
    <2> QED BY <2>1
  <1>4. PICK w \in Nat, x \in Nat : n = m * w + x /\ x < m /\ w = n \div m
    BY <1>3, Divided
  <1>5. PICK y \in Nat : y = d * v + r /\ y < m
    <2>1. d * v + r \in Nat
      OBVIOUS
    <2>2. PICK k \in Nat : e = v + 1 + k
      <3>1. e - v - 1 \in Nat /\ e = v + 1 + (e - v - 1)
        BY <1>2
      <3> QED BY <3>1
    <2>3. m = d * v + d + d * k /\ d * k \in Nat
      BY <1>3, <2>2
    <2>4. d * v \in Nat
      OBVIOUS
    <2> QED BY <1>1, <2>1, <2>3, <2>4
  <1>6. n = m * u + y
    <2>1. d * q = d * (e * u) + d * v
      BY <1>2
    <2>2. d * (e * u) = m * u
      BY <1>3
    <2> QED BY <1>1, <1>5, <2>1, <2>2
  <1>7. u = w
    BY <1>3, <1>4, <1>5, <1>6, DividedIs
  <1> QED BY <1>1, <1>2, <1>3, <1>4, <1>7

LEMMA WordIs ==
    /\ HalfWord \in Nat /\ HalfWord > 0
    /\ HalfByte \in Nat /\ HalfByte > 0 /\ HalfByte * HalfByte = HalfWord
  <1>1. PICK b \in 1 .. HalfWord : b * b = HalfWord
    BY BuildAssumption
  <1>2. HalfByte \in 1 .. HalfWord /\ HalfByte * HalfByte = HalfWord
    BY <1>1 DEF HalfByte
  <1>3. HalfWord \in Nat
    BY BuildAssumption
  <1> QED BY <1>1, <1>2, <1>3

\* The three parts of a number are the number again.
LEMMA PartsIs ==
    ASSUME NEW a \in Nat
    PROVE  /\ LowPart(a) \in Nat /\ MidPart(a) \in Nat /\ HighPart(a) \in Nat
           /\ a = LowPart(a) + HalfWord * MidPart(a) + HalfWord * HalfWord * HighPart(a)
           /\ HighPart(a) = (a \div HalfWord) \div HalfWord
           /\ a = HalfWord * (a \div HalfWord) + LowPart(a)
  <1>1. PICK w \in Nat : w = HalfWord /\ w > 0
    BY WordIs
  <1>2. PICK q \in Nat, r \in Nat : a = w * q + r /\ q = a \div w /\ r = a % w
    BY <1>1, Divided
  <1>3. PICK u \in Nat, v \in Nat : q = w * u + v /\ u = q \div w /\ v = q % w
    BY <1>1, Divided
  <1>4. a \div (w * w) = u
    <2>1. a \div (w * w) = (a \div w) \div w
      BY <1>1, DividedTwice
    <2> QED BY <1>2, <1>3, <2>1
  <1>5. LowPart(a) = r /\ MidPart(a) = v /\ HighPart(a) = u
    BY <1>1, <1>2, <1>3, <1>4, Zenon DEF LowPart, MidPart, HighPart
  <1>6. a = r + w * v + w * w * u
    <2>1. w * q = w * (w * u) + w * v
      BY <1>3
    <2>2. w * (w * u) = w * w * u
      OBVIOUS
    <2> QED BY <1>2, <2>1, <2>2
  <1>7. u = (a \div w) \div w /\ a = w * (a \div w) + r
    BY <1>2, <1>3
  <1> QED BY <1>1, <1>5, <1>6, <1>7

\* The CPU puts the address of a gate together as idt_set_gate took it apart.
LEMMA GateIs ==
    ASSUME NEW a \in Nat, NEW selector, NEW flags
    PROVE  /\ GateAddress(idt_set_gate(a, selector, flags)) = a
           /\ idt_set_gate(a, selector, flags).selector = selector
           /\ idt_set_gate(a, selector, flags).type_attr = flags
  <1>1. PICK g : g = idt_set_gate(a, selector, flags)
    OBVIOUS
  <1>2. /\ g.offset_low = LowPart(a) /\ g.offset_mid = MidPart(a)
        /\ g.offset_high = HighPart(a) /\ g.selector = selector /\ g.type_attr = flags
    BY <1>1 DEF idt_set_gate
  <1>3. GateAddress(g) = LowPart(a) + HalfWord * MidPart(a) + HalfWord * HalfWord * HighPart(a)
    BY <1>2, Zenon DEF GateAddress
  <1> QED BY <1>1, <1>2, <1>3, PartsIs

\* And the base of the TSS as gdt_init did.
LEMMA TssIs == TssBase(TssDescriptor) = TssAddress
  <1>1. PICK a \in Nat : a = TssAddress
    BY BuildAssumption
  <1>2. PICK w \in Nat, b \in Nat : w = HalfWord /\ b = HalfByte /\ w > 0 /\ b > 0 /\ w = b * b
    BY WordIs
  <1>3. PICK q \in Nat : q = a \div w
    BY <1>2, Divided
  <1>4. PICK u \in Nat, v \in Nat : q = b * u + v /\ u = q \div b /\ v = q % b
    BY <1>2, Divided
  <1>5. PICK x \in Nat, y \in Nat : u = b * x + y /\ x = u \div b /\ y = u % b
    BY <1>2, Divided
  <1>6. a \div (w * b) = u
    BY <1>2, <1>3, <1>4, DividedTwice
  <1>7. q \div w = x
    <2>1. q \div (b * b) = (q \div b) \div b
      BY <1>2, DividedTwice
    <2> QED BY <1>2, <1>4, <1>5, <2>1
  <1>8. PICK low \in Nat : low = LowPart(a) /\ a = w * q + low /\ HighPart(a) = x
    BY <1>2, <1>3, <1>7, PartsIs
  <1>9. /\ TssDescriptor.base_low = low /\ TssDescriptor.base_mid = v
        /\ TssDescriptor.base_high = y /\ TssDescriptor.base_upper = x
    BY <1>1, <1>2, <1>3, <1>4, <1>5, <1>6, <1>8 DEF TssDescriptor
  <1>10. TssBase(TssDescriptor) = low + w * (v + b * y) + w * w * x
    BY <1>2, <1>9, Zenon DEF TssBase
  <1>11. q = b * (b * x) + b * y + v
    <2>1. b * u = b * (b * x) + b * y
      BY <1>5
    <2> QED BY <1>4, <2>1
  <1>12. w * q = w * (v + b * y) + w * (w * x)
    <2>1. b * (b * x) = w * x
      BY <1>2
    <2>2. q = (v + b * y) + w * x
      BY <1>11, <2>1
    <2> QED BY <2>2
  <1>13. w * (w * x) = w * w * x
    OBVIOUS
  <1>14. PICK i \in Nat, j \in Nat : i = w * (v + b * y) /\ j = w * w * x
    <2>1. w * (v + b * y) \in Nat /\ w * w * x \in Nat
      OBVIOUS
    <2> QED BY <2>1
  <1>15. TssBase(TssDescriptor) = low + i + j /\ a = i + j + low
    BY <1>8, <1>10, <1>12, <1>13, <1>14
  <1> QED BY <1>1, <1>15

-----------------------------------------------------------------------------
(* The tables and the interrupt flag.                                      *)

RealPlaces == {"stage1", "stage2", "e820", "load_kernel", "next_chunk", "protect"}
TimerPlaces == {"pmm_init", "heap_init", "sti", "shell"}
KeyboardPlaces == TimerPlaces \cup {"system_init_timer"}
GatePlaces == KeyboardPlaces \cup {"keyboard_init"}
TablePlaces == GatePlaces \cup {"trap_init"}
LongPlaces == TablePlaces \cup {"entry", "console_init", "boot_init", "gdt_init"}

Gates == [v \in 0 .. 47 |-> idt_set_gate(isr_stub_table[v], 8, 142)]

\* What has been set up by the time the boot has come to its place.
TablesInv ==
    /\ interrupts => at \in RealPlaces \cup {"shell"}
    /\ at \in RealPlaces => mode = "real" /\ pic.base = 8 /\ idt = <<>>
    /\ at \in LongPlaces => mode = "long"
    /\ at \in TablePlaces => gdtr = kernel_gdt /\ tr = 24
    /\ at \in GatePlaces => idt = Gates /\ pic = [base |-> 32, open |-> {0, 1, 2}]
    /\ at \in KeyboardPlaces => "keyboard_init" \in ready
    /\ at \in TimerPlaces => "system_init_timer" \in ready

LEMMA TablesInit == BootInit => TablesInv
  BY DEF BootInit, TablesInv, RealPlaces, TimerPlaces, KeyboardPlaces, GatePlaces,
         TablePlaces, LongPlaces

LEMMA TablesNext == TablesInv /\ BootNext => TablesInv'
  <1> SUFFICES ASSUME TablesInv, BootNext PROVE TablesInv'
    OBVIOUS
  <1> USE DEF TablesInv, RealPlaces, TimerPlaces, KeyboardPlaces, GatePlaces, TablePlaces,
              LongPlaces, loader, firmware, e820, disk, tables, kernel
  <1>1. CASE stage1
    BY <1>1 DEF stage1, DiskRead, Stop
  <1>2. CASE stage2_start
    BY <1>2 DEF stage2_start
  <1>3. CASE e820_entry
    BY <1>3 DEF e820_entry
  <1>4. CASE e820_fails
    BY <1>4 DEF e820_fails
  <1>5. CASE e820_full
    BY <1>5 DEF e820_full
  <1>6. CASE load_kernel
    BY <1>6 DEF load_kernel
  <1>7. CASE next_chunk
    BY <1>7 DEF next_chunk, DiskRead, Stop
  <1>8. CASE fill_boot_info
    BY <1>8 DEF fill_boot_info
  <1>9. CASE protected_mode
    BY <1>9 DEF protected_mode, EnterWith
  <1>10. CASE setup_page_tables
    BY <1>10 DEF setup_page_tables
  <1>11. CASE long_mode_start
    BY <1>11 DEF long_mode_start, EnterWith
  <1>12. CASE kernel_entry
    BY <1>12 DEF kernel_entry
  <1>13. CASE console_init
    BY <1>13 DEF console_init, Stop
  <1>14. CASE boot_init
    BY <1>14 DEF boot_init, Calls
  <1>15. CASE gdt_init
    BY <1>15 DEF gdt_init
  <1>16. CASE trap_init
    BY <1>16 DEF trap_init, pic_remap, Gates
  <1>17. CASE keyboard_init
    BY <1>17 DEF keyboard_init, Calls
  <1>18. CASE system_init_timer
    BY <1>18 DEF system_init_timer, Calls
  <1>19. CASE pmm_init
    BY <1>19 DEF pmm_init
  <1>20. CASE heap_init
    BY <1>20 DEF heap_init, Calls
  <1>21. CASE cpu_sti
    BY <1>21 DEF cpu_sti
  <1>22. CASE shell_returns
    BY <1>22 DEF shell_returns
  <1> QED
    BY <1>1, <1>2, <1>3, <1>4, <1>5, <1>6, <1>7, <1>8, <1>9, <1>10, <1>11, <1>12, <1>13,
       <1>14, <1>15, <1>16, <1>17, <1>18, <1>19, <1>20, <1>21, <1>22
       DEF BootNext, Load, kernel_main

\* Every vector leads to its stub once the gates are set.
LEMMA GatesReach ==
    ASSUME TablesInv, at \in GatePlaces, NEW v \in 0 .. 47
    PROVE  Reaches(v)
  <1>1. gdtr = kernel_gdt /\ idt = Gates
    BY DEF TablesInv, TablePlaces
  <1>2. PICK a \in Nat : a = isr_stub_table[v]
    <2>1. StubBase \in Nat
      BY BuildAssumption
    <2>2. isr_stub_table[v] = StubBase + 16 * v
      BY DEF isr_stub_table
    <2> QED BY <2>1, <2>2
  <1>3. idt[v] = idt_set_gate(a, 8, 142) /\ v \in DOMAIN idt
    BY <1>1, <1>2 DEF Gates
  <1>4. GateAddress(idt[v]) = a /\ idt[v].selector = 8 /\ idt[v].type_attr = 142
    BY <1>2, <1>3, GateIs
  <1>5. Loads(gdtr, 8, 8, 154) /\ LongMode(gdtr, 8)
    BY <1>1 DEF kernel_gdt, Table, KernelSegment, Descriptor, Loads, LongMode
  <1> QED BY <1>2, <1>3, <1>4, <1>5 DEF Reaches

LEMMA TablesReady == TablesInv => InterruptsReady
  <1> SUFFICES ASSUME TablesInv, interrupts PROVE InterruptsReady
    BY DEF InterruptsReady
  <1>1. CASE at \in RealPlaces
    BY <1>1 DEF TablesInv, InterruptsReady
  <1>2. CASE at = "shell"
    <2>1. /\ at \in TimerPlaces /\ at \in KeyboardPlaces /\ at \in GatePlaces
          /\ at \in TablePlaces /\ at \in LongPlaces
      BY <1>2 DEF TimerPlaces, KeyboardPlaces, GatePlaces, TablePlaces, LongPlaces
    <2>2. \A v \in 0 .. 47 : Reaches(v)
      BY <2>1, GatesReach
    <2>3. \A irq \in pic.open : pic.base + irq \in 32 .. 47
      BY <2>1 DEF TablesInv
    <2>4. {"keyboard_init", "system_init_timer"} \subseteq ready
      BY <2>1 DEF TablesInv
    <2>5. TssBase(gdtr.entry[tr]) = TssAddress
      <3>1. gdtr.entry[tr] = TssDescriptor
        BY <2>1 DEF TablesInv, kernel_gdt, Table, KernelSegment
      <3> QED BY <3>1, TssIs
    <2>6. mode = "long"
      BY <2>1 DEF TablesInv
    <2> QED BY <2>2, <2>3, <2>4, <2>5, <2>6 DEF InterruptsReady
  <1> QED BY <1>1, <1>2 DEF TablesInv

-----------------------------------------------------------------------------
(* The memory map.                                                         *)

\* The address of the i-th entry.
SlotAt(i) == MEMORY_MAP_ADDR + (i - 1) * ENTRY_SIZE

\* The entries given so far are stored one behind the other.
Stores ==
    /\ given \in Seq(Nat)
    /\ memory_map_count = Len(given)
    /\ memory_map_count <= MEMORY_MAP_LIMIT
    /\ \A i \in 1 .. Len(given) : SlotAt(i) \in DOMAIN slots /\ slots[SlotAt(i)] = given[i]

\* While there are entries that were not given yet, ebx counts the given ones.
Storing ==
    /\ Stores
    /\ di = SlotAt(Len(given) + 1)
    /\ ebx \in Nat
    /\ Len(given) < length => ebx = Len(given)

Collected ==
    /\ Stores
    /\ cut \/ Len(given) = MEMORY_MAP_LIMIT \/ Len(given) >= length

MapInv ==
    /\ length \in Nat
    /\ at \in {"stage1", "stage2"} => given = <<>>
    /\ at = "e820" => Storing
    /\ at \in {"load_kernel", "next_chunk"} => Collected
    /\ at \in {"protect", "page_tables", "long", "entry", "console_init"} =>
         Collected /\ boot_info.entries = memory_map_count

LEMMA MapInit == BootInit => MapInv
  BY BuildAssumption DEF BootInit, MapInv

\* A number below the divisor is its own rest.
LEMMA SmallRest ==
    ASSUME NEW n \in Nat, NEW d \in Nat, n < d
    PROVE  n % d = n /\ n \div d = 0
  <1>1. /\ n \div d \in Nat /\ n % d \in Nat /\ n % d < d
        /\ n = d * (n \div d) + (n % d)
    BY Divided
  <1>2. d * 0 + n = d * (n \div d) + (n % d)
    BY <1>1
  <1>3. \A q, r \in Nat : r < d /\ d * 0 + n = d * q + r => 0 = q /\ n = r
    BY DividedIs
  <1> QED BY <1>1, <1>2, <1>3

LEMMA EntryStored ==
    ASSUME MapInv, e820_entry
    PROVE  MapInv'
  <1>1. /\ at = "e820" /\ Storing /\ length \in Nat /\ HasEntry
        /\ memory_map_count < MEMORY_MAP_LIMIT /\ MEMORY_MAP_LIMIT \in Nat
    <2>1. MEMORY_MAP_LIMIT \in Nat
      BY BuildAssumption
    <2> QED BY <2>1 DEF MapInv, e820_entry
  <1>2. PICK n \in Nat : n = Len(given) /\ n < MEMORY_MAP_LIMIT /\ memory_map_count = n
    BY <1>1 DEF Storing, Stores
  <1>3. PICK e \in Nat : e = Entry /\ e # 0 /\ (n < length => e = n + 1)
    <2>1. length > 0 /\ ebx \in Nat
      BY <1>1 DEF HasEntry, Storing
    <2>2. ebx % length \in Nat
      BY <1>1, <2>1, Divided
    <2>3. n < length => ebx = n /\ ebx % length = n
      BY <1>1, <1>2, <2>1, SmallRest DEF Storing
    <2> QED BY <2>2, <2>3 DEF Entry
  <1>4. given' \in Seq(Nat) /\ Len(given') = n + 1 /\ given'[n + 1] = e
        /\ \A i \in 1 .. n : given'[i] = given[i]
    BY <1>1, <1>2, <1>3 DEF Storing, Stores, e820_entry
  <1>5. /\ DOMAIN slots' = DOMAIN slots \cup {SlotAt(n + 1)}
        /\ slots'[SlotAt(n + 1)] = e
        /\ \A a \in DOMAIN slots : a # SlotAt(n + 1) => slots'[a] = slots[a]
    <2>1. di = SlotAt(n + 1)
      BY <1>1, <1>2 DEF Storing
    <2> QED BY <1>3, <2>1 DEF e820_entry
  <1>6. \A i \in 1 .. n : SlotAt(i) # SlotAt(n + 1)
    BY DEF SlotAt, ENTRY_SIZE, MEMORY_MAP_ADDR
  <1>7. Stores'
    <2>1. memory_map_count' = n + 1 /\ n + 1 <= MEMORY_MAP_LIMIT
      BY <1>1, <1>2 DEF e820_entry, Stored
    <2>2. \A i \in 1 .. n : SlotAt(i) \in DOMAIN slots /\ slots[SlotAt(i)] = given[i]
      BY <1>1, <1>2 DEF Storing, Stores
    <2>3. ASSUME NEW i \in 1 .. n + 1
          PROVE  SlotAt(i) \in DOMAIN slots' /\ slots'[SlotAt(i)] = given'[i]
      <3>1. CASE i = n + 1
        BY <1>4, <1>5, <3>1
      <3>2. CASE i \in 1 .. n
        BY <1>4, <1>5, <1>6, <2>2, <3>2
      <3> QED BY <3>1, <3>2
    <2>4. \A i \in 1 .. n + 1 : SlotAt(i)' = SlotAt(i)
      BY DEF SlotAt
    <2> QED BY <1>4, <2>1, <2>3, <2>4 DEF Stores
  <1>8. CASE Continuation = 0
    <2>1. e = length
      BY <1>3, <1>8 DEF Continuation
    <2>2. Len(given') >= length /\ length' = length
      BY <1>1, <1>2, <1>3, <1>4, <2>1 DEF e820_entry, firmware
    <2>3. Collected'
      BY <1>7, <2>2 DEF Collected
    <2>4. at' = "load_kernel"
      BY <1>8 DEF e820_entry
    <2> QED BY <1>1, <2>2, <2>3, <2>4 DEF MapInv
  <1>9. CASE Continuation # 0
    <2>1. ebx' = e /\ length' = length
      BY <1>3, <1>9 DEF Continuation, e820_entry, firmware
    <2>2. di' = SlotAt(n + 2)
      <3>1. di = SlotAt(n + 1) /\ di' = di + ENTRY_SIZE
        BY <1>1, <1>2 DEF Storing, e820_entry, Stored
      <3> QED BY <3>1 DEF SlotAt, ENTRY_SIZE, MEMORY_MAP_ADDR
    <2>3. Len(given') + 1 = n + 2
      BY <1>4
    <2>4. (di = SlotAt(Len(given) + 1))'
      BY <2>2, <2>3 DEF SlotAt
    <2>5. Storing'
      BY <1>1, <1>3, <1>4, <1>7, <2>1, <2>4 DEF Storing
    <2>6. at' = "e820"
      BY <1>1, <1>9 DEF e820_entry
    <2> QED BY <1>1, <2>1, <2>5, <2>6 DEF MapInv
  <1> QED BY <1>8, <1>9

LEMMA MapNext == MapInv /\ BootNext => MapInv'
  <1> SUFFICES ASSUME MapInv, BootNext PROVE MapInv'
    OBVIOUS
  <1>kept. ASSUME UNCHANGED <<e820, length>>
        PROVE  Stores' = Stores /\ Collected' = Collected
    <2>1. /\ given' = given /\ memory_map_count' = memory_map_count /\ slots' = slots
          /\ cut' = cut /\ length' = length
      BY <1>kept DEF e820
    <2>2. Stores' = Stores
      BY <2>1, Zenon DEF Stores, SlotAt
    <2> QED BY <2>1, <2>2, Zenon DEF Collected
  <1>1. CASE stage1
    BY <1>1 DEF stage1, DiskRead, Stop, MapInv, firmware, e820
  <1>2. CASE stage2_start
    <2>1. /\ given' = <<>> /\ memory_map_count' = 0 /\ di' = MEMORY_MAP_ADDR /\ ebx' = 0
          /\ at' = "e820" /\ length' = length /\ length \in Nat /\ MEMORY_MAP_LIMIT \in Nat
      BY <1>2, BuildAssumption DEF MapInv, stage2_start, firmware
    <2>2. Stores'
      BY <2>1 DEF Stores
    <2>3. Storing'
      BY <2>1, <2>2 DEF Storing, SlotAt, MEMORY_MAP_ADDR, ENTRY_SIZE
    <2> QED BY <2>1, <2>3 DEF MapInv
  <1>3. CASE e820_entry
    BY <1>3, EntryStored
  <1>4. CASE e820_fails
    <2>1. /\ Storing /\ length \in Nat /\ length' = length /\ at' = "load_kernel"
          /\ cut' = HasEntry
      BY <1>4 DEF MapInv, e820_fails, firmware
    <2>2. Stores' /\ given' = given
      BY <1>4, <2>1 DEF Storing, Stores, SlotAt, e820_fails
    <2>3. cut' \/ Len(given') >= length'
      <3>1. ASSUME ~HasEntry PROVE Len(given) >= length
        BY <2>1, <3>1 DEF HasEntry, Storing, Stores
      <3> QED BY <2>1, <2>2, <3>1
    <2>4. Collected'
      BY <2>2, <2>3 DEF Collected
    <2> QED BY <2>1, <2>4 DEF MapInv
  <1>5. CASE e820_full
    <2>1. /\ Storing /\ length \in Nat /\ at' = "load_kernel" /\ UNCHANGED <<e820, length>>
          /\ memory_map_count >= MEMORY_MAP_LIMIT /\ MEMORY_MAP_LIMIT \in Nat
      BY <1>5, BuildAssumption DEF MapInv, e820_full, loader, firmware
    <2>2. Collected
      BY <2>1 DEF Collected, Storing, Stores
    <2> QED BY <1>kept, <2>1, <2>2 DEF MapInv
  <1>6. CASE load_kernel
    BY <1>6, <1>kept DEF load_kernel, MapInv, firmware
  <1>7. CASE next_chunk
    BY <1>7, <1>kept DEF next_chunk, DiskRead, Stop, MapInv, firmware
  <1>8. CASE fill_boot_info
    BY <1>8, <1>kept DEF fill_boot_info, MapInv, firmware, e820
  <1>9. CASE protected_mode
    BY <1>9, <1>kept DEF protected_mode, EnterWith, MapInv, loader, firmware, e820
  <1>10. CASE setup_page_tables
    BY <1>10, <1>kept DEF setup_page_tables, MapInv, loader, firmware, e820
  <1>11. CASE long_mode_start
    BY <1>11, <1>kept DEF long_mode_start, EnterWith, MapInv, loader, firmware, e820
  <1>12. CASE kernel_entry
    BY <1>12, <1>kept DEF kernel_entry, MapInv, loader, firmware, e820
  <1>13. CASE console_init
    BY <1>13 DEF console_init, Stop, MapInv, loader, firmware
  <1>14. CASE boot_init \/ keyboard_init \/ system_init_timer \/ heap_init
    BY <1>14 DEF boot_init, keyboard_init, system_init_timer, heap_init, Calls, MapInv,
                 loader, firmware
  <1>15. CASE gdt_init \/ trap_init \/ pmm_init \/ cpu_sti \/ shell_returns
    BY <1>15 DEF gdt_init, trap_init, pmm_init, cpu_sti, shell_returns, MapInv, loader,
                 firmware
  <1> QED
    BY <1>1, <1>2, <1>3, <1>4, <1>5, <1>6, <1>7, <1>8, <1>9, <1>10, <1>11, <1>12, <1>13,
       <1>14, <1>15 DEF BootNext, Load, kernel_main

LEMMA MapIsFaithful == MapInv => MapFaithful
  <1> SUFFICES ASSUME MapInv, KernelStarts PROVE MapFaithful
    BY DEF MapFaithful
  <1>1. Collected /\ boot_info.entries = Len(given) /\ Stores
    BY DEF MapInv, KernelStarts, Collected, Stores
  <1>2. \A i \in 1 .. Len(given) : SlotAt(i) \in DOMAIN slots /\ slots[SlotAt(i)] = given[i]
    BY <1>1 DEF Stores
  <1>3. Len(given) <= MEMORY_MAP_LIMIT
    BY <1>1 DEF Stores
  <1> QED BY <1>1, <1>2, <1>3, Zenon DEF MapFaithful, SlotAt, Collected

-----------------------------------------------------------------------------
(* Memory: where the writes of the boot lie.                               *)

\* The image, rounded up to sectors, ends before bss and bss below the stack.
LEMMA ImageFits ==
    ASSUME NEW bytes \in KernelSizes
    PROVE  /\ bytes \in Nat
           /\ KERNEL_SECTORS(bytes) \in Nat
           /\ Bss(bytes).lo \in Nat /\ Bss(bytes).hi \in Nat
           /\ KERNEL_ADDR + SECTOR_SIZE * KERNEL_SECTORS(bytes) <= Bss(bytes).lo
           /\ Bss(bytes).lo <= Bss(bytes).hi
           /\ StackBytes \in Nat /\ Bss(bytes).hi <= STACK_TOP - StackBytes
           /\ KERNEL_SECTORS(bytes) <= 1024
  <1>1. bytes \in Nat /\ BssBytes \in Nat /\ StackBytes \in Nat
    BY BuildAssumption
  <1>2. PICK k \in Nat : k = (bytes + 511) \div 512 /\ 512 * k <= bytes + 511
    <2>1. PICK n \in Nat : n = bytes + 511
      BY <1>1
    <2>2. n \div 512 \in Nat /\ 512 * (n \div 512) <= n
      OBVIOUS
    <2> QED BY <2>1, <2>2
  <1>3. PICK m \in Nat : m = (bytes + 69631) \div 4096 /\ bytes + 65536 <= 4096 * m
    <2>1. PICK n \in Nat : n = bytes + 69631
      BY <1>1
    <2>2. n \div 4096 \in Nat /\ n < 4096 * (n \div 4096) + 4096
      OBVIOUS
    <2> QED BY <1>1, <2>1, <2>2
  <1>4. KERNEL_SECTORS(bytes) = k
    <2>1. RoundUp(bytes, SECTOR_SIZE) = k * 512
      <3>1. bytes + 512 - 1 = bytes + 511
        BY <1>1
      <3> QED BY <1>2, <3>1 DEF RoundUp, SECTOR_SIZE
    <2>2. (k * 512) \div 512 = k
      OBVIOUS
    <2> QED BY <2>1, <2>2 DEF KERNEL_SECTORS, SECTOR_SIZE
  <1>5. Bss(bytes).lo = 4096 * m /\ Bss(bytes).hi = 4096 * m + BssBytes
    <2>1. RoundUp(KERNEL_ADDR + bytes, 4096) = 4096 * m
      <3>1. (65536 + bytes) + 4096 - 1 = bytes + 69631
        BY <1>1
      <3>2. m * 4096 = 4096 * m
        OBVIOUS
      <3> QED BY <1>3, <3>1, <3>2 DEF RoundUp, KERNEL_ADDR
    <2> QED BY <2>1 DEF Bss, Region
  <1>6. 65536 + 512 * k <= 4096 * m
    BY <1>1, <1>2, <1>3
  <1>7. Bss(bytes).hi <= STACK_TOP - StackBytes
    BY FitsAssumption
  <1>8. k <= 1024
    BY <1>1, <1>5, <1>6, <1>7 DEF STACK_TOP
  <1> QED BY <1>1, <1>4, <1>5, <1>6, <1>7, <1>8 DEF KERNEL_ADDR, SECTOR_SIZE

\* A range that was written.
Written == [lo : Nat, hi : Nat, lba : Int]

\* The sectors of the image that have been read.
SectorsRead == KERNEL_SECTORS(size) - kernel_sectors_left

\* The places of the boot, from behind each of its writes on.
ScreenPlaces == GatePlaces \cup {"boot_init", "gdt_init", "trap_init", "exited"}
BssPlaces == ScreenPlaces \cup {"console_init"}
PagePlaces == BssPlaces \cup {"long", "entry"}
InfoPlaces == PagePlaces \cup {"protect", "page_tables"}
ImagePlaces == InfoPlaces \cup {"next_chunk"}
MapPlaces == ImagePlaces \cup {"load_kernel"}
Stage2Places == MapPlaces \cup {"stage2", "e820"}

\* Where a range written so far may lie.
Laid(w) ==
    \/ at \in Stage2Places /\ 32768 <= w.lo /\ w.hi <= 65536
    \/ at = "e820" /\ 21504 <= w.lo /\ w.hi <= di
    \/ at \in MapPlaces /\ 21504 <= w.lo /\ w.hi <= 23040
    \/ at \in ImagePlaces /\ 65536 <= w.lo /\ w.hi <= 65536 + 512 * SectorsRead
    \/ at \in InfoPlaces /\ 20480 <= w.lo /\ w.hi <= 20536
    \/ at \in PagePlaces /\ 4096 <= w.lo /\ w.hi <= 16384
    \/ at \in BssPlaces /\ Bss(size).lo <= w.lo /\ w.hi <= Bss(size).hi
    \/ at \in ScreenPlaces /\ 753664 <= w.lo /\ w.hi <= 757664

\* The loop that reads the image: how far segment and sector number are.
ReadInv ==
    /\ kernel_sectors_left \in Nat
    /\ kernel_sectors_left <= KERNEL_SECTORS(size)
    /\ kernel_segment = 4096 + 32 * SectorsRead
    /\ lba_low \in Nat /\ lba_low < LbaWord /\ lba_high \in Nat
    /\ lba_high * LbaWord + lba_low = KERNEL_START_LBA + SectorsRead

LayInv ==
    /\ size \in KernelSizes
    /\ writes \in Seq(Written)
    /\ at = "stage1" => writes = <<>>
    /\ at \in Stage2Places => \A i \in DOMAIN writes : Laid(writes[i])
    /\ at = "next_chunk" => ReadInv
    /\ at \in InfoPlaces => kernel_sectors_left = 0

\* A range read from the disk fits the segment it is read to.
Narrow(w) == w.lba >= 0 => w.hi - w.lo <= 65536

\* A step that adds r to the ranges written and harms none of them.
Adds(r) ==
    /\ r \in Written
    /\ writes' = Append(writes, r)
    /\ \A w \in Written : Laid(w) => Disjoint(r, w)
    /\ \A u \in InUse : Disjoint(r, u)
    /\ Narrow(r)

\* What writes leaves to show, for a step that writes and for one that does not.
LEMMA Added ==
    ASSUME LayInv, size' = size, NEW r \in Written, writes' = Append(writes, r),
           at = "stage1" \/ at \in Stage2Places, at' # "stage1",
           \A w \in Written : Laid(w) => Laid(w)', Laid(r)'
    PROVE  /\ writes' \in Seq(Written)
           /\ (\A i \in DOMAIN writes : Laid(writes[i]))'
  <1>1. writes \in Seq(Written)
    BY DEF LayInv
  <1>2. /\ writes' \in Seq(Written) /\ DOMAIN writes' = 1 .. Len(writes) + 1
        /\ writes'[Len(writes) + 1] = r
        /\ \A i \in 1 .. Len(writes) : writes'[i] = writes[i] /\ writes[i] \in Written
    BY <1>1
  <1>3. \A i \in 1 .. Len(writes) : Laid(writes[i])
    BY <1>1 DEF LayInv
  <1>4. ASSUME NEW i \in 1 .. Len(writes) + 1 PROVE Laid(writes[i])'
    <2>1. PICK w : w = writes'[i]
      OBVIOUS
    <2>2. Laid(w)'
      BY <1>1, <1>2, <1>3, <2>1
    <2> QED BY <2>1, <2>2 DEF Laid
  <1> QED BY <1>2, <1>4

\* The places, as far as the steps need them.
LEMMA PlacesAre ==
    /\ "stage1" \notin Stage2Places /\ "halted" \notin Stage2Places
    /\ "reset" \notin Stage2Places
    /\ InfoPlaces \subseteq Stage2Places
    /\ "stage2" \notin InfoPlaces /\ "e820" \notin InfoPlaces /\ "load_kernel" \notin InfoPlaces
    /\ "next_chunk" \notin InfoPlaces
  BY DEF Stage2Places, MapPlaces, ImagePlaces, InfoPlaces, PagePlaces, BssPlaces,
         ScreenPlaces, GatePlaces, KeyboardPlaces, TimerPlaces

\* A record of a range.
LEMMA RangeIs ==
    ASSUME NEW region, NEW lba \in Int, region.lo \in Nat, region.hi \in Nat,
           WriteSectors(region, lba)
    PROVE  \E r \in Written : /\ r.lo = region.lo /\ r.hi = region.hi /\ r.lba = lba
                              /\ writes' = Append(writes, r)
  <1>1. PICK r : r = [lo |-> region.lo, hi |-> region.hi, lba |-> lba]
    OBVIOUS
  <1>2. r \in Written /\ r.lo = region.lo /\ r.hi = region.hi /\ r.lba = lba
    BY <1>1 DEF Written
  <1>3. writes' = Append(writes, r)
    BY <1>1 DEF WriteSectors
  <1> QED BY <1>2, <1>3

\* What a boot step does to the writes.
Lays == LayInv' /\ (UNCHANGED writes \/ \E r : Adds(r))

LEMMA LayStage1 == LayInv /\ TablesInv /\ MapInv /\ stage1 => Lays
  <1> SUFFICES ASSUME LayInv, TablesInv, MapInv, stage1 PROVE Lays
    OBVIOUS
  <1>1. /\ size \in KernelSizes /\ size' = size /\ at = "stage1" /\ writes = <<>>
        /\ mode = "real"
    BY DEF LayInv, stage1, firmware, TablesInv, RealPlaces
  <1>2. CASE at' = "halted" /\ UNCHANGED writes
    BY <1>1, <1>2, PlacesAre DEF Lays, LayInv
  <1>3. CASE at' = "stage2"
             /\ WriteSectors(Region((STAGE2_ADDR \div 16) * 16,
                                     STAGE2_SECTORS * SECTOR_SIZE), 1)
    <2>1. PICK n \in Nat : n = STAGE2_SECTORS * 512 /\ n <= 32768
      BY BuildAssumption, FitsAssumption DEF SECTOR_SIZE, KERNEL_ADDR, STAGE2_ADDR
    <2>2. PICK r \in Written : /\ r.lo = 32768 /\ r.hi = 32768 + n /\ r.lba = 1
                               /\ writes' = Append(writes, r)
      <3>1. PICK region : region = Region((STAGE2_ADDR \div 16) * 16,
                                          STAGE2_SECTORS * SECTOR_SIZE)
        OBVIOUS
      <3>2. region.lo = 32768 /\ region.hi = 32768 + n
        BY <2>1, <3>1 DEF Region, STAGE2_ADDR, SECTOR_SIZE
      <3> QED BY <1>3, <3>1, <3>2, RangeIs
    <2>3. \A w \in Written : Laid(w) => Laid(w)' /\ Disjoint(r, w)
      BY <1>1 DEF Laid, Stage2Places, MapPlaces, ImagePlaces, InfoPlaces, PagePlaces,
                  BssPlaces, ScreenPlaces, GatePlaces, KeyboardPlaces, TimerPlaces
    <2>4. Laid(r)'
      BY <1>3, <2>1, <2>2 DEF Laid, Stage2Places
    <2>5. \A u \in InUse : Disjoint(r, u)
      BY <1>1, <2>1, <2>2 DEF InUse, Disjoint, Region
    <2>6. writes' \in Seq(Written) /\ (\A i \in DOMAIN writes : Laid(writes[i]))'
      BY <1>1, <1>3, <2>2, <2>3, <2>4, Added
    <2>7. LayInv'
      BY <1>1, <1>3, <2>6, PlacesAre DEF LayInv
    <2>8. Narrow(r)
      BY <2>1, <2>2 DEF Narrow
    <2> QED BY <2>2, <2>3, <2>5, <2>7, <2>8 DEF Lays, Adds
  <1> QED BY <1>2, <1>3 DEF stage1, DiskRead, Stop

\* The slot that an e820 call fills lies behind the earlier ones and below
\* the end of the map.
LEMMA SlotIs ==
    ASSUME MapInv, at = "e820", memory_map_count < MEMORY_MAP_LIMIT
    PROVE  di \in Nat /\ 21504 <= di /\ di + 24 <= 23040
  <1>1. /\ memory_map_count \in Nat /\ di = 21504 + 24 * memory_map_count
        /\ MEMORY_MAP_LIMIT \in Nat /\ MEMORY_MAP_LIMIT <= 64
    <2>1. Storing
      BY DEF MapInv
    <2>2. MEMORY_MAP_LIMIT \in Nat /\ MEMORY_MAP_LIMIT <= 64
      BY BuildAssumption
    <2>3. PICK n \in Nat : n = Len(given) /\ memory_map_count = n /\ di = SlotAt(n + 1)
      BY <2>1 DEF Storing, Stores
    <2> QED BY <2>2, <2>3 DEF SlotAt, MEMORY_MAP_ADDR, ENTRY_SIZE
  <1> QED BY <1>1

LEMMA LaySlot == LayInv /\ TablesInv /\ MapInv /\ (e820_entry \/ e820_fails) => Lays
  <1> SUFFICES ASSUME LayInv, TablesInv, MapInv, e820_entry \/ e820_fails PROVE Lays
    OBVIOUS
  <1>1. /\ size \in KernelSizes /\ size' = size /\ at = "e820" /\ Write(Slot)
        /\ memory_map_count < MEMORY_MAP_LIMIT /\ mode = "real"
        /\ \/ at' = "e820" /\ di' = di + 24
           \/ at' = "load_kernel"
    BY DEF LayInv, TablesInv, RealPlaces, e820_entry, e820_fails, firmware, Stored,
           ENTRY_SIZE
  <1>2. di \in Nat /\ 21504 <= di /\ di + 24 <= 23040
    BY <1>1, SlotIs
  <1>3. PICK r \in Written : r.lo = di /\ r.hi = di + 24 /\ r.lba = -1
                             /\ writes' = Append(writes, r)
    <2>1. PICK region : region = Slot
      OBVIOUS
    <2>2. region.lo = di /\ region.hi = di + 24
      BY <2>1 DEF Slot, Region, ENTRY_SIZE
    <2>3. WriteSectors(region, -1)
      BY <1>1, <2>1 DEF Write
    <2>4. region.lo \in Nat /\ region.hi \in Nat /\ -1 \in Int
      BY <1>2, <2>2
    <2> QED BY <2>2, <2>3, <2>4, RangeIs
  <1> USE DEF Written, Laid, Disjoint, Stage2Places, MapPlaces, ImagePlaces, InfoPlaces,
              PagePlaces, BssPlaces, ScreenPlaces, GatePlaces, KeyboardPlaces, TimerPlaces
  <1>4. \A w \in Written : Laid(w) => Laid(w)'
    BY <1>1, <1>2
  <1>5. \A w \in Written : Laid(w) => Disjoint(r, w)
    BY <1>1, <1>2, <1>3
  <1>6. Laid(r)'
    BY <1>1, <1>2, <1>3
  <1>7. \A u \in InUse : Disjoint(r, u)
    BY <1>1, <1>2, <1>3 DEF InUse, Region
  <1> HIDE DEF Written, Laid, Disjoint, Stage2Places, MapPlaces, ImagePlaces, InfoPlaces,
              PagePlaces, BssPlaces, ScreenPlaces, GatePlaces, KeyboardPlaces, TimerPlaces
  <1>8. writes' \in Seq(Written) /\ (\A i \in DOMAIN writes : Laid(writes[i]))'
    <2>1. at \in Stage2Places /\ at' # "stage1"
      BY <1>1 DEF Stage2Places
    <2> QED BY <1>1, <1>3, <1>4, <1>6, <2>1, Added
  <1>9. LayInv'
    BY <1>1, <1>8, PlacesAre DEF LayInv
  <1>10. Narrow(r)
    BY <1>3 DEF Narrow
  <1> QED BY <1>3, <1>5, <1>7, <1>9, <1>10 DEF Lays, Adds

\* One round of the loop: the range it writes, the sectors it reads and the
\* loop's invariant behind it; segment and sector number do not overflow.
LEMMA ChunkRead ==
    ASSUME LayInv, next_chunk, ~(at' = "halted")
    PROVE  \E r \in Written, done \in Nat, c \in Nat :
             /\ done = SectorsRead /\ SectorsRead' = done + c /\ c > 0 /\ c <= 127
             /\ r.lo = 65536 + 512 * done /\ r.hi = 65536 + 512 * (done + c)
             /\ r.lba = KERNEL_START_LBA + done
             /\ writes' = Append(writes, r)
             /\ at = "next_chunk" /\ at' = "next_chunk"
             /\ UNCHANGED unreadable
             /\ ReadInv'
  <1>1. /\ at = "next_chunk" /\ kernel_sectors_left > 0 /\ size' = size /\ ReadInv
        /\ size \in KernelSizes
    BY DEF LayInv, next_chunk, firmware
  <1>2. /\ WriteSectors(Region(kernel_segment * 16, Chunk * SECTOR_SIZE),
                        lba_high * LbaWord + lba_low)
        /\ kernel_sectors_left' = kernel_sectors_left - Chunk
        /\ kernel_segment' = (kernel_segment + Chunk * 32) % 65536
        /\ lba_low' = (lba_low + Chunk) % LbaWord
        /\ Carry
        /\ UNCHANGED <<at, unreadable>>
    BY DEF next_chunk, DiskRead, Stop
  <1>3. PICK k \in Nat, left \in Nat, done \in Nat :
          /\ k = KERNEL_SECTORS(size) /\ k <= 1024
          /\ left = kernel_sectors_left /\ left > 0 /\ done = SectorsRead /\ k = done + left
    <2>1. KERNEL_SECTORS(size) \in Nat /\ KERNEL_SECTORS(size) <= 1024
      BY <1>1, ImageFits
    <2> QED BY <1>1, <2>1 DEF ReadInv, SectorsRead
  <1>4. PICK c \in Nat : c = Chunk /\ c > 0 /\ c <= 127 /\ c <= left
    BY <1>3 DEF Chunk
  <1>5. PICK w \in Nat, low \in Nat, high \in Nat, start \in Nat :
          /\ w = LbaWord /\ low = lba_low /\ high = lba_high /\ start = KERNEL_START_LBA
          /\ w > 0 /\ low < w /\ high * w + low = start + done
    <2>1. LbaWord \in Nat /\ KERNEL_START_LBA \in Nat
      BY BuildAssumption DEF KERNEL_START_LBA
    <2> QED BY <1>1, <1>3, <2>1 DEF ReadInv
  <1>6. SectorsRead' = done + c
    <2>1. KERNEL_SECTORS(size)' = k
      BY <1>1, <1>3 DEF KERNEL_SECTORS, RoundUp
    <2>2. kernel_sectors_left' = left - c
      BY <1>2, <1>3, <1>4
    <2> QED BY <1>3, <1>4, <2>1, <2>2 DEF SectorsRead
  <1>7. PICK r \in Written :
          /\ r.lo = 65536 + 512 * done /\ r.hi = 65536 + 512 * (done + c)
          /\ r.lba = start + done /\ writes' = Append(writes, r)
    <2>1. PICK region : region = Region(kernel_segment * 16, Chunk * SECTOR_SIZE)
      OBVIOUS
    <2>2. kernel_segment = 4096 + 32 * done
      BY <1>1, <1>3 DEF ReadInv
    <2>3. region.lo = 65536 + 512 * done /\ region.hi = 65536 + 512 * (done + c)
      BY <1>4, <2>1, <2>2 DEF Region, SECTOR_SIZE
    <2>4. WriteSectors(region, start + done)
      BY <1>2, <1>5, <2>1
    <2>5. region.lo \in Nat /\ region.hi \in Nat /\ start + done \in Int
      BY <2>3
    <2> QED BY <2>3, <2>4, <2>5, RangeIs
  <1>8. ReadInv'
    <2>1. kernel_sectors_left' \in Nat /\ kernel_sectors_left' <= KERNEL_SECTORS(size)'
      BY <1>1, <1>2, <1>3, <1>4 DEF KERNEL_SECTORS, RoundUp
    <2>2. kernel_segment' = 4096 + 32 * (done + c)
      <3>1. kernel_segment = 4096 + 32 * done
        BY <1>1, <1>3 DEF ReadInv
      <3>2. kernel_segment' = (4096 + 32 * done + c * 32) % 65536
        BY <1>2, <1>4, <3>1
      <3>3. PICK n \in Nat : n = 4096 + 32 * (done + c) /\ n < 65536
        BY <1>3, <1>4
      <3>4. n % 65536 = n /\ 4096 + 32 * done + c * 32 = n
        BY <3>3
      <3> QED BY <3>2, <3>3, <3>4
    <2>3. PICK x \in Nat, q \in Nat, t \in Nat :
            x = low + c /\ x = w * q + t /\ t < w /\ q = x \div w /\ t = x % w
      <3>1. PICK x \in Nat : x = low + c
        OBVIOUS
      <3> QED BY <1>5, <3>1, Divided
    <2>4. lba_low' = t /\ lba_high' = high + q
      BY <1>2, <1>4, <1>5, <2>3 DEF Carry
    <2>5. (high + q) * w + t = start + (done + c)
      <3>1. (high + q) * w = high * w + w * q
        OBVIOUS
      <3> QED BY <1>5, <2>3, <3>1
    <2>6. lba_high' * LbaWord + lba_low' = KERNEL_START_LBA + SectorsRead'
      BY <1>5, <1>6, <2>4, <2>5
    <2> QED BY <1>5, <1>6, <2>1, <2>2, <2>3, <2>4, <2>6 DEF ReadInv, KERNEL_START_LBA
  <1> QED BY <1>1, <1>2, <1>3, <1>4, <1>5, <1>6, <1>7, <1>8

LEMMA LayChunk == LayInv /\ TablesInv /\ MapInv /\ next_chunk => Lays
  <1> SUFFICES ASSUME LayInv, TablesInv, MapInv, next_chunk PROVE Lays
    OBVIOUS
  <1>1. /\ size \in KernelSizes /\ size' = size /\ writes \in Seq(Written)
        /\ at = "next_chunk" /\ mode = "real"
    BY DEF LayInv, next_chunk, firmware, TablesInv, RealPlaces
  <1>2. CASE at' = "halted"
    <2>1. writes' = writes
      BY <1>1, <1>2 DEF next_chunk, DiskRead
    <2> QED BY <1>1, <1>2, <2>1, PlacesAre DEF Lays, LayInv
  <1>3. CASE ~(at' = "halted")
    <2>1. PICK r \in Written, done \in Nat, c \in Nat :
            /\ done = SectorsRead /\ SectorsRead' = done + c /\ c > 0 /\ c <= 127
            /\ r.lo = 65536 + 512 * done /\ r.hi = 65536 + 512 * (done + c)
            /\ writes' = Append(writes, r)
            /\ at' = "next_chunk" /\ ReadInv'
      BY <1>3, ChunkRead
    <2> USE DEF Written, Laid, Disjoint, Stage2Places, MapPlaces, ImagePlaces, InfoPlaces,
                PagePlaces, BssPlaces, ScreenPlaces, GatePlaces, KeyboardPlaces, TimerPlaces
    <2>2. \A w \in Written : Laid(w) => Laid(w)'
      BY <1>1, <2>1
    <2>3. \A w \in Written : Laid(w) => Disjoint(r, w)
      BY <1>1, <2>1
    <2>4. Laid(r)'
      BY <1>1, <2>1
    <2>5. \A u \in InUse : Disjoint(r, u)
      BY <1>1, <2>1 DEF InUse, Region
    <2>6. at \in Stage2Places /\ at' # "stage1"
      BY <1>1, <2>1
    <2> HIDE DEF Written, Laid, Disjoint, Stage2Places, MapPlaces, ImagePlaces, InfoPlaces,
                PagePlaces, BssPlaces, ScreenPlaces, GatePlaces, KeyboardPlaces, TimerPlaces
    <2>7. writes' \in Seq(Written) /\ (\A i \in DOMAIN writes : Laid(writes[i]))'
      BY <1>1, <2>1, <2>2, <2>4, <2>6, Added
    <2>8. LayInv'
      BY <1>1, <2>1, <2>7, PlacesAre DEF LayInv
    <2>9. Narrow(r)
      BY <2>1 DEF Narrow
    <2> QED BY <2>1, <2>3, <2>5, <2>8, <2>9 DEF Lays, Adds
  <1> QED BY <1>2, <1>3

LEMMA LayInfo == LayInv /\ TablesInv /\ MapInv /\ fill_boot_info => Lays
  <1> SUFFICES ASSUME LayInv, TablesInv, MapInv, fill_boot_info PROVE Lays
    OBVIOUS
  <1>1. /\ size \in KernelSizes /\ size' = size /\ at = "next_chunk" /\ at' = "protect"
        /\ kernel_sectors_left' = kernel_sectors_left /\ kernel_sectors_left = 0
        /\ mode = "real"
    BY DEF LayInv, fill_boot_info, TablesInv, RealPlaces, loader, firmware, disk
  <1>2. PICK k \in Nat : /\ k = KERNEL_SECTORS(size) /\ 65536 + 512 * k <= Bss(size).lo
                         /\ Bss(size).lo \in Nat /\ Bss(size).hi \in Nat
                         /\ Bss(size).lo <= Bss(size).hi /\ StackBytes \in Nat
                         /\ Bss(size).hi <= 589824 - StackBytes
    BY <1>1, ImageFits DEF KERNEL_ADDR, SECTOR_SIZE, STACK_TOP
  <1>3. PICK r \in Written : r.lo = 20480 /\ r.hi = 20536 /\ r.lba = -1
                             /\ writes' = Append(writes, r)
    <2>1. PICK region : region = Region(BOOT_INFO_ADDR, BOOT_INFO_SIZE)
      OBVIOUS
    <2>2. region.lo = 20480 /\ region.hi = 20536
      BY <2>1 DEF Region, BOOT_INFO_ADDR, BOOT_INFO_SIZE
    <2>3. WriteSectors(region, -1)
      BY <2>1 DEF fill_boot_info, Write
    <2>4. region.lo \in Nat /\ region.hi \in Nat /\ -1 \in Int
      BY <1>2, <2>2
    <2> QED BY <2>2, <2>3, <2>4, RangeIs
  <1>4. /\ SectorsRead = k /\ SectorsRead' = k
        /\ Bss(size)' = Bss(size)
    BY <1>1, <1>2 DEF SectorsRead, KERNEL_SECTORS, RoundUp, Bss, Region, LayInv, ReadInv
  <1> USE DEF Written, Laid, Disjoint, Stage2Places, MapPlaces, ImagePlaces, InfoPlaces,
              PagePlaces, BssPlaces, ScreenPlaces, GatePlaces, KeyboardPlaces, TimerPlaces
  <1>5. \A w \in Written : Laid(w) => Laid(w)'
    BY <1>1, <1>2, <1>4
  <1>6. \A w \in Written : Laid(w) => Disjoint(r, w)
    BY <1>1, <1>2, <1>3, <1>4
  <1>7. Laid(r)'
    BY <1>1, <1>2, <1>3, <1>4
  <1>8. \A u \in InUse : Disjoint(r, u)
    BY <1>1, <1>2, <1>3 DEF InUse, Region, STACK_TOP
  <1>9. at \in Stage2Places /\ at' # "stage1"
    BY <1>1
  <1> HIDE DEF Written, Laid, Disjoint, Stage2Places, MapPlaces, ImagePlaces, InfoPlaces,
              PagePlaces, BssPlaces, ScreenPlaces, GatePlaces, KeyboardPlaces, TimerPlaces
  <1>10. writes' \in Seq(Written) /\ (\A i \in DOMAIN writes : Laid(writes[i]))'
    BY <1>1, <1>3, <1>5, <1>7, <1>9, Added
  <1>11. LayInv'
    BY <1>1, <1>10, PlacesAre DEF LayInv
  <1>12. Narrow(r)
    BY <1>3 DEF Narrow
  <1> QED BY <1>3, <1>6, <1>8, <1>11, <1>12 DEF Lays, Adds

LEMMA LayPages == LayInv /\ TablesInv /\ MapInv /\ setup_page_tables => Lays
  <1> SUFFICES ASSUME LayInv, TablesInv, MapInv, setup_page_tables PROVE Lays
    OBVIOUS
  <1>1. /\ size \in KernelSizes /\ size' = size /\ at = "page_tables" /\ at' = "long"
        /\ kernel_sectors_left' = kernel_sectors_left /\ kernel_sectors_left = 0
    BY DEF LayInv, setup_page_tables, InfoPlaces, loader, firmware, disk
  <1>2. PICK k \in Nat : /\ k = KERNEL_SECTORS(size) /\ 65536 + 512 * k <= Bss(size).lo
                         /\ Bss(size).lo \in Nat /\ Bss(size).hi \in Nat
                         /\ Bss(size).lo <= Bss(size).hi /\ StackBytes \in Nat
                         /\ Bss(size).hi <= 589824 - StackBytes
    BY <1>1, ImageFits DEF KERNEL_ADDR, SECTOR_SIZE, STACK_TOP
  <1>3. PICK r \in Written : r.lo = 4096 /\ r.hi = 16384 /\ r.lba = -1
                             /\ writes' = Append(writes, r)
    <2>1. PICK region : region = Region(PAGE_TABLE_BASE, PageTableBytes)
      OBVIOUS
    <2>2. region.lo = 4096 /\ region.hi = 16384
      BY <2>1 DEF Region, PAGE_TABLE_BASE, PageTableBytes
    <2>3. WriteSectors(region, -1)
      BY <2>1 DEF setup_page_tables, Write
    <2>4. region.lo \in Nat /\ region.hi \in Nat /\ -1 \in Int
      BY <1>2, <2>2
    <2> QED BY <2>2, <2>3, <2>4, RangeIs
  <1>4. /\ SectorsRead = k /\ SectorsRead' = k
        /\ Bss(size)' = Bss(size)
    BY <1>1, <1>2 DEF SectorsRead, KERNEL_SECTORS, RoundUp, Bss, Region, LayInv, ReadInv
  <1> USE DEF Written, Laid, Disjoint, Stage2Places, MapPlaces, ImagePlaces, InfoPlaces,
              PagePlaces, BssPlaces, ScreenPlaces, GatePlaces, KeyboardPlaces, TimerPlaces
  <1>5. \A w \in Written : Laid(w) => Laid(w)'
    BY <1>1, <1>2, <1>4
  <1>6. \A w \in Written : Laid(w) => Disjoint(r, w)
    <2>1. \A w \in Written : Laid(w) => w.lo \in Nat /\ 16384 <= w.lo
      BY <1>1, <1>2, <1>4
    <2> HIDE DEF Laid
    <2> QED BY <1>3, <2>1
  <1>7. Laid(r)'
    BY <1>1, <1>2, <1>3, <1>4
  <1>8. \A u \in InUse : Disjoint(r, u)
    BY <1>1, <1>2, <1>3 DEF InUse, Region, STACK_TOP
  <1>9. at \in Stage2Places /\ at' # "stage1"
    BY <1>1
  <1> HIDE DEF Written, Laid, Disjoint, Stage2Places, MapPlaces, ImagePlaces, InfoPlaces,
              PagePlaces, BssPlaces, ScreenPlaces, GatePlaces, KeyboardPlaces, TimerPlaces
  <1>10. writes' \in Seq(Written) /\ (\A i \in DOMAIN writes : Laid(writes[i]))'
    BY <1>1, <1>3, <1>5, <1>7, <1>9, Added
  <1>11. LayInv'
    BY <1>1, <1>10, PlacesAre DEF LayInv
  <1>12. Narrow(r)
    BY <1>3 DEF Narrow
  <1> QED BY <1>3, <1>6, <1>8, <1>11, <1>12 DEF Lays, Adds

LEMMA LayBss == LayInv /\ TablesInv /\ MapInv /\ kernel_entry => Lays
  <1> SUFFICES ASSUME LayInv, TablesInv, MapInv, kernel_entry PROVE Lays
    OBVIOUS
  <1>1. /\ size \in KernelSizes /\ size' = size /\ at = "entry" /\ at' = "console_init"
        /\ kernel_sectors_left' = kernel_sectors_left /\ kernel_sectors_left = 0
        /\ mode = "long"
    BY DEF LayInv, kernel_entry, TablesInv, LongPlaces, InfoPlaces, PagePlaces, loader,
           firmware, disk
  <1>2. PICK k \in Nat : /\ k = KERNEL_SECTORS(size) /\ 65536 + 512 * k <= Bss(size).lo
                         /\ Bss(size).lo \in Nat /\ Bss(size).hi \in Nat
                         /\ Bss(size).lo <= Bss(size).hi /\ StackBytes \in Nat
                         /\ Bss(size).hi <= 589824 - StackBytes
    BY <1>1, ImageFits DEF KERNEL_ADDR, SECTOR_SIZE, STACK_TOP
  <1>3. PICK r \in Written : r.lo = Bss(size).lo /\ r.hi = Bss(size).hi /\ r.lba = -1
                             /\ writes' = Append(writes, r)
    <2>1. PICK region : region = Bss(size)
      OBVIOUS
    <2>2. region.lo = Bss(size).lo /\ region.hi = Bss(size).hi
      BY <2>1
    <2>3. WriteSectors(region, -1)
      BY <2>1 DEF kernel_entry, Write
    <2>4. region.lo \in Nat /\ region.hi \in Nat /\ -1 \in Int
      BY <1>2, <2>2
    <2> QED BY <2>2, <2>3, <2>4, RangeIs
  <1>4. /\ SectorsRead = k /\ SectorsRead' = k
        /\ Bss(size)' = Bss(size)
    BY <1>1, <1>2 DEF SectorsRead, KERNEL_SECTORS, RoundUp, Bss, Region, LayInv, ReadInv
  <1> USE DEF Written, Laid, Disjoint, Stage2Places, MapPlaces, ImagePlaces, InfoPlaces,
              PagePlaces, BssPlaces, ScreenPlaces, GatePlaces, KeyboardPlaces, TimerPlaces
  <1>5. \A w \in Written : Laid(w) => Laid(w)'
    BY <1>1, <1>2, <1>4
  <1>6. \A w \in Written : Laid(w) => Disjoint(r, w)
    <2>1. \A w \in Written : Laid(w) => w.hi \in Nat /\ w.hi <= 65536 + 512 * k
      BY <1>1, <1>2, <1>4
    <2> HIDE DEF Laid
    <2>2. \A w \in Written : Laid(w) => w.hi <= Bss(size).lo
      BY <1>2, <2>1
    <2> QED BY <1>3, <2>2
  <1>7. Laid(r)'
    BY <1>1, <1>2, <1>3, <1>4
  <1>8. \A u \in InUse : Disjoint(r, u)
    BY <1>1, <1>2, <1>3 DEF InUse, Region, STACK_TOP
  <1>9. at \in Stage2Places /\ at' # "stage1"
    BY <1>1
  <1> HIDE DEF Written, Laid, Disjoint, Stage2Places, MapPlaces, ImagePlaces, InfoPlaces,
              PagePlaces, BssPlaces, ScreenPlaces, GatePlaces, KeyboardPlaces, TimerPlaces
  <1>10. writes' \in Seq(Written) /\ (\A i \in DOMAIN writes : Laid(writes[i]))'
    BY <1>1, <1>3, <1>5, <1>7, <1>9, Added
  <1>11. LayInv'
    BY <1>1, <1>10, PlacesAre DEF LayInv
  <1>12. Narrow(r)
    BY <1>3 DEF Narrow
  <1> QED BY <1>3, <1>6, <1>8, <1>11, <1>12 DEF Lays, Adds

LEMMA LayScreen == LayInv /\ TablesInv /\ MapInv /\ console_init => Lays
  <1> SUFFICES ASSUME LayInv, TablesInv, MapInv, console_init PROVE Lays
    OBVIOUS
  <1>1. /\ size \in KernelSizes /\ size' = size /\ at = "console_init"
        /\ at' = "boot_init" \/ at' = "halted"
        /\ kernel_sectors_left' = kernel_sectors_left /\ kernel_sectors_left = 0
        /\ mode = "long" /\ writes \in Seq(Written)
    BY DEF LayInv, console_init, Stop, TablesInv, LongPlaces, InfoPlaces, PagePlaces,
           BssPlaces, loader, firmware, disk
  <1>2. PICK k \in Nat : /\ k = KERNEL_SECTORS(size) /\ 65536 + 512 * k <= Bss(size).lo
                         /\ Bss(size).lo \in Nat /\ Bss(size).hi \in Nat
                         /\ Bss(size).lo <= Bss(size).hi /\ StackBytes \in Nat
                         /\ Bss(size).hi <= 589824 - StackBytes
    <2>1. size \in KernelSizes
      BY <1>1
    <2> QED BY <2>1, ImageFits DEF KERNEL_ADDR, SECTOR_SIZE, STACK_TOP
  <1>3. PICK r \in Written : r.lo = 753664 /\ r.hi = 757664 /\ r.lba = -1
                             /\ writes' = Append(writes, r)
    <2>1. PICK region : region = Region(753664, 4000)
      OBVIOUS
    <2>2. region.lo = 753664 /\ region.hi = 757664
      BY <2>1 DEF Region
    <2>3. WriteSectors(region, -1)
      BY <2>1 DEF console_init, Write
    <2>4. region.lo \in Nat /\ region.hi \in Nat /\ -1 \in Int
      BY <2>2
    <2> QED BY <2>2, <2>3, <2>4, RangeIs
  <1>4. /\ SectorsRead = k /\ SectorsRead' = k
        /\ Bss(size)' = Bss(size)
    BY <1>1, <1>2 DEF SectorsRead, KERNEL_SECTORS, RoundUp, Bss, Region
  <1> USE DEF Written, Laid, Stage2Places, MapPlaces, ImagePlaces, InfoPlaces,
              PagePlaces, BssPlaces, ScreenPlaces, GatePlaces, KeyboardPlaces, TimerPlaces
  <1>5. at' = "boot_init" => \A w \in Written : Laid(w) => Laid(w)'
    BY <1>1, <1>2, <1>4
  <1>6. \A w \in Written : Laid(w) => w.hi \in Nat /\ w.hi <= 589824
    <2>1. PICK top \in Nat : top = Bss(size).hi /\ top <= 589824 /\ 65536 + 512 * k <= top
      BY <1>2
    <2>2. ASSUME NEW w \in Written, Laid(w)
          PROVE  w.hi <= 65536 \/ w.hi <= 65536 + 512 * k \/ w.hi <= top
      <3>1. w.hi \in Nat
        OBVIOUS
      <3> QED BY <1>1, <1>4, <2>1, <2>2, <3>1
    <2> QED BY <2>1, <2>2
  <1>7. at' = "boot_init" => Laid(r)'
    BY <1>1, <1>2, <1>3, <1>4
  <1>8. at \in Stage2Places /\ at' # "stage1"
    BY <1>1
  <1> HIDE DEF Written, Laid, Stage2Places, MapPlaces, ImagePlaces, InfoPlaces,
              PagePlaces, BssPlaces, ScreenPlaces, GatePlaces, KeyboardPlaces, TimerPlaces
  <1>9. \A w \in Written : Laid(w) => Disjoint(r, w)
    BY <1>3, <1>6 DEF Disjoint
  <1>10. \A u \in InUse : Disjoint(r, u)
    BY <1>1, <1>2, <1>3 DEF InUse, Region, Disjoint, STACK_TOP
  <1>11. LayInv'
    <2>1. CASE at' = "boot_init"
      <3>1. writes' \in Seq(Written) /\ (\A i \in DOMAIN writes : Laid(writes[i]))'
        BY <1>1, <1>3, <1>5, <1>7, <1>8, <2>1, Added
      <3> QED BY <1>1, <2>1, <3>1 DEF LayInv
    <2>2. CASE at' = "halted"
      <3>1. writes' \in Seq(Written)
        BY <1>1, <1>3
      <3> QED BY <1>1, <2>2, <3>1, PlacesAre DEF LayInv
    <2> QED BY <1>1, <2>1, <2>2
  <1>12. Narrow(r)
    BY <1>3 DEF Narrow
  <1> QED BY <1>3, <1>9, <1>10, <1>11, <1>12 DEF Lays, Adds

\* The steps that write nothing.
LEMMA Unwritten ==
    ASSUME LayInv, writes' = writes, at \in Stage2Places,
           \A w \in Written : Laid(w) => Laid(w)'
    PROVE  writes' \in Seq(Written) /\ (\A i \in DOMAIN writes : Laid(writes[i]))'
  <1>1. writes \in Seq(Written) /\ \A i \in DOMAIN writes : Laid(writes[i])
    BY DEF LayInv
  <1>2. ASSUME NEW i \in DOMAIN writes PROVE Laid(writes[i])'
    <2>1. PICK w \in Written : w = writes[i]
      BY <1>1
    <2>2. Laid(w)'
      BY <1>1, <2>1
    <2>3. writes'[i] = w
      BY <2>1
    <2> QED BY <2>2, <2>3 DEF Laid
  <1> QED BY <1>1, <1>2

LEMMA LayQuietly ==
    LayInv /\ MapInv /\ (stage2_start \/ e820_full \/ load_kernel) => Lays
  <1> SUFFICES ASSUME LayInv, MapInv, stage2_start \/ e820_full \/ load_kernel PROVE Lays
    OBVIOUS
  <1>1. size \in KernelSizes /\ size' = size /\ writes' = writes
    BY DEF LayInv, stage2_start, e820_full, load_kernel, loader, firmware
  <1>2. CASE stage2_start
    <2>1. at = "stage2" /\ at' = "e820" /\ at \in Stage2Places
      BY <1>2 DEF stage2_start, Stage2Places
    <2>2. \A w \in Written : Laid(w) => Laid(w)'
      BY <2>1 DEF Laid, Stage2Places, MapPlaces, ImagePlaces, InfoPlaces, PagePlaces,
                  BssPlaces, ScreenPlaces, GatePlaces, KeyboardPlaces, TimerPlaces
    <2>3. writes' \in Seq(Written) /\ (\A i \in DOMAIN writes : Laid(writes[i]))'
      BY <1>1, <2>1, <2>2, Unwritten
    <2>4. LayInv'
      BY <1>1, <2>1, <2>3, PlacesAre DEF LayInv
    <2> QED BY <1>1, <2>4 DEF Lays
  <1>3. CASE e820_full
    <2>1. at = "e820" /\ at' = "load_kernel" /\ at \in Stage2Places /\ Storing
      BY <1>3 DEF e820_full, Stage2Places, MapInv
    <2>2. di \in Nat /\ di <= 23040
      <3>1. MEMORY_MAP_LIMIT \in Nat /\ MEMORY_MAP_LIMIT <= 64
        BY BuildAssumption
      <3>2. PICK n \in Nat : n = Len(given) /\ n <= MEMORY_MAP_LIMIT /\ di = SlotAt(n + 1)
        BY <2>1 DEF Storing, Stores
      <3> QED BY <3>1, <3>2 DEF SlotAt, MEMORY_MAP_ADDR, ENTRY_SIZE
    <2>3. \A w \in Written : Laid(w) => Laid(w)'
      BY <2>1, <2>2 DEF Laid, Stage2Places, MapPlaces, ImagePlaces, InfoPlaces, PagePlaces,
                  BssPlaces, ScreenPlaces, GatePlaces, KeyboardPlaces, TimerPlaces, Written
    <2>4. writes' \in Seq(Written) /\ (\A i \in DOMAIN writes : Laid(writes[i]))'
      BY <1>1, <2>1, <2>3, Unwritten
    <2>5. LayInv'
      BY <1>1, <2>1, <2>4, PlacesAre DEF LayInv
    <2> QED BY <1>1, <2>5 DEF Lays
  <1>4. CASE load_kernel
    <2>1. at = "load_kernel" /\ at' = "next_chunk" /\ at \in Stage2Places
      BY <1>4 DEF load_kernel, Stage2Places, MapPlaces
    <2>2. \A w \in Written : Laid(w) => Laid(w)'
      BY <2>1 DEF Laid, Stage2Places, MapPlaces, ImagePlaces, InfoPlaces, PagePlaces,
                  BssPlaces, ScreenPlaces, GatePlaces, KeyboardPlaces, TimerPlaces
    <2>3. writes' \in Seq(Written) /\ (\A i \in DOMAIN writes : Laid(writes[i]))'
      BY <1>1, <2>1, <2>2, Unwritten
    <2>4. PICK k \in Nat, start \in Nat :
            /\ k = KERNEL_SECTORS(size) /\ start = KERNEL_START_LBA /\ start < LbaWord
            /\ LbaWord \in Nat
      <3>1. STAGE2_SECTORS \in Nat /\ LbaWord \in Nat /\ KERNEL_START_LBA < LbaWord
        BY BuildAssumption
      <3>2. KERNEL_START_LBA \in Nat
        BY <3>1 DEF KERNEL_START_LBA
      <3> QED BY <1>1, <3>1, <3>2, ImageFits
    <2>5. KERNEL_SECTORS(size)' = k
      BY <1>1, <2>4 DEF KERNEL_SECTORS, RoundUp
    <2>6. /\ kernel_sectors_left' = k /\ kernel_segment' = 4096 /\ lba_low' = start
          /\ lba_high' = 0
      <3>1. start % LbaWord = start
        BY <2>4, SmallRest
      <3> QED BY <1>4, <2>4, <3>1 DEF load_kernel, KERNEL_ADDR
    <2>7. SectorsRead' = 0
      BY <2>4, <2>5, <2>6 DEF SectorsRead
    <2>8. ReadInv'
      BY <2>4, <2>5, <2>6, <2>7 DEF ReadInv, KERNEL_START_LBA
    <2>9. LayInv'
      BY <1>1, <2>1, <2>3, <2>8, PlacesAre DEF LayInv
    <2> QED BY <1>1, <2>9 DEF Lays
  <1> QED BY <1>2, <1>3, <1>4

\* The steps that only pass on, from a place behind the boot record.
Passes ==
    \/ protected_mode \/ long_mode_start \/ boot_init \/ gdt_init \/ trap_init
    \/ keyboard_init \/ system_init_timer \/ pmm_init \/ heap_init \/ cpu_sti \/ shell_returns

LEMMA LayPasses == LayInv /\ Passes => Lays
  <1> SUFFICES ASSUME LayInv, Passes PROVE Lays
    OBVIOUS
  <1>1. /\ size \in KernelSizes /\ size' = size /\ writes' = writes
        /\ kernel_sectors_left' = kernel_sectors_left
    BY DEF LayInv, Passes, protected_mode, long_mode_start, boot_init, gdt_init, trap_init,
           keyboard_init, system_init_timer, pmm_init, heap_init, cpu_sti, shell_returns,
           Calls, loader, firmware, disk
  <1>2. /\ at \in InfoPlaces
        /\ \/ at' = "reset"
           \/ /\ at' \in InfoPlaces
              /\ at \in ScreenPlaces => at' \in ScreenPlaces
              /\ at \in BssPlaces => at' \in BssPlaces
              /\ at \in PagePlaces => at' \in PagePlaces
    BY DEF Passes, protected_mode, long_mode_start, boot_init, gdt_init, trap_init,
           keyboard_init, system_init_timer, pmm_init, heap_init, cpu_sti, shell_returns,
           Calls, EnterWith, InfoPlaces, PagePlaces, BssPlaces, ScreenPlaces, GatePlaces,
           KeyboardPlaces, TimerPlaces
  <1>3. CASE at' = "reset"
    BY <1>1, <1>3, PlacesAre DEF Lays, LayInv
  <1>4. CASE at' # "reset"
    <2>1. /\ at \in MapPlaces /\ at' \in MapPlaces /\ at \in ImagePlaces /\ at' \in ImagePlaces
          /\ at \in Stage2Places /\ at' \in Stage2Places /\ at # "e820"
          /\ at' # "next_chunk" /\ at' # "stage1"
      BY <1>2, <1>4, PlacesAre DEF Stage2Places, MapPlaces, ImagePlaces
    <2>2. SectorsRead' = SectorsRead /\ Bss(size)' = Bss(size)
      BY <1>1 DEF SectorsRead, KERNEL_SECTORS, RoundUp, Bss, Region
    <2>3. \A w \in Written : Laid(w) => Laid(w)'
      BY <1>2, <1>4, <2>1, <2>2 DEF Laid
    <2>4. writes' \in Seq(Written) /\ (\A i \in DOMAIN writes : Laid(writes[i]))'
      BY <1>1, <2>1, <2>3, Unwritten
    <2>5. kernel_sectors_left' = 0
      BY <1>1, <1>2 DEF LayInv
    <2>6. LayInv'
      BY <1>1, <2>1, <2>4, <2>5 DEF LayInv
    <2> QED BY <1>1, <2>6 DEF Lays
  <1> QED BY <1>3, <1>4

LEMMA LayNext == LayInv /\ TablesInv /\ MapInv /\ BootNext => Lays
  BY LayStage1, LaySlot, LayChunk, LayInfo, LayPages, LayBss, LayScreen, LayQuietly, LayPasses
     DEF BootNext, Load, kernel_main, Passes

LEMMA LayInit == BootInit => LayInv
  BY PlacesAre DEF BootInit, LayInv

-----------------------------------------------------------------------------
(* The image, sector by sector.                                            *)

\* The range w holds a sector of the image at the sector's place.
Holds(w, sector) ==
    /\ w.lo <= 65536 + 512 * sector /\ 65536 + 512 * sector + 512 <= w.hi
    /\ w.lba >= 0
    /\ w.lba + ((65536 + 512 * sector - w.lo) \div 512) = KERNEL_START_LBA + sector

LoadInv ==
    /\ at # "halted" => ~unreadable
    /\ \A i \in DOMAIN writes : Narrow(writes[i])
    /\ at \in ImagePlaces =>
         \A sector \in Nat : sector < SectorsRead =>
           \E i \in DOMAIN writes : Holds(writes[i], sector)

LEMMA LoadInit == BootInit => LoadInv
  BY PlacesAre DEF BootInit, LoadInv, ImagePlaces, Stage2Places, MapPlaces

\* What is in the list of writes stays there.
LEMMA Kept ==
    ASSUME LayInv, Lays, NEW i \in DOMAIN writes
    PROVE  i \in DOMAIN writes' /\ writes'[i] = writes[i]
  <1>1. writes \in Seq(Written)
    BY DEF LayInv
  <1>2. CASE UNCHANGED writes
    BY <1>2
  <1>3. ASSUME NEW r, Adds(r) PROVE i \in DOMAIN writes' /\ writes'[i] = writes[i]
    BY <1>1, <1>3 DEF Adds
  <1> QED BY <1>2, <1>3 DEF Lays

LEMMA StaysNarrow ==
    ASSUME LayInv, Lays, \A i \in DOMAIN writes : Narrow(writes[i])
    PROVE  \A i \in DOMAIN writes' : Narrow(writes'[i])
  <1>1. writes \in Seq(Written)
    BY DEF LayInv
  <1>2. CASE UNCHANGED writes
    BY <1>2
  <1>3. ASSUME NEW r, Adds(r) PROVE \A i \in DOMAIN writes' : Narrow(writes'[i])
    <2>1. /\ DOMAIN writes' = 1 .. Len(writes) + 1 /\ writes'[Len(writes) + 1] = r
          /\ \A i \in 1 .. Len(writes) : writes'[i] = writes[i]
      BY <1>1, <1>3 DEF Adds
    <2>2. Narrow(r)
      BY <1>3 DEF Adds
    <2> QED BY <1>1, <2>1, <2>2
  <1> QED BY <1>2, <1>3 DEF Lays

\* Only the loop changes how much has been read.
LEMMA ReadKept ==
    ASSUME BootNext, ~next_chunk, at' \in ImagePlaces
    PROVE  load_kernel \/ (at \in ImagePlaces /\ SectorsRead' = SectorsRead)
  <1>1. /\ "halted" \notin ImagePlaces /\ "stage2" \notin ImagePlaces
        /\ "e820" \notin ImagePlaces /\ "load_kernel" \notin ImagePlaces
    BY DEF ImagePlaces, InfoPlaces, PagePlaces, BssPlaces, ScreenPlaces, GatePlaces,
           KeyboardPlaces, TimerPlaces
  <1>2. ASSUME UNCHANGED <<size, kernel_sectors_left>> PROVE SectorsRead' = SectorsRead
    BY <1>2 DEF SectorsRead, KERNEL_SECTORS, RoundUp
  <1>3. CASE stage1 \/ stage2_start \/ e820_entry \/ e820_fails \/ e820_full
    BY <1>1, <1>3 DEF stage1, DiskRead, Stop, stage2_start, e820_entry, e820_fails,
                      e820_full
  <1>4. CASE fill_boot_info \/ setup_page_tables \/ kernel_entry \/ console_init
    BY <1>2, <1>4 DEF fill_boot_info, setup_page_tables, kernel_entry, console_init, loader,
                      firmware, disk, ImagePlaces, InfoPlaces, PagePlaces, BssPlaces
  <1>5. CASE Passes
    BY <1>2, <1>5
       DEF Passes, protected_mode, long_mode_start, boot_init, gdt_init, trap_init,
           keyboard_init, system_init_timer, pmm_init, heap_init, cpu_sti, shell_returns,
           Calls, loader, firmware, disk, ImagePlaces, InfoPlaces, PagePlaces, BssPlaces,
           ScreenPlaces, GatePlaces, KeyboardPlaces, TimerPlaces
  <1> QED BY <1>3, <1>4, <1>5 DEF BootNext, Load, kernel_main, Passes

LEMMA LoadNext == LoadInv /\ LayInv /\ Lays /\ BootNext => LoadInv'
  <1> SUFFICES ASSUME LoadInv, LayInv, Lays, BootNext PROVE LoadInv'
    OBVIOUS
  <1>1. at' # "halted" => ~unreadable'
    <2>1. at # "halted" => ~unreadable
      BY DEF LoadInv
    <2>2. CASE stage1 \/ next_chunk
      <3>1. at # "halted" /\ (unreadable' = unreadable \/ at' = "halted")
        BY <2>2 DEF stage1, next_chunk, DiskRead, Stop
      <3> QED BY <2>1, <3>1, Zenon
    <2>3. CASE stage2_start \/ e820_entry \/ e820_fails \/ e820_full \/ load_kernel
                 \/ fill_boot_info \/ setup_page_tables \/ kernel_entry \/ console_init
      <3>1. at # "halted" /\ unreadable' = unreadable
        BY <2>3 DEF stage2_start, e820_entry, e820_fails, e820_full, load_kernel,
                    fill_boot_info, setup_page_tables, kernel_entry, console_init, loader
      <3> QED BY <2>1, <3>1, Zenon
    <2>4. CASE Passes
      <3>1. at # "halted" /\ unreadable' = unreadable
        BY <2>4 DEF Passes, protected_mode, long_mode_start, boot_init, gdt_init, trap_init,
                    keyboard_init, system_init_timer, pmm_init, heap_init, cpu_sti,
                    shell_returns, Calls, loader
      <3> QED BY <2>1, <3>1, Zenon
    <2> QED BY <2>2, <2>3, <2>4 DEF BootNext, Load, kernel_main, Passes
  <1>2. \A i \in DOMAIN writes' : Narrow(writes'[i])
    BY StaysNarrow DEF LoadInv
  <1>3. \A i \in DOMAIN writes : i \in DOMAIN writes' /\ writes'[i] = writes[i]
    BY Kept
  <1>4. ASSUME at \in ImagePlaces, NEW sector \in Nat, sector < SectorsRead
        PROVE  \E i \in DOMAIN writes' : Holds(writes'[i], sector)
    BY <1>3, <1>4 DEF LoadInv
  <1>5. ASSUME at' \in ImagePlaces, NEW sector \in Nat, sector < SectorsRead'
        PROVE  \E i \in DOMAIN writes' : Holds(writes'[i], sector)
    <2>1. CASE next_chunk
      <3>1. ~(at' = "halted")
        BY <1>5, PlacesAre DEF Stage2Places, MapPlaces
      <3>2. PICK r \in Written, done \in Nat, c \in Nat :
              /\ done = SectorsRead /\ SectorsRead' = done + c
              /\ r.lo = 65536 + 512 * done /\ r.hi = 65536 + 512 * (done + c)
              /\ r.lba = KERNEL_START_LBA + done
              /\ writes' = Append(writes, r) /\ at = "next_chunk"
        BY <2>1, <3>1, ChunkRead
      <3>3. CASE sector < done
        BY <1>4, <3>2, <3>3 DEF ImagePlaces
      <3>4. CASE ~(sector < done)
        <4>1. PICK d \in Nat : sector = done + d /\ d < c
          <5>1. sector - done \in Nat /\ sector = done + (sector - done) /\ sector - done < c
            BY <1>5, <3>2, <3>4
          <5> QED BY <5>1
        <4>2. (65536 + 512 * sector - r.lo) \div 512 = d
          <5>1. 65536 + 512 * sector - r.lo = 512 * d
            BY <3>2, <4>1
          <5>2. (512 * d) \div 512 = d
            OBVIOUS
          <5> QED BY <5>1, <5>2
        <4>3. KERNEL_START_LBA \in Nat
          <5>1. STAGE2_SECTORS \in Nat
            BY BuildAssumption
          <5> QED BY <5>1 DEF KERNEL_START_LBA
        <4>4. Holds(r, sector)
          BY <3>2, <4>1, <4>2, <4>3 DEF Holds
        <4>5. Len(writes) + 1 \in DOMAIN writes' /\ writes'[Len(writes) + 1] = r
          BY <3>2 DEF LayInv
        <4> QED BY <4>4, <4>5
      <3> QED BY <3>3, <3>4
    <2>2. CASE load_kernel
      <3>1. SectorsRead' = 0
        <4>1. kernel_sectors_left' = KERNEL_SECTORS(size) /\ size' = size
          BY <2>2 DEF load_kernel, firmware
        <4>2. KERNEL_SECTORS(size)' = KERNEL_SECTORS(size) /\ KERNEL_SECTORS(size) \in Nat
          BY <4>1, ImageFits DEF KERNEL_SECTORS, RoundUp, LayInv
        <4> QED BY <4>1, <4>2 DEF SectorsRead
      <3> QED BY <1>5, <3>1
    <2>3. CASE at \in ImagePlaces /\ SectorsRead' = SectorsRead
      BY <1>4, <1>5, <2>3
    <2> QED BY <1>5, <2>1, <2>2, <2>3, ReadKept
  <1>6. at' \in ImagePlaces =>
          \A sector \in Nat : sector < SectorsRead' =>
            \E i \in DOMAIN writes' : Holds(writes'[i], sector)
    BY <1>5
  <1> QED BY <1>1, <1>2, <1>6 DEF LoadInv, Narrow, Holds, KERNEL_START_LBA

LEMMA ImageLoaded == LoadInv /\ LayInv => LoadedWhole
  <1> SUFFICES ASSUME LoadInv, LayInv, KernelStarts PROVE LoadedWhole
    BY DEF LoadedWhole
  <1>1. /\ at = "console_init" /\ at \in ImagePlaces /\ kernel_sectors_left = 0
        /\ size \in KernelSizes
    BY DEF KernelStarts, LayInv, ImagePlaces, InfoPlaces, PagePlaces, BssPlaces
  <1>2. ~unreadable
    BY <1>1 DEF LoadInv
  <1>3. \A i \in DOMAIN writes : writes[i].lba >= 0 => writes[i].hi - writes[i].lo <= 65536
    BY DEF LoadInv, Narrow
  <1>4. ASSUME NEW sector \in 0 .. KERNEL_SECTORS(size) - 1,
               NEW place, place = Region(KERNEL_ADDR + sector * SECTOR_SIZE, SECTOR_SIZE)
        PROVE  \E i \in DOMAIN writes :
                 /\ Inside(place, writes[i])
                 /\ writes[i].lba >= 0
                 /\ writes[i].lba + (place.lo - writes[i].lo) \div SECTOR_SIZE
                      = KERNEL_START_LBA + sector
    <2>1. sector \in Nat /\ sector < SectorsRead
      BY <1>1, ImageFits DEF SectorsRead
    <2>2. PICK i \in DOMAIN writes : Holds(writes[i], sector)
      BY <1>1, <2>1 DEF LoadInv
    <2>3. place.lo = 65536 + 512 * sector /\ place.hi = 65536 + 512 * sector + 512
      BY <1>4, <2>1 DEF Region, KERNEL_ADDR, SECTOR_SIZE
    <2>4. Inside(place, writes[i])
      BY <2>2, <2>3 DEF Inside, Holds
    <2>5. /\ writes[i].lba >= 0
          /\ writes[i].lba + ((place.lo - writes[i].lo) \div SECTOR_SIZE)
               = KERNEL_START_LBA + sector
      <3>1. writes[i].lo \in Nat /\ writes[i].lba \in Int
        <4>1. writes \in Seq(Written)
          BY DEF LayInv
        <4>2. writes[i] \in Written
          BY <2>2, <4>1
        <4> QED BY <4>2 DEF Written
      <3>2. PICK p \in Int : p = 65536 + 512 * sector - writes[i].lo
        BY <2>1, <3>1
      <3>3. place.lo - writes[i].lo = p
        BY <2>1, <2>3, <3>1, <3>2
      <3>4. writes[i].lba >= 0 /\ writes[i].lba + (p \div 512) = KERNEL_START_LBA + sector
        BY <2>2, <3>2 DEF Holds
      <3> QED BY <3>3, <3>4 DEF SECTOR_SIZE
    <2> QED BY <2>4, <2>5
  <1> QED BY <1>2, <1>3, <1>4 DEF LoadedWhole

-----------------------------------------------------------------------------
(* What pmm_init withholds.                                                *)

ProtectInv == at = "heap_init" => Region(0, 1048576) \in reserved

LEMMA ProtectInit == BootInit => ProtectInv
  BY DEF BootInit, ProtectInv

LEMMA ProtectNext == ProtectInv /\ BootNext => ProtectInv'
  <1> SUFFICES ASSUME BootNext, at' = "heap_init" PROVE (Region(0, 1048576) \in reserved)'
    BY DEF ProtectInv
  <1>1. pmm_init
    <2>1. ~Load
      BY DEF Load, stage1, DiskRead, Stop, stage2_start, e820_entry, e820_fails, e820_full,
             load_kernel, next_chunk, fill_boot_info, protected_mode, setup_page_tables,
             long_mode_start, EnterWith
    <2> QED
      BY <2>1 DEF BootNext, kernel_main, kernel_entry, console_init, Stop, boot_init,
                  gdt_init, trap_init, keyboard_init, system_init_timer, heap_init, cpu_sti,
                  shell_returns, Calls
  <1>2. Region(0, 1048576) \in reserved'
    BY <1>1 DEF pmm_init, Reservations
  <1> QED BY <1>2 DEF Region

LEMMA Protected == ProtectInv /\ LayInv /\ TablesInv => MemoryProtected
  <1> SUFFICES ASSUME ProtectInv, LayInv, TablesInv, at = "heap_init" PROVE MemoryProtected
    BY DEF MemoryProtected
  <1>1. /\ size \in KernelSizes /\ writes \in Seq(Written) /\ mode = "long"
        /\ kernel_sectors_left = 0
        /\ \A i \in DOMAIN writes : Laid(writes[i])
    BY DEF LayInv, TablesInv, LongPlaces, TablePlaces, GatePlaces, KeyboardPlaces, TimerPlaces,
           Stage2Places, MapPlaces, ImagePlaces, InfoPlaces, PagePlaces, BssPlaces, ScreenPlaces
  <1>2. PICK k \in Nat : /\ k = KERNEL_SECTORS(size) /\ 65536 + 512 * k <= Bss(size).lo
                         /\ Bss(size).lo \in Nat /\ Bss(size).hi \in Nat
                         /\ Bss(size).lo <= Bss(size).hi /\ StackBytes \in Nat
                         /\ Bss(size).hi <= 589824 - StackBytes
    BY <1>1, ImageFits DEF KERNEL_ADDR, SECTOR_SIZE, STACK_TOP
  <1>3. \A w \in Written : Laid(w) => w.lo \in Nat /\ w.hi \in Nat /\ w.hi <= 757664
    BY <1>1, <1>2 DEF Laid, Written, SectorsRead
  <1>4. PICK low \in reserved : low = Region(0, 1048576) /\ low.lo = 0 /\ low.hi = 1048576
    BY DEF ProtectInv, Region
  <1>5. ASSUME NEW region \in Range(writes) PROVE Inside(region, low)
    <2>1. PICK i \in DOMAIN writes : region = writes[i]
      BY DEF Range
    <2>2. region \in Written /\ Laid(region)
      BY <1>1, <2>1
    <2> QED BY <1>3, <1>4, <2>2 DEF Inside
  <1>6. ASSUME NEW region \in InUse PROVE Inside(region, low)
    <2>1. region = Region(STACK_TOP - StackBytes, StackBytes)
      BY <1>1 DEF InUse
    <2>2. region.lo = 589824 - StackBytes /\ region.hi = 589824 - StackBytes + StackBytes
      BY <2>1 DEF Region, STACK_TOP
    <2> QED BY <1>2, <1>4, <2>2 DEF Inside
  <1>7. \A k2 \in 0 .. (PMM_MAX_MEMORY \div HUGE_PAGE) - 1 :
          k2 \in DOMAIN Directory /\ Directory[k2] = k2 * HUGE_PAGE
    BY DEF PMM_MAX_MEMORY, HUGE_PAGE, Directory
  <1> QED BY <1>4, <1>5, <1>6, <1>7 DEF MemoryProtected

-----------------------------------------------------------------------------
(* The frame of a trap.                                                    *)

\* A set of numbers that is not empty has a least element.
LEMMA MinIs ==
    ASSUME NEW S, S \subseteq Nat, S # {}
    PROVE  Min(S) \in S
  <1>1. PICK x \in S : \A y \in S : ~(<<y, x>> \in OpToRel(<, Nat))
    BY WFMin, NatLessThanWellFounded
  <1>2. ASSUME NEW y \in S PROVE x <= y
    <2>1. x \in Nat /\ y \in Nat
      OBVIOUS
    <2>2. ~(<<y, x>> \in OpToRel(<, Nat))
      BY <1>1
    <2>3. ~(y < x)
      BY <2>1, <2>2 DEF OpToRel
    <2> QED BY <2>1, <2>3
  <1> QED BY <1>2 DEF Min

\* The place of a name that is in a list.
Place(s, name) == SelectInSeq(s, LAMBDA f : f = name)

LEMMA PlaceIs ==
    ASSUME NEW s, NEW n \in Nat, Len(s) = n, NEW name, NEW k \in 1 .. n, s[k] = name
    PROVE  Place(s, name) \in 1 .. n /\ s[Place(s, name)] = name
  <1>1. PICK S : S = {i \in 1 .. n : s[i] = name}
    OBVIOUS
  <1>2. S # {} /\ S \subseteq Nat
    BY <1>1
  <1>3. Place(s, name) = Min(S)
    BY <1>1, <1>2 DEF Place, SelectInSeq
  <1> QED BY <1>1, <1>2, <1>3, MinIs

LEMMA PushedIs ==
    /\ Pushed \in Seq(Registers) /\ Len(Pushed) = 15 /\ DOMAIN Pushed = 1 .. 15
    /\ \A r \in Registers : \E k \in 1 .. 15 : Pushed[k] = r
  <1>1. Pushed \in Seq(Registers) /\ Len(Pushed) = 15 /\ DOMAIN Pushed = 1 .. 15
    BY DEF Pushed, Registers, Range
  <1>2. \A r \in Registers : \E k \in 1 .. 15 : Pushed[k] = r
    BY <1>1 DEF Registers, Range
  <1> QED BY <1>1, <1>2

LEMMA RegistersAre ==
    /\ "rbx" \in Registers /\ "rdi" \in Registers
    /\ Registers \cap {"vector", "error_code", "rip", "cs", "rflags", "cr2"} = {}
  BY DEF Registers, Pushed, Range

LEMMA ReversedIs ==
    /\ Reverse(Pushed) \in Seq(Registers) /\ Len(Reverse(Pushed)) = 15
    /\ \A p \in 1 .. 15 : Reverse(Pushed)[p] = Pushed[16 - p]
  <1>1. PICK n \in Nat : n = 15
    OBVIOUS
  <1>2. Pushed \in Seq(Registers) /\ Len(Pushed) = n
    BY <1>1, PushedIs
  <1>3. Reverse(Pushed) = [i \in 1 .. n |-> Pushed[(n - i) + 1]]
    BY <1>2 DEF Reverse
  <1>4. \A i \in 1 .. n : (n - i) + 1 \in 1 .. n /\ Pushed[(n - i) + 1] \in Registers
    BY <1>2
  <1>5. Reverse(Pushed) \in Seq(Registers) /\ Len(Reverse(Pushed)) = n
    BY <1>3, <1>4
  <1>6. ASSUME NEW p \in 1 .. n PROVE Reverse(Pushed)[p] = Pushed[16 - p]
    <2>1. (n - p) + 1 = 16 - p
      BY <1>1
    <2> QED BY <1>3, <2>1
  <1> QED BY <1>1, <1>5, <1>6

\* Two lists, one behind the other.
LEMMA Joined ==
    ASSUME NEW S, NEW a \in Seq(S), NEW b \in Seq(S)
    PROVE  /\ a \o b \in Seq(S) /\ Len(a \o b) = Len(a) + Len(b)
           /\ \A i \in 1 .. Len(a) : (a \o b)[i] = a[i]
           /\ \A j \in 1 .. Len(b) : (a \o b)[Len(a) + j] = b[j]
  OBVIOUS

Others == {"vector", "error_code", "rip", "cs", "rflags"}

\* trap_frame_t, field by field.
LEMMA FieldsAre ==
    /\ Len(Fields) = 20 /\ DOMAIN Fields = 1 .. 20
    /\ \A p \in 1 .. 15 : Fields[p] = Pushed[16 - p]
    /\ Fields[16] = "vector" /\ Fields[17] = "error_code" /\ Fields[18] = "rip"
    /\ Fields[19] = "cs" /\ Fields[20] = "rflags"
  <1>1. PICK a : a = Reverse(Pushed)
    OBVIOUS
  <1>2. /\ a \in Seq(Registers \cup Others) /\ Len(a) = 15
        /\ \A p \in 1 .. 15 : a[p] = Pushed[16 - p]
    BY <1>1, ReversedIs
  <1>3. PICK b : b = <<"vector", "error_code", "rip", "cs", "rflags">>
    OBVIOUS
  <1>4. /\ b \in Seq(Registers \cup Others) /\ Len(b) = 5 /\ b[1] = "vector"
        /\ b[2] = "error_code" /\ b[3] = "rip" /\ b[4] = "cs" /\ b[5] = "rflags"
    BY <1>3 DEF Others
  <1>5. Fields = a \o b
    BY <1>1, <1>3 DEF Fields
  <1>6. /\ Fields \in Seq(Registers \cup Others) /\ Len(Fields) = Len(a) + Len(b)
        /\ \A i \in 1 .. Len(a) : Fields[i] = a[i]
        /\ \A j \in 1 .. Len(b) : Fields[Len(a) + j] = b[j]
    <2>1. PICK S : S = Registers \cup Others
      OBVIOUS
    <2>2. a \in Seq(S) /\ b \in Seq(S)
      BY <1>2, <1>4, <2>1
    <2>3. /\ a \o b \in Seq(S) /\ Len(a \o b) = Len(a) + Len(b)
          /\ \A i \in 1 .. Len(a) : (a \o b)[i] = a[i]
          /\ \A j \in 1 .. Len(b) : (a \o b)[Len(a) + j] = b[j]
      BY ONLY <2>2
    <2> QED BY <1>5, <2>1, <2>3
  <1>7. Len(Fields) = 20 /\ DOMAIN Fields = 1 .. 20
    BY <1>2, <1>4, <1>6
  <1>8. \A p \in 1 .. 15 : Fields[p] = Pushed[16 - p]
    BY <1>2, <1>6
  <1>9. \A j \in 1 .. 5 : Fields[15 + j] = b[j]
    BY <1>2, <1>4, <1>6
  <1> QED BY <1>4, <1>7, <1>8, <1>9

LEMMA FieldPlace ==
    ASSUME NEW name \in Registers \cup Others
    PROVE  \E k \in 1 .. 20 : Fields[k] = name
  <1>1. CASE name \in Registers
    <2>1. PICK j \in 1 .. 15 : Pushed[j] = name
      BY <1>1, PushedIs
    <2>2. PICK k \in 1 .. 15 : 16 - k = j
      <3>1. 16 - j \in 1 .. 15 /\ 16 - (16 - j) = j
        OBVIOUS
      <3> QED BY <3>1
    <2>3. Fields[k] = name /\ k \in 1 .. 20
      BY <2>1, <2>2, FieldsAre
    <2> QED BY <2>3
  <1>2. CASE name \in Others
    BY <1>2, FieldsAre DEF Others
  <1> QED BY <1>1, <1>2

\* The words a stack may hold.
Words ==
    {Junk} \cup {Mine(r) : r \in Registers \cup {"word"}}
      \cup {Word(f) : f \in {"ss", "rsp", "rflags", "cs", "rip", "error_code", "return"}}
      \cup {Number(n) : n \in Nat}

\* The words below a frame: the stack of the program, aligned.
Floor == IF depth % 2 = 0 THEN depth ELSE depth + 1

\* The words of the frame of vector v, as they are pushed.
FrameWord(v, i) ==
    IF i = 1 THEN Word("ss") ELSE IF i = 2 THEN Word("rsp")
    ELSE IF i = 3 THEN Word("rflags") ELSE IF i = 4 THEN Word("cs")
    ELSE IF i = 5 THEN Word("rip")
    ELSE IF i = 6 THEN IF v \in PushesError THEN Word("error_code") ELSE Number(0)
    ELSE IF i = 7 THEN Number(v)
    ELSE Mine(Pushed[i - 7])

\* n words of the frame of v are on the stack s, from f on, and end behind them.
Frame(s, f, v, n) ==
    /\ s \in Seq(Words) /\ Len(s) = f + n
    /\ \A i \in 1 .. n : s[f + i] = FrameWord(v, i)

Framed(n) == Frame(stack, Floor, vector, n)

Saved == reg = [r \in Registers |-> Mine(r)]

Printout ==
    IF vector = 14 THEN WithAddress(Interrupted)
    ELSE IF vector < 32 THEN Interrupted ELSE <<>>

TrapInv ==
    /\ depth \in Nat
    /\ pc \in {"running", "stub", "push", "call", "dispatch", "restore", "pop", "iretq",
               "returned", "stopped"}
    /\ pc # "running" => vector \in Vectors
    /\ pc \in {"running", "returned"} => stack = Before
    /\ pc \in {"running", "returned", "stub", "push", "call", "iretq"} => Saved
    /\ pc = "stub" => Framed(IF vector \in PushesError THEN 6 ELSE 5)
    /\ pc \in {"push", "iretq"} => Framed(7)
    /\ pc \in {"call", "restore", "pop"} => Framed(22)
    /\ pc = "dispatch" =>
         /\ rdi = Floor + 22
         /\ \E s : Frame(s, Floor, vector, 22) /\ stack = Append(s, Word("return"))
    /\ pc \in {"dispatch", "restore"} =>
         reg \in [Registers -> Words] /\ reg["rbx"] = Number(Floor + 22)
    /\ pc = "stopped" => printed = Printout

-----------------------------------------------------------------------------
(* Traps leave the state of the boot alone.                                *)

\* A trap is being handled in the shell, and nowhere else.
InShell == pc \notin {"running", "returned"} => at = "shell"

SettledInv == TablesInv /\ MapInv /\ LayInv /\ LoadInv /\ ProtectInv

\* A step that changes nothing that the boot has set up but the interrupt flag.
LEMMA Settled ==
    ASSUME SettledInv, UNCHANGED settled, interrupts' => interrupts \/ at = "shell"
    PROVE  SettledInv' /\ UNCHANGED writes
  <1>1. TablesInv'
    BY DEF SettledInv, TablesInv, settled, tables, kernel
  <1>2. MapInv'
    BY DEF SettledInv, MapInv, Storing, Collected, Stores, SlotAt, settled, loader,
           firmware, e820
  <1>3. LayInv'
    BY DEF SettledInv, LayInv, Laid, ReadInv, SectorsRead, settled, loader, firmware, e820,
           disk
  <1>4. LoadInv'
    BY DEF SettledInv, LoadInv, SectorsRead, settled, loader, firmware, disk
  <1>5. ProtectInv'
    BY DEF SettledInv, ProtectInv, settled, kernel
  <1> QED BY <1>1, <1>2, <1>3, <1>4, <1>5 DEF SettledInv, settled

LEMMA SettledInit == MachineInit => SettledInv /\ InShell
  BY TablesInit, MapInit, LayInit, LoadInit
     DEF MachineInit, SettledInv, InShell, Init, ProtectInv, BootInit

LEMMA SettledNext ==
    ASSUME SettledInv, InShell, [MachineNext]_machineVars
    PROVE  /\ SettledInv' /\ InShell'
           /\ UNCHANGED writes \/ \E r : Adds(r)
  <1>1. CASE booting
    <2>1. BootNext /\ UNCHANGED vars /\ pc \in {"running", "returned"}
      BY <1>1 DEF booting
    <2>2. TablesInv' /\ MapInv' /\ ProtectInv' /\ Lays
      BY <2>1, TablesNext, MapNext, ProtectNext, LayNext DEF SettledInv
    <2>3. LoadInv'
      BY <2>1, <2>2, LoadNext DEF SettledInv
    <2>4. LayInv' /\ (UNCHANGED writes \/ \E r : Adds(r))
      BY <2>2 DEF Lays
    <2>5. InShell'
      BY <2>1 DEF InShell, vars
    <2> QED BY <2>2, <2>3, <2>4, <2>5 DEF SettledInv
  <1>2. ASSUME NEW v \in Vectors, trap(v) PROVE SettledInv' /\ InShell' /\ UNCHANGED writes
    <2>1. UNCHANGED settled /\ ~interrupts' /\ at = "shell"
      BY <1>2 DEF trap
    <2>2. SettledInv' /\ UNCHANGED writes
      BY <2>1, Settled
    <2>3. InShell'
      BY <2>1 DEF InShell, settled
    <2> QED BY <2>2, <2>3
  <1>3. CASE handling
    <2>1. pc \notin {"running", "returned"}
      BY <1>3 DEF handling, isr_common, isr_stub, PUSH_REGS, call_trap_dispatch,
                  trap_dispatch, restore_rsp, POP_REGS, iretq
    <2>2. at = "shell" /\ UNCHANGED settled
      BY <1>3, <2>1 DEF handling, InShell
    <2>3. SettledInv' /\ UNCHANGED writes
      BY <2>2, Settled
    <2>4. InShell'
      BY <2>2 DEF InShell, settled
    <2> QED BY <2>3, <2>4
  <1>4. CASE UNCHANGED machineVars
    <2>1. UNCHANGED settled /\ interrupts' = interrupts /\ pc' = pc
      BY <1>4 DEF machineVars, bootVars, vars
    <2>2. SettledInv' /\ UNCHANGED writes
      BY <2>1, Settled
    <2>3. InShell'
      BY <2>1 DEF InShell, settled
    <2> QED BY <2>2, <2>3
  <1> QED BY <1>1, <1>2, <1>3, <1>4 DEF MachineNext

-----------------------------------------------------------------------------
(* What holds from power-on to the shell, whatever interrupts it.          *)

LEMMA BootInvariant == MachineSpec => [](SettledInv /\ InShell)
  <1>1. SettledInv /\ InShell /\ [MachineNext]_machineVars => (SettledInv /\ InShell)'
    BY SettledNext
  <1> QED BY <1>1, SettledInit, PTL DEF MachineSpec

\* Whenever interrupts are enabled, in real mode the BIOS's own table is in use,
\* and in long mode every vector leads to its stub (trap_init, idt_set_gate), the
\* task register finds the TSS (gdt_init), and the two sources that are unmasked
\* (pic_remap) have been set up.
THEOREM Interrupts == MachineSpec => []InterruptsReady
  <1>1. SettledInv => InterruptsReady
    BY TablesReady DEF SettledInv
  <1> QED BY <1>1, BootInvariant, PTL

\* The memory map that kernel_main is given is the one the firmware gave to
\* collect_e820_map, entry for entry, for every length, limit and way to end.
THEOREM MemoryMap == MachineSpec => []MapFaithful
  <1>1. SettledInv => MapFaithful
    BY MapIsFaithful DEF SettledInv
  <1> QED BY <1>1, BootInvariant, PTL

\* When the kernel starts, load_kernel has brought every sector of the image to
\* its place, for every size that fits and also where the low word of the sector
\* number overflows, and no read has left its segment.
THEOREM Image == MachineSpec => []LoadedWhole
  <1>1. SettledInv => LoadedWhole
    BY ImageLoaded DEF SettledInv
  <1> QED BY <1>1, BootInvariant, PTL

\* What pmm_init reserves covers everything the boot has written and the stack,
\* and setup_page_tables has mapped all memory that pmm_init may hand out.
THEOREM Memory == MachineSpec => []MemoryProtected
  <1>1. SettledInv => MemoryProtected
    BY Protected DEF SettledInv
  <1> QED BY <1>1, BootInvariant, PTL

\* The boot goes on at every place but where it has halted.
LEMMA Underway == BootNext => at \in Stage2Places \cup {"stage1"}
  <1>1. stage1 \/ stage2_start => at \in {"stage1", "stage2"}
    BY DEF stage1, stage2_start
  <1>2. e820_entry \/ e820_fails \/ e820_full => at = "e820"
    BY DEF e820_entry, e820_fails, e820_full
  <1>3. load_kernel \/ next_chunk \/ fill_boot_info => at \in {"load_kernel", "next_chunk"}
    <2>1. load_kernel => at = "load_kernel"
      BY DEF load_kernel
    <2>2. next_chunk => at = "next_chunk"
      BY DEF next_chunk, DiskRead, Stop
    <2>3. fill_boot_info => at = "next_chunk"
      BY DEF fill_boot_info
    <2> QED BY <2>1, <2>2, <2>3
  <1>4. protected_mode \/ setup_page_tables \/ long_mode_start
          => at \in {"protect", "page_tables", "long"}
    BY DEF protected_mode, setup_page_tables, long_mode_start
  <1>5. Load => at \in {"stage1", "stage2", "e820", "load_kernel", "next_chunk", "protect",
                        "page_tables", "long"}
    BY <1>1, <1>2, <1>3, <1>4 DEF Load
  <1>6. kernel_entry \/ console_init \/ gdt_init \/ trap_init
          => at \in {"entry", "console_init", "gdt_init", "trap_init"}
    <2>1. kernel_entry => at = "entry"
      BY DEF kernel_entry
    <2>2. console_init => at = "console_init"
      BY DEF console_init
    <2>3. gdt_init => at = "gdt_init"
      BY DEF gdt_init
    <2>4. trap_init => at = "trap_init"
      BY DEF trap_init
    <2> QED BY <2>1, <2>2, <2>3, <2>4
  <1>7. boot_init \/ keyboard_init \/ system_init_timer \/ heap_init
          => at \in {"boot_init", "keyboard_init", "system_init_timer", "heap_init"}
    BY DEF boot_init, keyboard_init, system_init_timer, heap_init, Calls
  <1>8. pmm_init \/ cpu_sti \/ shell_returns => at \in {"pmm_init", "sti", "shell"}
    BY DEF pmm_init, cpu_sti, shell_returns
  <1>9. kernel_main \/ shell_returns
          => at \in {"entry", "console_init", "gdt_init", "trap_init", "boot_init",
                     "keyboard_init", "system_init_timer", "heap_init", "pmm_init", "sti",
                     "shell"}
    BY <1>6, <1>7, <1>8 DEF kernel_main
  <1> QED
    BY <1>5, <1>9 DEF BootNext, Stage2Places, MapPlaces, ImagePlaces, InfoPlaces, PagePlaces,
                      BssPlaces, ScreenPlaces, GatePlaces, KeyboardPlaces, TimerPlaces

\* Only the boot writes.
LEMMA Quiet ==
    ASSUME [MachineNext]_machineVars, Len(writes') > Len(writes), writes \in Seq(Written)
    PROVE  BootNext
  <1>1. SUFFICES ASSUME writes' = writes PROVE FALSE
    BY DEF MachineNext, booting, trap, handling, machineVars, bootVars, settled
  <1>2. Len(writes) > Len(writes) /\ Len(writes) \in Nat
    BY <1>1
  <1> QED BY <1>2

\* Nothing the boot writes overwrites what it wrote before, nor the stack and the
\* loader that are in use.
THEOREM Placement == MachineSpec => WritesHarmless
  <1>1. ASSUME SettledInv, InShell, [MachineNext]_machineVars, Len(writes') > Len(writes)
        PROVE  \A region \in Range(writes) \cup InUse : Disjoint(Last(writes'), region)
    <2>1. writes \in Seq(Written) /\ (at = "stage1" => writes = <<>>)
      BY <1>1 DEF SettledInv, LayInv
    <2>2. PICK r : Adds(r)
      BY <1>1, <2>1, SettledNext
    <2>3. Last(writes') = r
      BY <2>1, <2>2 DEF Adds, Last
    <2>4. \A u \in InUse : Disjoint(r, u)
      BY <2>2 DEF Adds
    <2>5. ASSUME NEW w \in Range(writes) PROVE Disjoint(r, w)
      <3>1. PICK i \in DOMAIN writes : w = writes[i]
        BY <2>5 DEF Range
      <3>2. w \in Written
        BY <2>1, <3>1
      <3>3. at \in Stage2Places
        <4>1. BootNext
          BY <1>1, <2>1, Quiet
        <4>2. at # "stage1"
          BY <2>1, <3>1
        <4> QED BY <4>1, <4>2, Underway
      <3>4. Laid(w)
        BY <1>1, <3>1, <3>3 DEF SettledInv, LayInv
      <3> QED BY <2>2, <3>2, <3>4 DEF Adds
    <2> QED BY <2>3, <2>4, <2>5
  <1>2. SettledInv /\ InShell /\ [MachineNext]_machineVars
          => [Len(writes') > Len(writes) =>
                \A region \in Range(writes) \cup InUse :
                  Disjoint(Last(writes'), region)]_bootVars
    BY <1>1
  <1> QED BY <1>2, BootInvariant, PTL DEF MachineSpec, WritesHarmless

-----------------------------------------------------------------------------
(* A trap, step by step.  29 is left out: its stub pushes an error code on *)
(* top of the processor's.                                                 *)

Known == 29 \notin Vectors /\ TrapInv

LEMMA TrapInit == MachineInit => TrapInv
  BY TrapAssumption DEF MachineInit, BootInit, Init, TrapInv, Saved

\* The words below the frame, as the processor finds and aligns them.
LEMMA FloorIs ==
    ASSUME depth \in Nat, stack = Before
    PROVE  /\ Floor \in Nat /\ Floor % 2 = 0
           /\ Aligned(stack) \in Seq(Words) /\ Len(Aligned(stack)) = Floor
  <1>1. Mine("word") \in Words /\ Junk \in Words
    BY DEF Words
  <1>2. stack \in Seq(Words) /\ Len(stack) = depth
    BY <1>1 DEF Before
  <1>3. Floor \in Nat /\ Floor % 2 = 0
    BY DEF Floor
  <1>4. Aligned(stack) \in Seq(Words) /\ Len(Aligned(stack)) = Floor
    BY <1>1, <1>2 DEF Aligned, Floor
  <1> QED BY <1>3, <1>4

\* The m words t are the next of the frame of v, behind n of them.
Continues(t, v, n, m) ==
    t \in Seq(Words) /\ Len(t) = m /\ \A j \in 1 .. m : t[j] = FrameWord(v, n + j)

\* The next m words of a frame are pushed.
LEMMA Pushes ==
    ASSUME NEW s, NEW f \in Nat, NEW v, NEW n \in Nat, Frame(s, f, v, n),
           NEW t, NEW m \in Nat, Continues(t, v, n, m)
    PROVE  \A k \in Nat : k = n + m => Frame(s \o t, f, v, k)
  <1> SUFFICES ASSUME NEW k \in Nat, k = n + m PROVE Frame(s \o t, f, v, k)
    OBVIOUS
  <1>1. /\ s \in Seq(Words) /\ Len(s) = f + n
        /\ t \in Seq(Words) /\ Len(t) = m
        /\ \A j \in 1 .. m : t[j] = FrameWord(v, n + j)
    BY DEF Frame, Continues
  <1>2. /\ s \o t \in Seq(Words) /\ Len(s \o t) = Len(s) + Len(t)
        /\ \A i \in 1 .. Len(s) : (s \o t)[i] = s[i]
        /\ \A j \in 1 .. Len(t) : (s \o t)[Len(s) + j] = t[j]
    <2>1. s \in Seq(Words) /\ t \in Seq(Words)
      BY <1>1
    <2> QED BY ONLY <2>1
  <1>3. ASSUME NEW i \in 1 .. k PROVE (s \o t)[f + i] = FrameWord(v, i)
    <2>1. CASE i <= n
      <3>1. f + i \in 1 .. Len(s) /\ i \in 1 .. n
        BY <1>1, <2>1
      <3> QED BY <1>2, <3>1 DEF Frame
    <2>2. CASE ~(i <= n)
      <3>1. PICK j \in 1 .. m : i = n + j
        <4>1. i - n \in 1 .. m /\ i = n + (i - n)
          BY <2>2
        <4> QED BY <4>1
      <3>2. f + i = Len(s) + j
        BY <1>1, <3>1
      <3>3. (s \o t)[Len(s) + j] = FrameWord(v, n + j)
        BY <1>1, <1>2, <3>1
      <3> QED BY <3>1, <3>2, <3>3
    <2> QED BY <2>1, <2>2
  <1> QED BY <1>1, <1>2, <1>3 DEF Frame

\* All but the first m words of a frame are popped.
LEMMA Pops ==
    ASSUME NEW s, NEW f \in Nat, NEW v, NEW n \in Nat, Frame(s, f, v, n),
           NEW m \in 0 .. n
    PROVE  \A k \in Nat : k = f + m => Frame(SubSeq(s, 1, k), f, v, m)
  <1> SUFFICES ASSUME NEW k \in Nat, k = f + m PROVE Frame(SubSeq(s, 1, k), f, v, m)
    OBVIOUS
  <1>1. s \in Seq(Words) /\ Len(s) = f + n
    BY DEF Frame
  <1>2. k <= Len(s) /\ k \in 0 .. Len(s)
    BY <1>1
  <1>3. /\ SubSeq(s, 1, k) \in Seq(Words) /\ Len(SubSeq(s, 1, k)) = k
        /\ \A i \in 1 .. k : SubSeq(s, 1, k)[i] = s[i]
    BY <1>1, <1>2
  <1>4. ASSUME NEW i \in 1 .. m PROVE SubSeq(s, 1, k)[f + i] = FrameWord(v, i)
    <2>1. f + i \in 1 .. k /\ i \in 1 .. n
      OBVIOUS
    <2> QED BY <1>3, <2>1 DEF Frame
  <1> QED BY <1>3, <1>4 DEF Frame

LEMMA WordsAre ==
    /\ \A f \in {"ss", "rsp", "rflags", "cs", "rip", "error_code", "return"} : Word(f) \in Words
    /\ \A n \in Nat : Number(n) \in Words
    /\ \A r \in Registers : Mine(r) \in Words
    /\ Junk \in Words
  BY DEF Words

\* What iretq is to find, as the processor pushes it.
FiveWords == << Word("ss"), Word("rsp"), Word("rflags"), Word("cs"), Word("rip") >>

LEMMA FiveAre ==
    /\ FiveWords \in Seq(Words) /\ Len(FiveWords) = 5
    /\ \A v : \A j \in 1 .. 5 : FiveWords[j] = FrameWord(v, j)
  <1>1. FiveWords \in Seq(Words) /\ Len(FiveWords) = 5
    BY WordsAre DEF FiveWords
  <1>2. ASSUME NEW v, NEW j \in 1 .. 5 PROVE FiveWords[j] = FrameWord(v, j)
    <2>1. j = 1 \/ j = 2 \/ j = 3 \/ j = 4 \/ j = 5
      OBVIOUS
    <2> QED BY <2>1 DEF FiveWords, FrameWord
  <1> QED BY <1>1, <1>2

\* Of the vectors that may be raised, the stubs know which push an error code.
LEMMA StubsKnow == ASSUME Known, NEW v \in Vectors PROVE v \in PushesError <=> v \in ISR_ERR
  BY DEF Known, PushesError, ISR_ERR

LEMMA TrapTaken ==
    ASSUME Known, SettledInv, NEW v \in Vectors, trap(v)
    PROVE  TrapInv'
  <1>1. cpu_trap(v)
    <2>1. at = "shell" /\ at \in GatePlaces /\ TablesInv /\ v \in 0 .. 47
      BY TrapAssumption DEF trap, GatePlaces, KeyboardPlaces, TimerPlaces, SettledInv
    <2>2. Reaches(v)
      BY <2>1, GatesReach
    <2> QED BY <2>2 DEF trap
  <1>2. /\ pc = "running" /\ pc' = "stub" /\ vector' = v /\ depth' = depth /\ reg' = reg
        /\ depth \in Nat /\ stack = Before /\ Saved
    BY <1>1 DEF cpu_trap, Known, TrapInv
  <1>3. PICK f \in Nat : f = Floor /\ f = Floor'
    BY <1>2, FloorIs DEF Floor
  <1>4. PICK s : s = Aligned(stack)
    OBVIOUS
  <1>5. Frame(s, f, v, 0)
    <2>1. s \in Seq(Words) /\ Len(s) = f
      BY <1>2, <1>3, <1>4, FloorIs
    <2> QED BY <2>1 DEF Frame
  <1>6. PICK t : t = FiveWords
    OBVIOUS
  <1>7. Continues(t, v, 0, 5)
    <2>1. \A j \in 1 .. 5 : 0 + j = j
      OBVIOUS
    <2> QED BY <1>6, <2>1, FiveAre DEF Continues
  <1>8. Frame(s \o t, f, v, 5)
    <2>1. 0 \in Nat /\ 5 \in Nat /\ 5 = 0 + 5
      OBVIOUS
    <2> QED BY <1>5, <1>7, <2>1, Pushes
  <1>9. PICK s5 : s5 = s \o t
    OBVIOUS
  <1>10. PICK u : u = IF v \in PushesError THEN << Word("error_code") >> ELSE <<>>
    OBVIOUS
  <1>11. PICK n \in Nat : n = IF v \in PushesError THEN 6 ELSE 5
    OBVIOUS
  <1>12. Frame(s5 \o u, f, v, n)
    <2> Frame(s5, f, v, 5)
      BY <1>8, <1>9
    <2>1. CASE v \in PushesError
      <3>1. Continues(u, v, 5, 1)
        BY <1>10, <2>1, WordsAre DEF FrameWord, Continues
      <3>2. Frame(s5 \o u, f, v, 6)
        BY <3>1, Pushes
      <3> QED BY <1>11, <2>1, <3>2
    <2>2. CASE v \notin PushesError
      <3>1. Continues(u, v, 5, 0)
        BY <1>10, <2>2 DEF Continues
      <3>2. Frame(s5 \o u, f, v, 5)
        BY <3>1, Pushes
      <3> QED BY <1>11, <2>2, <3>2
    <2> QED BY <2>1, <2>2
  <1>13. stack' = s5 \o u
    BY <1>1, <1>4, <1>6, <1>9, <1>10 DEF cpu_trap, FiveWords
  <1>14. Framed(IF vector \in PushesError THEN 6 ELSE 5)'
    BY <1>2, <1>3, <1>11, <1>12, <1>13 DEF Framed
  <1> QED BY <1>2, <1>14 DEF TrapInv, Saved

LEMMA TrapStub ==
    ASSUME Known, isr_stub
    PROVE  TrapInv'
  <1>1. /\ pc = "stub" /\ pc' = "push" /\ vector' = vector /\ depth' = depth /\ reg' = reg
        /\ depth \in Nat /\ Saved /\ vector \in Vectors
        /\ Framed(IF vector \in PushesError THEN 6 ELSE 5)
    BY DEF isr_stub, Known, TrapInv
  <1>2. PICK f \in Nat : f = Floor /\ f = Floor'
    BY <1>1 DEF Floor
  <1>3. vector \in Nat /\ (vector \in PushesError <=> vector \in ISR_ERR)
    BY <1>1, TrapAssumption, StubsKnow
  <1>4. PICK s : s = stack
    OBVIOUS
  <1>5. Framed(7)'
    <2>1. CASE vector \in PushesError
      <3>1. Frame(s, f, vector, 6)
        BY <1>1, <1>2, <1>4, <2>1 DEF Framed
      <3>2. PICK t : t = << Number(vector) >>
        OBVIOUS
      <3>3. Continues(t, vector, 6, 1)
        BY <1>3, <3>2, WordsAre DEF FrameWord, Continues
      <3>4. Frame(s \o t, f, vector, 7)
        BY <3>1, <3>3, Pushes
      <3>5. stack' = s \o t
        <4>1. s \in Seq(Words)
          BY <3>1 DEF Frame
        <4>2. s \o <<>> = s
          BY <4>1
        <4> QED BY <1>3, <1>4, <2>1, <3>2, <4>2 DEF isr_stub
      <3> QED BY <1>1, <1>2, <3>4, <3>5 DEF Framed
    <2>2. CASE vector \notin PushesError
      <3>1. Frame(s, f, vector, 5)
        BY <1>1, <1>2, <1>4, <2>2 DEF Framed
      <3>2. PICK z, t : z = << Number(0) >> /\ t = << Number(vector) >>
        OBVIOUS
      <3>3. Continues(z, vector, 5, 1)
        BY <1>3, <2>2, <3>2, WordsAre DEF FrameWord, Continues
      <3>4. Frame(s \o z, f, vector, 6)
        BY <3>1, <3>3, Pushes
      <3>5. PICK s6 : s6 = s \o z
        OBVIOUS
      <3>6. Continues(t, vector, 6, 1)
        BY <1>3, <3>2, WordsAre DEF FrameWord, Continues
      <3>7. Frame(s6 \o t, f, vector, 7)
        <4>1. Frame(s6, f, vector, 6)
          BY <3>4, <3>5
        <4> QED BY <3>6, <4>1, Pushes
      <3>8. stack' = s6 \o t
        BY <1>3, <1>4, <2>2, <3>2, <3>5 DEF isr_stub
      <3> QED BY <1>1, <1>2, <3>7, <3>8 DEF Framed
    <2> QED BY <2>1, <2>2
  <1> QED BY <1>1, <1>5 DEF TrapInv, Saved

LEMMA TrapPush ==
    ASSUME Known, PUSH_REGS
    PROVE  TrapInv'
  <1>1. /\ pc = "push" /\ pc' = "call" /\ vector' = vector /\ depth' = depth /\ reg' = reg
        /\ depth \in Nat /\ Saved /\ vector \in Vectors /\ Framed(7)
    BY DEF PUSH_REGS, Known, TrapInv
  <1>2. PICK f \in Nat : f = Floor /\ f = Floor'
    BY <1>1 DEF Floor
  <1>3. PICK t : t = [k \in DOMAIN Pushed |-> reg[Pushed[k]]]
    OBVIOUS
  <1>4. DOMAIN t = 1 .. 15 /\ \A k \in 1 .. 15 : t[k] = Mine(Pushed[k]) /\ t[k] \in Words
    <2>1. DOMAIN Pushed = 1 .. 15 /\ \A k \in 1 .. 15 : Pushed[k] \in Registers
      <3>1. DOMAIN Pushed = 1 .. 15
        BY PushedIs
      <3>2. \A k \in DOMAIN Pushed : Pushed[k] \in Registers
        BY DEF Registers, Range
      <3> QED BY <3>1, <3>2
    <2>2. \A r \in Registers : reg[r] = Mine(r) /\ Mine(r) \in Words
      BY <1>1, WordsAre DEF Saved
    <2> QED BY <1>3, <2>1, <2>2
  <1>5. t \in Seq(Words) /\ Len(t) = 15
    BY <1>3, <1>4
  <1>6. ASSUME NEW j \in 1 .. 15 PROVE t[j] = FrameWord(vector, 7 + j)
    <2>1. (7 + j) - 7 = j /\ ~(7 + j = 1) /\ ~(7 + j = 2) /\ ~(7 + j = 3) /\ ~(7 + j = 4)
          /\ ~(7 + j = 5) /\ ~(7 + j = 6) /\ ~(7 + j = 7)
      OBVIOUS
    <2> QED BY <1>4, <2>1 DEF FrameWord
  <1>7. PICK s : s = stack
    OBVIOUS
  <1>8. Frame(s, f, vector, 7)
    BY <1>1, <1>2, <1>7 DEF Framed
  <1>9. Frame(s \o t, f, vector, 22)
    <2>1. Continues(t, vector, 7, 15)
      BY <1>5, <1>6 DEF Continues
    <2> QED BY <1>8, <2>1, Pushes
  <1>10. Framed(22)'
    BY <1>1, <1>2, <1>3, <1>7, <1>9 DEF Framed, PUSH_REGS
  <1> QED BY <1>1, <1>10 DEF TrapInv, Saved

LEMMA FloorEven ==
    ASSUME depth \in Nat
    PROVE  Floor \in Nat /\ (Floor + 22) % 2 = 0 /\ (Floor + 23) % 2 = 1
  BY DEF Floor

LEMMA TrapCall ==
    ASSUME Known, call_trap_dispatch
    PROVE  TrapInv'
  <1>1. /\ pc = "call" /\ pc' = "dispatch" /\ vector' = vector /\ depth' = depth
        /\ depth \in Nat /\ Saved /\ vector \in Vectors /\ Framed(22)
    BY DEF call_trap_dispatch, Known, TrapInv
  <1>2. PICK f \in Nat : f = Floor /\ f = Floor' /\ (f + 22) % 2 = 0
    BY <1>1, FloorEven DEF Floor
  <1>3. Frame(stack, f, vector, 22) /\ Len(stack) = f + 22
    BY <1>1, <1>2 DEF Framed, Frame
  <1>4. stack' = Append(stack, Word("return")) /\ rdi' = f + 22
    BY <1>2, <1>3 DEF call_trap_dispatch, and_rsp, Aligned
  <1>5. reg' \in [Registers -> Words] /\ reg'["rbx"] = Number(f + 22)
    <2>1. PICK n \in Nat : n = f + 22
      <3>1. f + 22 \in Nat
        OBVIOUS
      <3> QED BY <3>1
    <2>2. reg' = [reg EXCEPT !["rdi"] = Number(n), !["rbx"] = Number(n)]
      BY <1>3, <2>1 DEF call_trap_dispatch
    <2>3. reg \in [Registers -> Words] /\ Number(n) \in Words /\ "rbx" \in Registers
      BY <1>1, WordsAre, RegistersAre DEF Saved
    <2>4. reg' \in [Registers -> Words] /\ reg'["rbx"] = Number(n)
      BY <2>2, <2>3
    <2> QED BY <2>1, <2>4
  <1>6. (\E s : Frame(s, Floor, vector, 22) /\ stack = Append(s, Word("return")))'
    BY <1>1, <1>2, <1>3, <1>4
  <1> QED BY <1>1, <1>2, <1>4, <1>5, <1>6 DEF TrapInv

\* The stack while trap_dispatch runs.
Dispatching ==
    /\ depth \in Nat /\ rdi = Floor + 22
    /\ \E s : Frame(s, Floor, vector, 22) /\ stack = Append(s, Word("return"))

\* Each field of trap_frame_t lies over the word that it is for.
LEMMA FieldIs ==
    ASSUME Dispatching, NEW name \in Registers \cup Others
    PROVE  Field(name) = Interrupted[name]
  <1>1. PICK f \in Nat : f = Floor /\ rdi = f + 22
    BY FloorEven DEF Dispatching
  <1>2. PICK s : Frame(s, f, vector, 22) /\ stack = Append(s, Word("return"))
    BY <1>1 DEF Dispatching
  <1>3. PICK k \in 1 .. 20 : Fields[k] = name
    BY FieldPlace
  <1>4. PICK p \in 1 .. 20 : p = Place(Fields, name) /\ Fields[p] = name
    <2>1. PICK n \in Nat : n = 20 /\ Len(Fields) = n /\ k \in 1 .. n
      BY <1>3, FieldsAre
    <2>2. PICK q : q = Place(Fields, name)
      OBVIOUS
    <2>3. q \in 1 .. n /\ Fields[q] = name
      BY <1>3, <2>1, <2>2, PlaceIs
    <2> QED BY <2>1, <2>2, <2>3
  <1>5. PICK i \in 1 .. 22 : i = 23 - p
    BY <1>4
  <1>6. Field(name) = FrameWord(vector, i)
    <2>1. Field(name) = stack[(f + 22 + 1) - p]
      <3>1. Field(name) = stack[rdi + 1 - Place(Fields, name)]
        BY DEF Field, Place, SelectInSeq
      <3> QED BY <1>1, <1>4, <3>1
    <2>2. (f + 22 + 1) - p = f + i
      BY <1>5
    <2>3. s \in Seq(Words) /\ Len(s) = f + 22 /\ s[f + i] = FrameWord(vector, i)
      BY <1>2 DEF Frame
    <2>4. f + i \in 1 .. Len(s)
      BY <2>3
    <2>5. stack[f + i] = s[f + i]
      BY <1>2, <2>3, <2>4
    <2> QED BY <2>1, <2>2, <2>3, <2>5
  <1>7. CASE p <= 15
    <2>1. PICK j \in 1 .. 15 : j = 16 - p
      BY <1>7
    <2>2. i = j + 7 /\ i - 7 = j /\ i > 7
      BY <1>5, <2>1
    <2>3. FrameWord(vector, i) = Mine(Pushed[j])
      BY <2>2 DEF FrameWord
    <2>4. name = Pushed[j]
      BY <1>4, <1>7, <2>1, FieldsAre
    <2>5. name \in Registers
      BY <2>1, <2>4, PushedIs DEF Registers, Range
    <2>6. Interrupted[name] = Mine(name)
      <3>1. name \notin {"vector", "error_code", "rip", "cs", "rflags"}
        BY <2>5, RegistersAre
      <3> QED BY <2>5, <3>1 DEF Interrupted
    <2> QED BY <1>6, <2>3, <2>4, <2>6
  <1>8. CASE ~(p <= 15)
    <2>1. /\ p = 16 => i = 7 /\ name = "vector"
          /\ p = 17 => i = 6 /\ name = "error_code"
          /\ p = 18 => i = 5 /\ name = "rip"
          /\ p = 19 => i = 4 /\ name = "cs"
          /\ p = 20 => i = 3 /\ name = "rflags"
      BY <1>4, <1>5, FieldsAre
    <2>2. p = 16 \/ p = 17 \/ p = 18 \/ p = 19 \/ p = 20
      BY <1>8
    <2>3. name \notin Registers
      BY <2>1, <2>2, RegistersAre
    <2> QED BY <1>6, <2>1, <2>2, <2>3 DEF FrameWord, Interrupted
  <1> QED BY <1>7, <1>8

LEMMA FieldNames == Range(Fields) = Registers \cup Others
  <1>1. ASSUME NEW k \in 1 .. 20 PROVE Fields[k] \in Registers \cup Others
    <2>1. CASE k <= 15
      <3>1. PICK j \in 1 .. 15 : 16 - k = j
        BY <2>1
      <3>2. Pushed[j] \in Registers
        BY PushedIs DEF Registers, Range
      <3>3. Fields[k] = Pushed[j]
        BY <2>1, <3>1, FieldsAre
      <3> QED BY <3>2, <3>3
    <2>2. CASE ~(k <= 15)
      <3>1. k = 16 \/ k = 17 \/ k = 18 \/ k = 19 \/ k = 20
        BY <2>2
      <3> QED BY <3>1, FieldsAre DEF Others
    <2> QED BY <2>1, <2>2
  <1>2. ASSUME NEW name \in Registers \cup Others PROVE \E k \in 1 .. 20 : Fields[k] = name
    BY FieldPlace
  <1>3. DOMAIN Fields = 1 .. 20
    BY FieldsAre
  <1> QED BY <1>1, <1>2, <1>3 DEF Range

LEMMA NumbersDiffer == \A m, n : Number(m) = Number(n) => m = n
  BY DEF Number

\* What trap_dispatch prints for an exception.
LEMMA DumpIs ==
    ASSUME Dispatching
    PROVE  dump_frame = IF vector = 14 THEN WithAddress(Interrupted) ELSE Interrupted
  <1>1. PICK frame : frame = [f \in Range(Fields) |-> Field(f)]
    OBVIOUS
  <1>2. frame = [f \in Registers \cup Others |-> Interrupted[f]]
    <2>1. \A f \in Registers \cup Others : Field(f) = Interrupted[f]
      BY FieldIs
    <2> QED BY <1>1, <2>1, FieldNames
  <1>3. Interrupted = [f \in Registers \cup Others |-> Interrupted[f]]
    BY DEF Interrupted, Others
  <1>4. Field("vector") = Number(vector)
    <2>1. "vector" \in Registers \cup Others /\ Interrupted["vector"] = Number(vector)
      BY RegistersAre DEF Others, Interrupted
    <2> QED BY <2>1, FieldIs
  <1>5. Field("vector") = Number(14) <=> vector = 14
    BY <1>4, NumbersDiffer
  <1>6. dump_frame = IF Field("vector") = Number(14) THEN WithAddress(frame) ELSE frame
    BY <1>1, Zenon DEF dump_frame
  <1>7. frame = Interrupted
    BY <1>2, <1>3
  <1> QED BY <1>5, <1>6, <1>7

LEMMA TrapDispatch ==
    ASSUME Known, trap_dispatch
    PROVE  TrapInv'
  <1>1. /\ pc = "dispatch" /\ vector' = vector /\ depth' = depth
        /\ depth \in Nat /\ vector \in Vectors /\ Dispatching
        /\ reg \in [Registers -> Words] /\ reg["rbx"] = Number(Floor + 22)
    BY DEF trap_dispatch, Known, TrapInv, Dispatching
  <1>2. PICK f \in Nat : f = Floor /\ f = Floor'
    BY <1>1 DEF Floor
  <1>3. vector \in Nat /\ (vector < 32 <=> vector \in 0 .. 31)
    BY <1>1, TrapAssumption
  <1>4. Field("vector") = Number(vector)
    <2>1. "vector" \in Registers \cup Others /\ Interrupted["vector"] = Number(vector)
      BY RegistersAre DEF Others, Interrupted
    <2> QED BY <1>1, <2>1, FieldIs
  <1>5. CASE vector \in {32, 33, 39}
    <2>1. pc' = "restore" /\ stack' = Popped(1)
      BY <1>4, <1>5 DEF trap_dispatch
    <2>2. PICK s : Frame(s, f, vector, 22) /\ stack = Append(s, Word("return"))
      BY <1>1, <1>2 DEF Dispatching
    <2>3. stack' = s
      <3>1. s \in Seq(Words)
        BY <2>2 DEF Frame
      <3> QED BY <2>1, <2>2, <3>1 DEF Popped
    <2>4. Framed(22)'
      BY <1>1, <1>2, <2>2, <2>3 DEF Framed
    <2>5. reg' \in [Registers -> Words] /\ reg'["rbx"] = reg["rbx"]
      <3>1. "rbx" \in Registers /\ "rbx" \notin CallerSaved /\ Junk \in Words
        BY RegistersAre, WordsAre DEF CallerSaved
      <3> QED BY <1>1, <3>1 DEF trap_dispatch
    <2> QED BY <1>1, <1>2, <2>1, <2>4, <2>5 DEF TrapInv
  <1>6. CASE vector \notin {32, 33, 39}
    <2>1. pc' = "stopped"
      <3>1. Number(vector) \notin {Number(v) : v \in {32, 33, 39}}
        BY <1>6, NumbersDiffer
      <3> QED BY <1>4, <3>1 DEF trap_dispatch
    <2>2. printed' = IF vector < 32 THEN dump_frame ELSE <<>>
      <3>1. Number(vector) \in {Number(v) : v \in 0 .. 31} <=> vector \in 0 .. 31
        BY NumbersDiffer
      <3> QED BY <1>3, <1>4, <3>1 DEF trap_dispatch
    <2>3. Interrupted' = Interrupted
      BY <1>1 DEF Interrupted
    <2>4. printed' = Printout'
      <3>1. dump_frame = IF vector = 14 THEN WithAddress(Interrupted) ELSE Interrupted
        BY <1>1, DumpIs
      <3>2. Printout' = IF vector = 14 THEN WithAddress(Interrupted)
                        ELSE IF vector < 32 THEN Interrupted ELSE <<>>
        BY <1>1, <2>3 DEF Printout, WithAddress
      <3>3. CASE vector = 14
        <4>1. vector < 32
          BY <1>3, <3>3
        <4> QED BY <2>2, <3>1, <3>2, <3>3, <4>1
      <3>4. CASE vector # 14 /\ vector < 32
        BY <2>2, <3>1, <3>2, <3>4
      <3>5. CASE vector # 14 /\ ~(vector < 32)
        BY <2>2, <3>2, <3>5
      <3> QED BY <3>3, <3>4, <3>5
    <2> QED BY <1>1, <2>1, <2>4 DEF TrapInv
  <1> QED BY <1>5, <1>6

LEMMA TrapRestore ==
    ASSUME Known, restore_rsp
    PROVE  TrapInv'
  <1>1. /\ pc = "restore" /\ pc' = "pop" /\ vector' = vector /\ depth' = depth
        /\ depth \in Nat /\ vector \in Vectors /\ Framed(22)
        /\ reg["rbx"] = Number(Floor + 22)
    BY DEF restore_rsp, Known, TrapInv
  <1>2. PICK f \in Nat : f = Floor /\ f = Floor'
    BY <1>1 DEF Floor
  <1>3. reg["rbx"][2] = f + 22
    BY <1>1, <1>2 DEF Number
  <1>4. Frame(stack, f, vector, 22)
    BY <1>1, <1>2 DEF Framed
  <1>5. stack' = stack
    <2>1. stack \in Seq(Words) /\ Len(stack) = f + 22
      BY <1>4 DEF Frame
    <2> QED BY <1>3, <2>1 DEF restore_rsp
  <1>6. Framed(22)'
    BY <1>1, <1>2, <1>4, <1>5 DEF Framed
  <1> QED BY <1>1, <1>6 DEF TrapInv

LEMMA TrapPop ==
    ASSUME Known, POP_REGS
    PROVE  TrapInv'
  <1>1. /\ pc = "pop" /\ pc' = "iretq" /\ vector' = vector /\ depth' = depth
        /\ depth \in Nat /\ vector \in Vectors /\ Framed(22)
    BY DEF POP_REGS, Known, TrapInv
  <1>2. PICK f \in Nat : f = Floor /\ f = Floor'
    BY <1>1 DEF Floor
  <1>3. Frame(stack, f, vector, 22) /\ Len(stack) = f + 22
    BY <1>1, <1>2 DEF Framed, Frame
  <1>4. ASSUME NEW r \in Registers PROVE stack[Len(stack) + 1 - Place(PopOrder, r)] = Mine(r)
    <2>1. PICK n \in Nat : n = 15 /\ Len(PopOrder) = n
      BY ReversedIs DEF PopOrder
    <2>2. PICK j \in 1 .. 15 : Pushed[j] = r
      BY PushedIs
    <2>3. PICK k \in 1 .. n : 16 - k = j
      <3>1. 16 - j \in 1 .. 15 /\ 16 - (16 - j) = j
        OBVIOUS
      <3> QED BY <2>1, <3>1
    <2>4. PopOrder[k] = r
      BY <2>1, <2>2, <2>3, ReversedIs DEF PopOrder
    <2>5. PICK p \in 1 .. n : p = Place(PopOrder, r) /\ PopOrder[p] = r
      <3>1. Place(PopOrder, r) \in 1 .. n /\ PopOrder[Place(PopOrder, r)] = r
        BY <2>1, <2>3, <2>4, PlaceIs
      <3> QED BY <3>1
    <2>6. PICK i \in 1 .. 22 : i = 23 - p /\ i > 7 /\ i - 7 = 16 - p
      BY <2>1, <2>5
    <2>7. Len(stack) + 1 - p = f + i
      BY <1>3, <2>6
    <2>8. stack[f + i] = FrameWord(vector, i)
      BY <1>3 DEF Frame
    <2>9. FrameWord(vector, i) = Mine(Pushed[16 - p])
      BY <2>6 DEF FrameWord
    <2>10. r = Pushed[16 - p]
      BY <2>1, <2>5, ReversedIs DEF PopOrder
    <2> QED BY <2>5, <2>7, <2>8, <2>9, <2>10
  <1>5. reg' = [r \in Registers |-> stack[Len(stack) + 1 - Place(PopOrder, r)]]
    BY DEF POP_REGS, Place, SelectInSeq
  <1>6. Saved'
    BY <1>4, <1>5 DEF Saved
  <1>7. Framed(7)'
    <2>1. PICK k \in Nat : k = f + 7
      <3>1. f + 7 \in Nat
        OBVIOUS
      <3> QED BY <3>1
    <2>2. Frame(SubSeq(stack, 1, k), f, vector, 7)
      BY <1>3, <2>1, Pops
    <2>3. stack' = SubSeq(stack, 1, k)
      BY <1>3, <2>1, PushedIs DEF POP_REGS, Popped
    <2> QED BY <1>1, <1>2, <2>2, <2>3 DEF Framed
  <1> QED BY <1>1, <1>6, <1>7 DEF TrapInv

LEMMA TrapReturn ==
    ASSUME Known, iretq
    PROVE  TrapInv'
  <1>1. /\ pc = "iretq" /\ vector' = vector /\ depth' = depth /\ reg' = reg
        /\ depth \in Nat /\ vector \in Vectors /\ Saved /\ Framed(7)
    BY DEF iretq, Known, TrapInv
  <1>2. PICK f \in Nat : f = Floor
    BY <1>1 DEF Floor
  <1>3. /\ stack \in Seq(Words) /\ Len(stack) = f + 7
        /\ \A i \in 1 .. 7 : stack[f + i] = FrameWord(vector, i)
    BY <1>1, <1>2 DEF Framed, Frame
  <1>4. SubSeq(stack, Len(stack) - 6, Len(stack) - 2) = FiveWords
    <2>1. Len(stack) - 6 = f + 1 /\ Len(stack) - 2 = f + 5
      BY <1>3
    <2>2. PICK found : found = SubSeq(stack, f + 1, f + 5)
      OBVIOUS
    <2>3. found \in Seq(Words) /\ Len(found) = 5
      BY <1>3, <2>2
    <2>4. ASSUME NEW j \in 1 .. 5 PROVE found[j] = FiveWords[j]
      <3>1. found[j] = stack[f + j]
        BY <1>3, <2>2
      <3>2. stack[f + j] = FrameWord(vector, j)
        BY <1>3
      <3> QED BY <3>1, <3>2, FiveAre
    <2>5. found = FiveWords
      <3>1. FiveWords \in Seq(Words) /\ Len(FiveWords) = 5
        BY FiveAre
      <3> QED BY <2>3, <2>4, <3>1
    <2> QED BY <2>1, <2>2, <2>5
  <1>5. pc' = "returned" /\ stack' = Before
    BY <1>4 DEF iretq, FiveWords
  <1>6. Before' = Before
    BY <1>1 DEF Before
  <1> QED BY <1>1, <1>5, <1>6 DEF TrapInv, Saved

\* What the theorems say of the frame follows from the invariant.
LEMMA TrapShown == Known => FrameGenuine /\ Transparent
  <1> SUFFICES ASSUME Known PROVE FrameGenuine /\ Transparent
    OBVIOUS
  <1>1. ASSUME pc = "dispatch"
        PROVE  (\A f \in DOMAIN Interrupted : Field(f) = Interrupted[f]) /\ Len(stack) % 2 = 1
    <2>1. Dispatching
      BY <1>1 DEF Known, TrapInv, Dispatching
    <2>2. DOMAIN Interrupted = Registers \cup Others
      BY DEF Interrupted, Others
    <2>3. PICK s : Frame(s, Floor, vector, 22) /\ stack = Append(s, Word("return"))
      BY <2>1 DEF Dispatching
    <2>4. Len(stack) = Floor + 23 /\ (Floor + 23) % 2 = 1
      <3>1. Floor \in Nat /\ (Floor + 23) % 2 = 1
        BY <2>1, FloorEven DEF Dispatching
      <3>2. s \in Seq(Words) /\ Len(s) = Floor + 22
        BY <2>3 DEF Frame
      <3>3. Len(stack) = Len(s) + 1
        BY <2>3, <3>2
      <3> QED BY <3>1, <3>2, <3>3
    <2> QED BY <2>1, <2>2, <2>4, FieldIs
  <1>2. FrameGenuine
    BY <1>1 DEF FrameGenuine, Known, TrapInv, Printout
  <1>3. Transparent
    BY DEF Transparent, Known, TrapInv, Saved
  <1> QED BY <1>2, <1>3

LEMMA TrapNext ==
    ASSUME Known, SettledInv, [MachineNext]_machineVars
    PROVE  Known'
  <1>1. CASE handling
    BY <1>1, TrapStub, TrapPush, TrapCall, TrapDispatch, TrapRestore, TrapPop, TrapReturn
       DEF handling, isr_common, Known
  <1>2. ASSUME NEW v \in Vectors, trap(v) PROVE Known'
    BY <1>2, TrapTaken DEF Known
  <1>3. CASE UNCHANGED vars
    <2>1. /\ pc' = pc /\ vector' = vector /\ depth' = depth /\ reg' = reg /\ stack' = stack
          /\ rdi' = rdi /\ printed' = printed
      BY <1>3 DEF vars
    <2>2. Floor' = Floor /\ Before' = Before /\ Interrupted' = Interrupted
      BY <2>1 DEF Floor, Before, Interrupted
    <2>3. Printout' = Printout
      BY <2>1, <2>2 DEF Printout, WithAddress
    <2>4. TrapInv'
      BY <2>1, <2>2, <2>3 DEF Known, TrapInv, Framed, Saved
    <2> QED BY <2>4 DEF Known
  <1> QED BY <1>1, <1>2, <1>3 DEF MachineNext, booting, machineVars

LEMMA TrapInvariant == 29 \notin Vectors /\ MachineSpec => []Known
  <1>1. (SettledInv /\ InShell /\ Known) /\ [MachineNext]_machineVars
          => (SettledInv /\ InShell /\ Known)'
    BY SettledNext, TrapNext
  <1>2. 29 \notin Vectors /\ MachineInit => SettledInv /\ InShell /\ Known
    BY SettledInit, TrapInit DEF Known
  <1> QED BY <1>1, <1>2, PTL DEF MachineSpec

\* In every trap but 29, whatever the stack held before, trap_dispatch reads
\* through trap_frame_t what the processor, the stub (ISR_NOERR, ISR_ERR) and
\* PUSH_REGS pushed, each word under its name, on an aligned stack, and
\* dump_frame prints just that.
THEOREM FrameRead == 29 \notin Vectors /\ MachineSpec => []FrameGenuine
  <1>1. Known => FrameGenuine
    BY TrapShown
  <1> QED BY <1>1, TrapInvariant, PTL

\* Every trap but 29 that trap_dispatch returns from leaves the program that it
\* interrupted with its registers and its stack, and iretq always returns to it.
THEOREM Transparency == 29 \notin Vectors /\ MachineSpec => []Transparent
  <1>1. Known => Transparent
    BY TrapShown
  <1> QED BY <1>1, TrapInvariant, PTL
=============================================================================

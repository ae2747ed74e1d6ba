----------------------------- MODULE PciProofs -----------------------------
(***************************************************************************)
(* Proofs about pci_enumerate, for every set of functions in configuration *)
(* space and every size of the array.                                      *)
(***************************************************************************)
EXTENDS Pci, SequenceTheorems, TLAPS

Places == (0 .. 255) \X (0 .. 31) \X (0 .. 7)

-----------------------------------------------------------------------------
(* Configuration space.                                                    *)

\* A place is a bus, a slot and a function.
LEMMA PlaceIs ==
    ASSUME NEW a \in Places
    PROVE  \E b \in 0 .. 255, s \in 0 .. 31, f \in 0 .. 7 : a = <<b, s, f>>
  <1>1. a[1] \in 0 .. 255 /\ a[2] \in 0 .. 31 /\ a[3] \in 0 .. 7
    BY DEF Places
  <1>2. a = <<a[1], a[2], a[3]>>
    BY DEF Places
  <1> QED BY <1>1, <1>2

\* The halves of a register.
LEMMA Halves ==
    ASSUME NEW p, NEW q, NEW r, NEW t
    PROVE  SubSeq(<<p, q, r, t>>, 1, 2) = <<p, q>> /\ SubSeq(<<p, q, r, t>>, 3, 4) = <<r, t>>
  <1> DEFINE S == {p, q, r, t}
  <1>1. PICK w : w = <<p, q, r, t>>
    OBVIOUS
  <1>2. w[1] = p /\ w[2] = q /\ w[3] = r /\ w[4] = t
    BY <1>1
  <1>3. /\ SubSeq(w, 1, 2) \in Seq(S) /\ Len(SubSeq(w, 1, 2)) = 2
        /\ SubSeq(w, 1, 2)[1] = p /\ SubSeq(w, 1, 2)[2] = q
    <2>1. \A i \in 1 .. 2 : w[i] \in S
      BY <1>2
    <2>2. /\ SubSeq(w, 1, 2) \in Seq(S)
          /\ Len(SubSeq(w, 1, 2)) = IF 1 <= 2 THEN 2 - 1 + 1 ELSE 0
          /\ \A i \in 1 .. 2 - 1 + 1 : SubSeq(w, 1, 2)[i] = w[1 + i - 1]
      BY <2>1, SubSeqProperties
    <2> QED BY <1>2, <2>2
  <1>4. /\ SubSeq(w, 3, 4) \in Seq(S) /\ Len(SubSeq(w, 3, 4)) = 2
        /\ SubSeq(w, 3, 4)[1] = r /\ SubSeq(w, 3, 4)[2] = t
    <2>1. \A i \in 3 .. 4 : w[i] \in S
      BY <1>2
    <2>2. /\ SubSeq(w, 3, 4) \in Seq(S)
          /\ Len(SubSeq(w, 3, 4)) = IF 3 <= 4 THEN 4 - 3 + 1 ELSE 0
          /\ \A i \in 1 .. 4 - 3 + 1 : SubSeq(w, 3, 4)[i] = w[3 + i - 1]
      BY <2>1, SubSeqProperties
    <2> QED BY <1>2, <2>2
  <1>5. ASSUME NEW u \in Seq(S), Len(u) = 2 PROVE u = <<u[1], u[2]>>
    BY <1>5
  <1> QED BY <1>1, <1>3, <1>4, <1>5

\* The bits below the enable bit.
Low(b, s, f, o) == b * 65536 + s * 2048 + f * 256 + (o \div 4) * 4

\* The parts of an address.
Parts(low) == <<(low \div 65536) % 256, (low \div 2048) % 32, (low \div 256) % 8, low % 256>>

\* The host bridge takes apart what pci_config_address has put together.
LEMMA AddressIs ==
    ASSUME NEW b \in 0 .. 255, NEW s \in 0 .. 31, NEW f \in 0 .. 7, NEW o \in {0, 8, 12}
    PROVE  Parts(Low(b, s, f, o)) = <<b, s, f, o>>
  <1>0. PICK low : low = Low(b, s, f, o)
    OBVIOUS
  <1>1. (o \div 4) * 4 = o /\ o \in 0 .. 12
    OBVIOUS
  <1>2. low = b * 65536 + s * 2048 + f * 256 + o
    BY <1>0, <1>1 DEF Low
  <1>3. low \div 65536 = b
    BY <1>1, <1>2
  <1>4. low \div 2048 = b * 32 + s
    BY <1>1, <1>2
  <1>5. low \div 256 = b * 256 + s * 8 + f
    BY <1>1, <1>2
  <1>6. low % 256 = o
    BY <1>1, <1>2
  <1>7. b % 256 = b /\ (b * 32 + s) % 32 = s /\ (b * 256 + s * 8 + f) % 8 = f
    OBVIOUS
  <1> QED BY <1>0, <1>3, <1>4, <1>5, <1>6, <1>7 DEF Parts

\* A read finds the header of its own function, or ones.
LEMMA ReadIs ==
    ASSUME NEW a \in Places, NEW o \in {0, 8, 12}
    PROVE  pci_config_read32(a, o) =
             IF a \in present THEN Header(a, o) ELSE <<255, 255, 255, 255>>
  <1>1. PICK b \in 0 .. 255, s \in 0 .. 31, f \in 0 .. 7 : a = <<b, s, f>>
    BY PlaceIs
  <1>2. PICK low : low = Low(b, s, f, o)
    OBVIOUS
  <1>3. /\ (low \div 65536) % 256 = b /\ (low \div 2048) % 32 = s
        /\ (low \div 256) % 8 = f /\ low % 256 = o
    <2>1. Parts(low) = <<b, s, f, o>>
      BY <1>2, AddressIs
    <2> QED BY <2>1 DEF Parts
  <1>4. pci_config_address(a, o) = [enable |-> TRUE, low |-> low]
    BY <1>1, <1>2 DEF pci_config_address, Low
  <1>5. inl([enable |-> TRUE, low |-> low]) =
          IF a \in present THEN Header(a, o) ELSE <<255, 255, 255, 255>>
    BY <1>1, <1>3 DEF inl
  <1> QED BY <1>4, <1>5 DEF pci_config_read32

\* The vendor of an absent function alone reads as ones, and bit 7 of the header
\* type says whether there are further functions.
LEMMA ProbeIs ==
    ASSUME NEW a \in Places
    PROVE  /\ Absent(a) <=> a \notin present
           /\ a \in present => header_type(a) = IF a \in multi THEN 128 ELSE 0
  <1>1. PICK b \in 0 .. 255, s \in 0 .. 31, f \in 0 .. 7 : a = <<b, s, f>>
    BY PlaceIs
  <1>2. pci_config_read16(a, 0) = SubSeq(pci_config_read32(a, 0), 1, 2)
    BY DEF pci_config_read16
  <1>3. CASE a \in present
    <2>1. pci_config_read32(a, 0) = <<255, s, b, f>>
      BY <1>1, <1>3, ReadIs DEF Header
    <2>2. SubSeq(<<255, s, b, f>>, 1, 2) # <<255, 255>>
      <3>1. SubSeq(<<255, s, b, f>>, 1, 2) = <<255, s>>
        BY Halves
      <3> QED BY <3>1
    <2>3. pci_config_read32(a, 12) = Header(a, 12)
      BY <1>3, ReadIs
    <2>4. header_type(a) = IF a \in multi THEN 128 ELSE 0
      BY <2>3 DEF header_type, Header
    <2> QED BY <1>2, <1>3, <2>1, <2>2, <2>4 DEF Absent
  <1>4. CASE a \notin present
    <2>1. pci_config_read32(a, 0) = <<255, 255, 255, 255>>
      BY <1>4, ReadIs
    <2>2. SubSeq(<<255, 255, 255, 255>>, 1, 2) = <<255, 255>>
      BY Halves
    <2> QED BY <1>2, <1>4, <2>1, <2>2 DEF Absent
  <1> QED BY <1>3, <1>4

\* What pci_fill_device writes is what the header says.
LEMMA FilledIs ==
    ASSUME NEW a \in Places, a \in present
    PROVE  pci_fill_device(a).at = a /\ Genuine(pci_fill_device(a))
  <1>1. PICK b \in 0 .. 255, s \in 0 .. 31, f \in 0 .. 7 : a = <<b, s, f>>
    BY PlaceIs
  <1>2. /\ pci_config_read32(a, 0) = <<255, s, b, f>>
        /\ pci_config_read32(a, 8) = <<f, s, b, 1>>
        /\ header_type(a) = IF a \in multi THEN 128 ELSE 0
    BY <1>1, ReadIs, ProbeIs DEF Header
  <1>3. SubSeq(<<255, s, b, f>>, 1, 2) = <<255, s>> /\ SubSeq(<<255, s, b, f>>, 3, 4) = <<b, f>>
    BY Halves
  <1>4. pci_fill_device(a) =
          [at |-> a, vendor_id |-> <<255, s>>, device_id |-> <<b, f>>,
           prog_if |-> s, subclass |-> b, class_code |-> 1,
           header_type |-> IF a \in multi THEN 128 ELSE 0]
    BY <1>2, <1>3 DEF pci_fill_device
  <1>5. /\ Header(a, 0) = <<255, s, b, f>> /\ Header(a, 8) = <<f, s, b, 1>>
        /\ Header(a, 12)[3] = IF a \in multi THEN 128 ELSE 0
    BY <1>1 DEF Header
  <1>6. PICK e : e = pci_fill_device(a)
    OBVIOUS
  <1>7. Genuine(e)
    BY <1>4, <1>5, <1>6 DEF Genuine
  <1> QED BY <1>4, <1>6, <1>7
-----------------------------------------------------------------------------
(* The invariant of the walk.                                              *)

\* What an entry of the array can be.
Filled == {pci_fill_device(a) : a \in Reachable}

\* The number of the place that is looked at next.
Cursor == Number(<<bus, slot, IF pc = "functions" THEN function ELSE 0>>)

PciTypes ==
    /\ present \subseteq Places
    /\ multi \subseteq {a \in present : a[3] = 0}
    /\ max_devices \in Nat
    /\ pc \in {"slots", "functions", "done"}
    /\ bus \in 0 .. 256 /\ slot \in 0 .. 31 /\ function \in 0 .. 8
    /\ bus = 256 => slot = 0
    /\ pc = "functions" => bus < 256 /\ function > 0 /\ <<bus, slot, 0>> \in multi
    /\ devices \in Seq(Filled)
    /\ Len(devices) <= max_devices

\* The entries are in order and stand before the cursor.
Sorted ==
    /\ \A j, k \in DOMAIN devices : j < k => Number(devices[j].at) < Number(devices[k].at)
    /\ \A k \in DOMAIN devices : Number(devices[k].at) < Cursor

\* Nothing is left out between the entries and, while there is room, before
\* the cursor.
Complete ==
    /\ \A a \in Reachable, b \in Found : Number(a) < Number(b) => a \in Found
    /\ Room => \A a \in Reachable : Number(a) < Cursor => a \in Found

Ends == pc = "done" => ~Room \/ bus = 256

PciInv == PciTypes /\ Sorted /\ Complete /\ Ends

\* The addresses are numbered without gaps.
LEMMA NumberIs ==
    ASSUME NEW b \in 0 .. 256, NEW s \in 0 .. 31, NEW f \in 0 .. 8
    PROVE  /\ Number(<<b, s, f>>) \in Nat
           /\ Number(<<b, s, f>>) = b * 256 + s * 8 + f
  BY DEF Number, Slots, Functions

LEMMA NumberBound ==
    ASSUME NEW a \in Places
    PROVE  Number(a) \in Nat /\ Number(a) < 65536
  <1>1. PICK b \in 0 .. 255, s \in 0 .. 31, f \in 0 .. 7 : a = <<b, s, f>>
    BY PlaceIs
  <1>2. Number(<<b, s, f>>) = b * 256 + s * 8 + f
    BY <1>1 DEF Number, Slots, Functions
  <1>3. b * 256 + s * 8 + f \in Nat /\ b * 256 + s * 8 + f < 65536
    BY <1>1
  <1> QED BY <1>1, <1>2, <1>3

\* Two places with one number are one.
LEMMA NumberInjective ==
    ASSUME NEW a \in Places, NEW c \in Places, Number(a) = Number(c)
    PROVE  a = c
  <1>1. PICK b1 \in 0 .. 255, s1 \in 0 .. 31, f1 \in 0 .. 7 : a = <<b1, s1, f1>>
    BY PlaceIs
  <1>2. PICK b2 \in 0 .. 255, s2 \in 0 .. 31, f2 \in 0 .. 7 : c = <<b2, s2, f2>>
    BY PlaceIs
  <1>3. /\ Number(a) = b1 * 256 + s1 * 8 + f1
        /\ Number(c) = b2 * 256 + s2 * 8 + f2
    BY <1>1, <1>2 DEF Number, Slots, Functions
  <1>4. b1 * 256 + s1 * 8 + f1 = b2 * 256 + s2 * 8 + f2
    BY <1>3
  <1>5. b1 = b2 /\ s1 = s2 /\ f1 = f2
    BY <1>4
  <1> QED BY <1>1, <1>2, <1>5

\* The number of function 0 of a slot.
SlotNumber(b, s) == b * 256 + s * 8

\* The numbers between those of function 0 of a slot and of the next slot
\* belong to the slot.
LEMMA NumberBetween ==
    ASSUME NEW a \in Places, NEW b \in 0 .. 255, NEW s \in 0 .. 31,
           SlotNumber(b, s) < Number(a), Number(a) < SlotNumber(b, s) + 8
    PROVE  a[1] = b /\ a[2] = s /\ a[3] # 0
  <1>1. PICK b1 \in 0 .. 255, s1 \in 0 .. 31, f1 \in 0 .. 7 : a = <<b1, s1, f1>>
    BY PlaceIs
  <1>2. Number(a) = b1 * 256 + s1 * 8 + f1
    BY <1>1 DEF Number, Slots, Functions
  <1>3. b1 = b /\ s1 = s /\ f1 # 0
    BY <1>1, <1>2 DEF SlotNumber
  <1> QED BY <1>1, <1>3

\* A reachable function is there, at its place.
LEMMA ReachableIs ==
    ASSUME PciTypes, NEW a \in Reachable
    PROVE  a \in Places /\ a \in present /\ pci_fill_device(a).at = a
  <1>1. a \in present /\ a \in Places
    BY DEF Reachable, PciTypes
  <1> QED BY <1>1, FilledIs

\* The entries, as a sequence.
LEMMA EntryIs ==
    ASSUME PciTypes
    PROVE  /\ Len(devices) \in Nat /\ DOMAIN devices = 1 .. Len(devices)
           /\ \A k \in DOMAIN devices : /\ devices[k] \in Filled
                                        /\ devices[k].at \in Reachable
                                        /\ devices[k] = pci_fill_device(devices[k].at)
           /\ Found \subseteq Reachable
  <1>1. Len(devices) \in Nat /\ DOMAIN devices = 1 .. Len(devices)
    BY LenProperties DEF PciTypes
  <1>2. ASSUME NEW k \in DOMAIN devices
        PROVE  /\ devices[k] \in Filled /\ devices[k].at \in Reachable
               /\ devices[k] = pci_fill_device(devices[k].at)
    <2>1. devices[k] \in Filled
      BY <1>1, ElementOfSeq DEF PciTypes
    <2>2. PICK a \in Reachable : devices[k] = pci_fill_device(a)
      BY <2>1 DEF Filled
    <2>3. devices[k].at = a
      BY <2>2, ReachableIs
    <2> QED BY <2>1, <2>2, <2>3
  <1> QED BY <1>1, <1>2 DEF Found

\* The invariant says what FindsFirst says.
LEMMA InvImplies ==
    ASSUME PciInv
    PROVE  FindsFirst
  <1>1. PciTypes /\ Sorted /\ Complete /\ Ends
    BY DEF PciInv
  <1>2. \A k \in DOMAIN devices : Genuine(devices[k])
    <2>1. ASSUME NEW k \in DOMAIN devices PROVE Genuine(devices[k])
      <3>1. PICK a : a = devices[k].at /\ a \in Reachable /\ devices[k] = pci_fill_device(a)
        BY <1>1, EntryIs
      <3>2. Genuine(pci_fill_device(a))
        BY <1>1, <3>1, ReachableIs, FilledIs
      <3> QED BY <3>1, <3>2
    <2> QED BY <2>1
  <1>3. Found \subseteq Reachable
    BY <1>1, EntryIs
  <1>4. ASSUME pc = "done", Len(devices) # max_devices PROVE Found = Reachable
    <2>1. Room /\ bus = 256 /\ slot = 0
      BY <1>1, <1>4, EntryIs DEF Room, Ends, PciTypes
    <2>2. Cursor = 65536
      BY <1>4, <2>1 DEF Cursor, Number, Slots, Functions
    <2>3. ASSUME NEW a \in Reachable PROVE Number(a) < Cursor
      <3>1. Number(a) \in Nat /\ Number(a) < 65536
        BY <1>1, ReachableIs, NumberBound
      <3> QED BY <2>2, <3>1
    <2> QED BY <1>1, <1>3, <2>1, <2>3 DEF Complete
  <1>5. Len(devices) <= max_devices
    BY <1>1 DEF PciTypes
  <1> QED BY <1>1, <1>2, <1>3, <1>4, <1>5 DEF FindsFirst, Sorted, Complete

\* The walk does not change what it looks at.
LEMMA SameHardware ==
    ASSUME UNCHANGED hardware
    PROVE  Reachable' = Reachable /\ Filled' = Filled
  <1>1. Reachable' = Reachable
    BY DEF hardware, Reachable
  <1>2. ASSUME NEW a PROVE pci_fill_device(a)' = pci_fill_device(a)
    BY DEF hardware, pci_fill_device, header_type, pci_config_read32, pci_config_address,
           inl, Header
  <1>3. {pci_fill_device(a) : a \in Reachable}' = {pci_fill_device(a) : a \in Reachable}
    BY <1>1, <1>2
  <1> QED BY <1>1, <1>3 DEF Filled

\* The place at the cursor is looked at and, if there is a function, it is
\* appended: afterwards the array is complete up to and including the place.
LEMMA ProbeKeeps ==
    ASSUME PciInv, Room, NEW f \in 0 .. 7, bus < 256, NEW a, a = <<bus, slot, f>>,
           Number(a) = Cursor, a \in present => a \in Reachable, UNCHANGED hardware,
           devices' = IF Absent(a) THEN devices ELSE Append(devices, pci_fill_device(a))
    PROVE  /\ devices' \in Seq(Filled') /\ Len(devices') <= max_devices'
           /\ \A j, k \in DOMAIN devices' :
                j < k => Number(devices'[j].at) < Number(devices'[k].at)
           /\ \A k \in DOMAIN devices' : Number(devices'[k].at) <= Cursor
           /\ \A x \in Reachable', y \in Found' : Number(x) < Number(y) => x \in Found'
           /\ \A x \in Reachable' : Number(x) <= Cursor => x \in Found'
  <1>1. PciTypes /\ Sorted /\ Complete
    BY DEF PciInv
  <1>2. bus \in 0 .. 255 /\ slot \in 0 .. 31
    BY <1>1 DEF PciTypes
  <1>3. a \in Places
    BY <1>2 DEF Places
  <1>4. Reachable' = Reachable /\ Filled' = Filled /\ max_devices' = max_devices
    BY SameHardware DEF hardware
  <1>5. /\ \A x \in Places : Number(x) \in Nat
        /\ \A x \in Places : Number(x) = Cursor => x = a
    BY <1>3, NumberBound, NumberInjective
  <1>6. /\ \A x \in Reachable : x \in Places /\ x \in present
        /\ Cursor \in Nat
    BY <1>1, <1>3, <1>5, ReachableIs
  <1>7. \A x \in Reachable : Number(x) < Cursor => x \in Found
    BY <1>1 DEF Complete
  <1>8. /\ Len(devices) \in Nat /\ DOMAIN devices = 1 .. Len(devices)
        /\ \A k \in DOMAIN devices : devices[k].at \in Reachable
        /\ Found \subseteq Reachable
    BY <1>1, EntryIs
  <1>9. CASE Absent(a)
    <2>1. devices' = devices /\ Found' = Found /\ a \notin present
      BY <1>3, <1>9, ProbeIs DEF Found
    <2>2. \A x \in Reachable : Number(x) <= Cursor => x \in Found
      <3>1. ASSUME NEW x \in Reachable, Number(x) <= Cursor PROVE x \in Found
        <4>1. Number(x) # Cursor
          BY <1>5, <1>6, <2>1
        <4>2. Number(x) < Cursor
          BY <1>5, <1>6, <3>1, <4>1
        <4> QED BY <1>7, <4>2
      <3> QED BY <3>1
    <2>3. \A k \in DOMAIN devices : Number(devices[k].at) <= Cursor
      <3>1. ASSUME NEW k \in DOMAIN devices PROVE Number(devices[k].at) <= Cursor
        <4>1. Number(devices[k].at) \in Nat /\ Number(devices[k].at) < Cursor
          BY <1>1, <1>5, <1>6, <1>8 DEF Sorted
        <4> QED BY <1>6, <4>1
      <3> QED BY <3>1
    <2>4. /\ devices \in Seq(Filled) /\ Len(devices) <= max_devices
      BY <1>1 DEF PciTypes
    <2> QED BY <1>1, <1>4, <2>1, <2>2, <2>3, <2>4 DEF Sorted, Complete
  <1>10. CASE ~Absent(a)
    <2>1. PICK e : e = pci_fill_device(a)
      OBVIOUS
    <2>2. a \in Reachable /\ devices' = Append(devices, e)
      BY <1>3, <1>10, <2>1, ProbeIs
    <2>3. e \in Filled /\ e.at = a
      BY <1>1, <2>1, <2>2, ReachableIs DEF Filled
    <2>4. /\ devices' \in Seq(Filled) /\ Len(devices') = Len(devices) + 1
          /\ \A k \in 1 .. Len(devices) : devices'[k] = devices[k]
          /\ devices'[Len(devices) + 1] = e
      <3>1. devices \in Seq(Filled)
        BY <1>1 DEF PciTypes
      <3> QED BY <2>2, <2>3, <3>1, AppendProperties
    <2>5. DOMAIN devices' = 1 .. Len(devices) + 1
      BY <2>4, LenProperties
    <2>6. PICK n \in Nat : n = Len(devices) + 1
      BY <1>8
    <2>7. \A k \in DOMAIN devices' : k = n \/ k \in DOMAIN devices
      BY <1>8, <2>5, <2>6
    <2>8. /\ devices'[n].at = a /\ n \in DOMAIN devices'
          /\ \A k \in DOMAIN devices : k < n /\ k \in DOMAIN devices' /\ devices'[k] = devices[k]
      BY <1>8, <2>3, <2>4, <2>5, <2>6
    <2>9. Found' = Found \cup {a}
      BY <2>7, <2>8 DEF Found
    <2>10. \A k \in DOMAIN devices :
             Number(devices[k].at) \in Nat /\ Number(devices[k].at) < Number(a)
      BY <1>1, <1>5, <1>6, <1>8 DEF Sorted
    <2>11. ASSUME NEW j \in DOMAIN devices', NEW k \in DOMAIN devices', j < k
           PROVE  Number(devices'[j].at) < Number(devices'[k].at)
      <3>1. j \in DOMAIN devices
        BY <1>8, <2>5, <2>6, <2>7, <2>11
      <3>2. CASE k = n
        BY <2>8, <2>10, <3>1, <3>2
      <3>3. CASE k \in DOMAIN devices
        <4>1. devices'[j] = devices[j] /\ devices'[k] = devices[k]
          BY <2>8, <3>1, <3>3
        <4> QED BY <1>1, <2>11, <3>1, <3>3, <4>1 DEF Sorted
      <3> QED BY <2>7, <3>2, <3>3
    <2>12. ASSUME NEW k \in DOMAIN devices' PROVE Number(devices'[k].at) <= Cursor
      <3>1. CASE k = n
        BY <1>6, <2>8, <3>1
      <3>2. CASE k \in DOMAIN devices
        BY <1>6, <2>8, <2>10, <3>2
      <3> QED BY <2>7, <3>1, <3>2
    <2>13. ASSUME NEW x \in Reachable, Number(x) <= Cursor PROVE x \in Found'
      <3>1. Number(x) < Cursor \/ x = a
        BY <1>5, <1>6, <2>13
      <3> QED BY <1>7, <2>9, <3>1
    <2>14. ASSUME NEW x \in Reachable, NEW y \in Found', Number(x) < Number(y)
           PROVE  x \in Found'
      <3>1. CASE y = a
        BY <1>7, <2>9, <2>14, <3>1
      <3>2. CASE y \in Found
        BY <1>1, <2>9, <2>14, <3>2 DEF Complete
      <3> QED BY <2>9, <3>1, <3>2
    <2>15. Len(devices') <= max_devices
      BY <1>1, <1>8, <2>4 DEF Room, PciTypes
    <2> QED BY <1>4, <2>4, <2>11, <2>12, <2>13, <2>14, <2>15
  <1> QED BY <1>9, <1>10

\* The next slot, or the first one of the next bus; no counter overflows.
LEMMA NextPlaceIs ==
    ASSUME PciTypes, bus < 256, NextPlace
    PROVE  /\ bus' \in 0 .. 256 /\ slot' \in 0 .. 31 /\ (bus' = 256 => slot' = 0)
           /\ bus' * 256 + slot' * 8 = bus * 256 + slot * 8 + 8
  <1>1. bus \in 0 .. 255 /\ slot \in 0 .. 31
    BY DEF PciTypes
  <1>2. NextBus = bus + 1
    <2>1. (bus + 1) % 65536 = bus + 1
      BY <1>1
    <2> QED BY <2>1 DEF NextBus
  <1>3. CASE slot + 1 < 32
    <2>1. slot' = slot + 1 /\ bus' = bus
      BY <1>3 DEF NextPlace, Slots
    <2> QED BY <1>1, <1>3, <2>1
  <1>4. CASE ~(slot + 1 < 32)
    <2>1. slot' = 0 /\ bus' = bus + 1 /\ slot = 31
      BY <1>1, <1>2, <1>4 DEF NextPlace, Slots
    <2> QED BY <1>1, <2>1
  <1> QED BY <1>3, <1>4

\* The cursor as a number.
LEMMA CursorIs ==
    PciTypes => /\ Cursor \in Nat
                /\ Cursor = bus * 256 + slot * 8 + (IF pc = "functions" THEN function ELSE 0)
  BY DEF PciTypes, Cursor, Number, Slots, Functions

LEMMA CursorIsNext ==
    PciTypes' => /\ Cursor' \in Nat
                 /\ Cursor' = bus' * 256 + slot' * 8
                                + (IF pc' = "functions" THEN function' ELSE 0)
  <1>1. (PciTypes => /\ Cursor \in Nat
                     /\ Cursor = bus * 256 + slot * 8
                                   + (IF pc = "functions" THEN function ELSE 0))'
    BY CursorIs, PTL
  <1> QED BY <1>1

\* The numbers of what can be found.
LEMMA NumbersNext ==
    ASSUME PciTypes, UNCHANGED hardware
    PROVE  \A x \in Reachable' : x \in Places /\ x \in Reachable /\ Number(x) \in Nat
  BY SameHardware, ReachableIs, NumberBound

LEMMA EntriesNext ==
    PciTypes' => \A k \in DOMAIN devices' : devices'[k].at \in Reachable'
  <1>1. PciTypes => \A k \in DOMAIN devices : devices[k].at \in Reachable
    BY EntryIs
  <1>2. (PciTypes => \A k \in DOMAIN devices : devices[k].at \in Reachable)'
    BY <1>1, PTL
  <1> QED BY <1>2

\* After a place has been looked at the cursor moves to the next one that can
\* hold a function.
LEMMA CursorMoves ==
    ASSUME PciInv, PciTypes', UNCHANGED hardware, Room, pc' # "done", Cursor < Cursor',
           \A j, k \in DOMAIN devices' :
             j < k => Number(devices'[j].at) < Number(devices'[k].at),
           \A k \in DOMAIN devices' : Number(devices'[k].at) <= Cursor,
           \A x \in Reachable', y \in Found' : Number(x) < Number(y) => x \in Found',
           \A x \in Reachable' : Number(x) <= Cursor => x \in Found',
           \A x \in Reachable' : Number(x) > Cursor => Number(x) >= Cursor'
    PROVE  PciInv'
  <1>1. Cursor \in Nat /\ Cursor' \in Nat
    BY CursorIs, CursorIsNext DEF PciInv
  <1>2. \A x \in Reachable' : Number(x) \in Nat
    BY NumbersNext DEF PciInv
  <1>3. \A k \in DOMAIN devices' : devices'[k].at \in Reachable'
    BY EntriesNext
  <1>4. ASSUME NEW k \in DOMAIN devices' PROVE Number(devices'[k].at) < Cursor'
    <2>1. Number(devices'[k].at) \in Nat
      BY <1>2, <1>3
    <2> QED BY <1>1, <2>1
  <1>5. ASSUME NEW x \in Reachable', Number(x) < Cursor' PROVE x \in Found'
    <2>1. Number(x) <= Cursor
      BY <1>1, <1>2, <1>5
    <2> QED BY <2>1
  <1>6. Sorted'
    BY <1>4 DEF Sorted
  <1>7. Complete'
    BY <1>5 DEF Complete
  <1> QED BY <1>6, <1>7 DEF PciInv, Ends

LEMMA SlotKeeps ==
    ASSUME PciInv, probe_slot
    PROVE  PciInv'
  <1>1. PciTypes
    BY DEF PciInv
  <1>2. bus \in 0 .. 255 /\ slot \in 0 .. 31 /\ pc = "slots"
    BY <1>1 DEF probe_slot, PciTypes, Buses
  <1>3. PICK a : a = <<bus, slot, 0>>
    OBVIOUS
  <1>4. /\ Room /\ UNCHANGED hardware
        /\ devices' = IF Absent(a) THEN devices ELSE Append(devices, pci_fill_device(a))
        /\ IF Absent(a) \/ header_type(a) < 128
             THEN NextPlace /\ UNCHANGED <<pc, function>>
             ELSE pc' = "functions" /\ function' = 1 /\ UNCHANGED <<bus, slot>>
    BY <1>3 DEF probe_slot
  <1>5. a \in Places /\ Number(a) = Cursor
    BY <1>2, <1>3 DEF Places, Cursor
  <1>6. a \in present => a \in Reachable
    BY <1>3 DEF Reachable
  <1>7. /\ devices' \in Seq(Filled') /\ Len(devices') <= max_devices'
        /\ \A j, k \in DOMAIN devices' :
             j < k => Number(devices'[j].at) < Number(devices'[k].at)
        /\ \A k \in DOMAIN devices' : Number(devices'[k].at) <= Cursor
        /\ \A x \in Reachable', y \in Found' : Number(x) < Number(y) => x \in Found'
        /\ \A x \in Reachable' : Number(x) <= Cursor => x \in Found'
    <2>1. bus < 256 /\ 0 \in 0 .. 7
      BY <1>2
    <2> QED BY <1>3, <1>4, <1>5, <1>6, <2>1, ProbeKeeps
  <1>8. Cursor = bus * 256 + slot * 8
    BY <1>1, <1>2, CursorIs
  <1>9. \A x \in Reachable' : x \in Places /\ x \in Reachable /\ Number(x) \in Nat
    BY <1>1, <1>4, NumbersNext
  <1>10. CASE Absent(a) \/ header_type(a) < 128
    <2>1. a \notin multi
      <3>1. a \in multi => a \in present
        BY <1>1 DEF PciTypes
      <3> QED BY <1>5, <1>10, <3>1, ProbeIs
    <2>2. NextPlace /\ UNCHANGED <<pc, function>>
      BY <1>4, <1>10
    <2>3. /\ bus' \in 0 .. 256 /\ slot' \in 0 .. 31 /\ (bus' = 256 => slot' = 0)
          /\ bus' * 256 + slot' * 8 = bus * 256 + slot * 8 + 8
      BY <1>1, <1>2, <2>2, NextPlaceIs
    <2>4. PciTypes'
      BY <1>1, <1>2, <1>4, <1>7, <2>2, <2>3 DEF PciTypes, hardware
    <2>5. Cursor' = Cursor + 8 /\ Cursor \in Nat
      <3>1. Cursor' = bus' * 256 + slot' * 8 + (IF pc' = "functions" THEN function' ELSE 0)
        BY <2>4, CursorIsNext
      <3>2. Cursor' = bus' * 256 + slot' * 8
        BY <1>2, <2>2, <2>3, <3>1
      <3> QED BY <1>1, <1>8, <2>3, <3>2, CursorIs
    <2>6. ASSUME NEW x \in Reachable', Number(x) > Cursor PROVE Number(x) >= Cursor'
      <3> SUFFICES ASSUME Number(x) < Cursor' PROVE FALSE
        BY <1>9, <2>5
      <3>1. PICK b \in 0 .. 255, s \in 0 .. 31 : b = bus /\ s = slot
        BY <1>2
      <3>2. SlotNumber(b, s) < Number(x) /\ Number(x) < SlotNumber(b, s) + 8
        BY <1>8, <1>9, <2>5, <2>6, <3>1 DEF SlotNumber
      <3>3. x[1] = b /\ x[2] = s /\ x[3] # 0
        BY <1>9, <3>1, <3>2, NumberBetween
      <3>4. <<x[1], x[2], 0>> \in multi
        BY <1>9, <3>3 DEF Reachable
      <3> QED BY <1>3, <2>1, <3>1, <3>3, <3>4
    <2>7. Cursor < Cursor' /\ pc' # "done"
      BY <1>2, <2>2, <2>5
    <2> QED BY <1>4, <1>7, <2>4, <2>6, <2>7, CursorMoves
  <1>11. CASE ~(Absent(a) \/ header_type(a) < 128)
    <2>1. a \in multi
      <3>1. a \in present
        BY <1>5, <1>11, ProbeIs
      <3> QED BY <1>5, <1>11, <3>1, ProbeIs
    <2>2. pc' = "functions" /\ function' = 1 /\ UNCHANGED <<bus, slot>>
      BY <1>4, <1>11
    <2>3. PciTypes'
      <3>1. <<bus', slot', 0>> \in multi'
        BY <1>3, <1>4, <2>1, <2>2 DEF hardware
      <3> QED BY <1>1, <1>2, <1>4, <1>7, <2>2, <3>1 DEF PciTypes, hardware
    <2>4. Cursor' = Cursor + 1 /\ Cursor \in Nat
      BY <1>1, <1>2, <1>8, <2>2, <2>3, CursorIs, CursorIsNext
    <2>5. ASSUME NEW x \in Reachable', Number(x) > Cursor PROVE Number(x) >= Cursor'
      BY <1>9, <2>4, <2>5
    <2>6. Cursor < Cursor' /\ pc' # "done"
      BY <2>2, <2>4
    <2> QED BY <1>4, <1>7, <2>3, <2>5, <2>6, CursorMoves
  <1> QED BY <1>10, <1>11

LEMMA FunctionKeeps ==
    ASSUME PciInv, probe_function
    PROVE  PciInv'
  <1>1. PciTypes
    BY DEF PciInv
  <1>2. /\ bus \in 0 .. 255 /\ slot \in 0 .. 31 /\ pc = "functions" /\ function \in 1 .. 7
        /\ <<bus, slot, 0>> \in multi
    BY <1>1 DEF probe_function, PciTypes, Functions
  <1>which. PICK f \in 0 .. 7 : f = function
    BY <1>2
  <1>3. PICK a : a = <<bus, slot, f>>
    OBVIOUS
  <1>4. /\ Room /\ UNCHANGED hardware /\ UNCHANGED <<pc, bus, slot>> /\ function' = function + 1
        /\ devices' = IF Absent(a) THEN devices ELSE Append(devices, pci_fill_device(a))
    BY <1>which, <1>3 DEF probe_function
  <1>5. a \in Places /\ Number(a) = Cursor
    BY <1>2, <1>which, <1>3 DEF Places, Cursor
  <1>6. a \in present => a \in Reachable
    BY <1>2, <1>3 DEF Reachable
  <1>7. /\ devices' \in Seq(Filled') /\ Len(devices') <= max_devices'
        /\ \A j, k \in DOMAIN devices' :
             j < k => Number(devices'[j].at) < Number(devices'[k].at)
        /\ \A k \in DOMAIN devices' : Number(devices'[k].at) <= Cursor
        /\ \A x \in Reachable', y \in Found' : Number(x) < Number(y) => x \in Found'
        /\ \A x \in Reachable' : Number(x) <= Cursor => x \in Found'
    <2>1. bus < 256
      BY <1>2
    <2> QED BY <1>3, <1>4, <1>5, <1>6, <2>1, ProbeKeeps
  <1>8. PciTypes'
    BY <1>1, <1>2, <1>4, <1>7 DEF PciTypes, hardware
  <1>9. Cursor' = Cursor + 1 /\ Cursor \in Nat
    BY <1>1, <1>2, <1>4, <1>8, CursorIs, CursorIsNext
  <1>10. \A x \in Reachable' : Number(x) \in Nat
    BY <1>1, <1>4, NumbersNext
  <1>11. ASSUME NEW x \in Reachable', Number(x) > Cursor PROVE Number(x) >= Cursor'
    BY <1>9, <1>10, <1>11
  <1>12. Cursor < Cursor' /\ pc' # "done"
    BY <1>2, <1>4, <1>9
  <1> QED BY <1>4, <1>7, <1>8, <1>11, <1>12, CursorMoves

\* A step that fills nothing moves the cursor only when there is no room.
LEMMA RestKeeps ==
    ASSUME PciInv, functions_done \/ slots_done \/ UNCHANGED vars
    PROVE  PciInv'
  <1>1. PciTypes /\ Sorted /\ Complete /\ Ends
    BY DEF PciInv
  <1>2. UNCHANGED <<hardware, devices>> /\ Reachable' = Reachable /\ Filled' = Filled
    BY SameHardware DEF functions_done, slots_done, vars
  <1>3. Found' = Found /\ (Room' <=> Room)
    BY <1>2 DEF Found, Room, hardware
  <1>4. PciTypes' /\ Cursor' >= Cursor /\ (Room => Cursor' = Cursor) /\ Cursor' \in Nat
    <2>1. CASE functions_done
      <3>1. /\ bus \in 0 .. 255 /\ slot \in 0 .. 31 /\ function \in 0 .. 8
            /\ pc = "functions" /\ pc' = "slots" /\ NextPlace /\ UNCHANGED function
            /\ function = 8 \/ ~Room
        BY <1>1, <2>1 DEF functions_done, PciTypes, Functions
      <3>2. /\ bus' \in 0 .. 256 /\ slot' \in 0 .. 31 /\ (bus' = 256 => slot' = 0)
            /\ bus' * 256 + slot' * 8 = bus * 256 + slot * 8 + 8
        BY <1>1, <3>1, NextPlaceIs
      <3>3. PciTypes'
        BY <1>1, <1>2, <3>1, <3>2 DEF PciTypes, hardware
      <3>4. Cursor = bus * 256 + slot * 8 + function /\ Cursor \in Nat
        BY <1>1, <3>1, CursorIs
      <3>5. Cursor' = bus' * 256 + slot' * 8 + (IF pc' = "functions" THEN function' ELSE 0)
        BY <3>3, CursorIsNext
      <3>6. Cursor' = bus' * 256 + slot' * 8
        BY <3>1, <3>2, <3>5
      <3>7. Cursor' = bus * 256 + slot * 8 + 8
        BY <3>2, <3>6
      <3> QED BY <3>1, <3>3, <3>4, <3>7
    <2>2. CASE slots_done \/ UNCHANGED vars
      <3>1. /\ UNCHANGED <<bus, slot, function>>
            /\ (pc = "slots" /\ pc' = "done") \/ pc' = pc
        BY <2>2 DEF slots_done, vars
      <3>2. PciTypes'
        BY <1>1, <1>2, <3>1 DEF PciTypes, hardware
      <3>3. Cursor' = Cursor
        BY <3>1 DEF Cursor
      <3> QED BY <1>1, <3>2, <3>3, CursorIs
    <2> QED BY <2>1, <2>2
  <1>5. Sorted'
    <2>1. ASSUME NEW k \in DOMAIN devices PROVE Number(devices[k].at) < Cursor'
      <3>1. Number(devices[k].at) \in Nat /\ Number(devices[k].at) < Cursor
        BY <1>1, EntryIs, ReachableIs, NumberBound DEF Sorted
      <3> QED BY <1>1, <1>4, <3>1, CursorIs
    <2> QED BY <1>1, <1>2, <2>1 DEF Sorted
  <1>6. Complete'
    BY <1>1, <1>2, <1>3, <1>4 DEF Complete
  <1>7. Ends'
    <2>1. CASE functions_done
      BY <2>1 DEF functions_done, Ends
    <2>2. CASE slots_done
      BY <1>1, <1>3, <2>2 DEF slots_done, Ends, PciTypes, Buses
    <2>3. CASE UNCHANGED vars
      BY <1>1, <1>3, <2>3 DEF Ends, vars
    <2> QED BY <2>1, <2>2, <2>3
  <1> QED BY <1>4, <1>5, <1>6, <1>7 DEF PciInv

\* The walk begins with an empty array before the first place.
LEMMA Initially == Init => PciInv
  <1> SUFFICES ASSUME Init PROVE PciInv
    OBVIOUS
  <1>1. /\ present \subseteq Places /\ multi \subseteq {a \in present : a[3] = 0}
        /\ max_devices \in Nat
    BY CandidatesAssumption DEF Init, Places, Buses, Slots, Functions
  <1>2. devices = <<>> /\ devices \in Seq(Filled) /\ Len(devices) = 0 /\ DOMAIN devices = {}
    BY EmptySeq DEF Init
  <1>3. /\ pc \in {"slots", "functions", "done"} /\ pc # "functions"
        /\ bus = 0 /\ slot = 0 /\ function = 0 /\ (pc = "done" => max_devices = 0)
    BY DEF Init
  <1>4. PciTypes
    BY <1>1, <1>2, <1>3 DEF PciTypes
  <1>5. Cursor = 0
    BY <1>3, <1>4, CursorIs
  <1>6. Sorted
    BY <1>2 DEF Sorted
  <1>7. Complete
    <2>1. Found = {}
      BY <1>2 DEF Found
    <2>2. \A a \in Reachable : ~(Number(a) < Cursor)
      BY <1>4, <1>5, ReachableIs, NumberBound
    <2> QED BY <2>1, <2>2 DEF Complete
  <1>8. Ends
    BY <1>1, <1>2, <1>3 DEF Ends, Room
  <1> QED BY <1>4, <1>6, <1>7, <1>8 DEF PciInv

\* pci_enumerate finds the first max_devices functions there are, in order, and
\* records of each what its header says, for every configuration of the bus and
\* every size of the array.
THEOREM Enumeration == Spec => []FindsFirst
  <1>1. PciInv /\ [Next]_vars => PciInv'
    BY SlotKeeps, FunctionKeeps, RestKeeps DEF Next
  <1>2. PciInv => FindsFirst
    BY InvImplies
  <1> QED BY <1>1, <1>2, Initially, PTL DEF Spec
=============================================================================

-------------------------------- MODULE Pci --------------------------------
(***************************************************************************)
(* pci_enumerate of src/pci.c: the walk over buses, slots and functions of *)
(* configuration space into an array of max_devices entries.  A register   *)
(* of 32 bits is the sequence of its bytes, lowest first, so that a shift  *)
(* and a mask by whole bytes is a choice of bytes.                         *)
(***************************************************************************)
EXTENDS Integers, Sequences

CONSTANTS
    Candidates,  \* bound: the <<bus, slot, function>>s that may be there
    MaxDevices   \* the sizes of the array

Buses == 256
Slots == 32
Functions == 8

ASSUME CandidatesAssumption ==
    /\ Candidates \subseteq (0 .. Buses - 1) \X (0 .. Slots - 1) \X (0 .. Functions - 1)
    /\ MaxDevices \subseteq Nat

VARIABLES
    present,       \* external: the functions that are there
    multi,         \* external: those whose header has bit 7 set
    max_devices,
    pc, bus, slot, function,
    devices        \* the entries filled; its length is count

hardware == <<present, multi, max_devices>>
vars == <<hardware, pc, bus, slot, function, devices>>
-----------------------------------------------------------------------------
(* Configuration space.                                                    *)

\* What a function's header holds: bytes that tell the functions apart, and a
\* vendor whose low byte alone would look like an absent function.
Header(a, offset) ==
    CASE offset = 0 -> <<255, a[2], a[1], a[3]>>
      [] offset = 8 -> <<a[3], a[2], a[1], 1>>
      [] offset = 12 -> <<2, 3, IF a \in multi THEN 128 ELSE 0, 4>>
      [] OTHER -> <<5, 6, 7, 8>>

\* The host bridge: takes the address apart; an absent function reads as ones.
inl(address) ==
    LET a == <<(address.low \div 65536) % 256,
               (address.low \div 2048) % 32, (address.low \div 256) % 8>>
    IN  IF address.enable /\ a \in present
          THEN Header(a, address.low % 256)
          ELSE <<255, 255, 255, 255>>

\* Mutant: the slot overlaps the function.
address_overlapping(a, offset) ==
    [enable |-> TRUE,
     low |-> a[1] * 65536 + a[2] * 1024 + a[3] * 256 + (offset \div 4) * 4]

\* Bit 31, and the other bits of the address, which do not overlap.
pci_config_address(a, offset) ==
    [enable |-> TRUE,
     low |-> a[1] * 65536 + a[2] * 2048 + a[3] * 256 + (offset \div 4) * 4]

pci_config_read32(a, offset) == inl(pci_config_address(a, offset))

\* The half of the register that bit 1 of the offset chooses.
pci_config_read16(a, offset) ==
    LET shift == IF (offset \div 2) % 2 = 1 THEN 2 ELSE 0
    IN  SubSeq(pci_config_read32(a, offset), shift + 1, shift + 2)

Absent(a) == pci_config_read16(a, 0) = <<255, 255>>

header_type(a) == pci_config_read32(a, 12)[3]

pci_fill_device(a) ==
    LET id == pci_config_read32(a, 0)
        class_reg == pci_config_read32(a, 8)
    IN  [at |-> a, vendor_id |-> SubSeq(id, 1, 2), device_id |-> SubSeq(id, 3, 4),
         prog_if |-> class_reg[2], subclass |-> class_reg[3],
         class_code |-> class_reg[4], header_type |-> header_type(a)]
-----------------------------------------------------------------------------
(* pci_enumerate.                                                          *)

Init ==
    /\ present \in SUBSET Candidates
    /\ multi \in SUBSET {a \in present : a[3] = 0}
    /\ max_devices \in MaxDevices
    /\ pc = IF max_devices = 0 THEN "done" ELSE "slots"
    /\ bus = 0 /\ slot = 0 /\ function = 0
    /\ devices = <<>>

\* count < max_devices.
Room == Len(devices) < max_devices

\* Mutant: a bus number of 8 bits, which never reaches the end of the loop.
NextBusU8 == (bus + 1) % 256

\* bus is 16 bits wide.
NextBus == (bus + 1) % 65536

\* The slot loop goes on, and behind its last slot the bus loop.
NextPlace ==
    /\ slot' = IF slot + 1 < Slots THEN slot + 1 ELSE 0
    /\ bus' = IF slot + 1 < Slots THEN bus ELSE NextBus

\* Function 0 of a slot; without it the slot is empty.
probe_slot ==
    LET a == <<bus, slot, 0>>
    IN  /\ pc = "slots" /\ bus < Buses /\ Room
        /\ devices' = IF Absent(a) THEN devices ELSE Append(devices, pci_fill_device(a))
        /\ IF Absent(a) \/ header_type(a) < 128
             THEN NextPlace /\ UNCHANGED <<pc, function>>
             ELSE pc' = "functions" /\ function' = 1 /\ UNCHANGED <<bus, slot>>
        /\ UNCHANGED hardware

probe_function ==
    LET a == <<bus, slot, function>>
    IN  /\ pc = "functions" /\ function < Functions /\ Room
        /\ devices' = IF Absent(a) THEN devices ELSE Append(devices, pci_fill_device(a))
        /\ function' = function + 1
        /\ UNCHANGED <<hardware, pc, bus, slot>>

functions_done ==
    /\ pc = "functions"
    /\ function >= Functions \/ ~Room
    /\ NextPlace
    /\ pc' = "slots"
    /\ UNCHANGED <<hardware, function, devices>>

slots_done ==
    /\ pc = "slots"
    /\ bus >= Buses \/ ~Room
    /\ pc' = "done"
    /\ UNCHANGED <<hardware, bus, slot, function, devices>>

Next == probe_slot \/ probe_function \/ functions_done \/ slots_done

Spec == Init /\ [][Next]_vars /\ WF_vars(Next)
-----------------------------------------------------------------------------
\* The functions a full walk must find: function 0 of each slot, and further
\* ones where function 0 says so.
Reachable ==
    {a \in present : a[3] = 0 \/ <<a[1], a[2], 0>> \in multi}

\* The order of configuration addresses.
Number(a) == (a[1] * Slots + a[2]) * Functions + a[3]

Found == {devices[k].at : k \in DOMAIN devices}

\* An entry holds what the configuration header of its own function says, at the
\* places the PCI specification gives: the bytes from 0 (vendor), 2 (device), 9
\* (interface), 10 (subclass), 11 (class) and 14 (header type).
Genuine(e) ==
    LET byte(n) == Header(e.at, (n \div 4) * 4)[(n % 4) + 1]
    IN  /\ e.vendor_id = <<byte(0), byte(1)>> /\ e.device_id = <<byte(2), byte(3)>>
        /\ <<e.prog_if, e.subclass, e.class_code>> = <<byte(9), byte(10), byte(11)>>
        /\ e.header_type = byte(14)

\* The array is never written beyond its end, and the walk returns the first
\* max_devices of the functions there are, each once, in order and with the
\* contents of its own header, whichever of the three loops it is in when the
\* array is full.
FindsFirst ==
    /\ Len(devices) <= max_devices
    /\ Found \subseteq Reachable
    /\ \A k \in DOMAIN devices : Genuine(devices[k])
    /\ \A j, k \in DOMAIN devices :
         j < k => Number(devices[j].at) < Number(devices[k].at)
    /\ \A a \in Reachable, b \in Found : Number(a) < Number(b) => a \in Found
    /\ pc = "done" => Len(devices) = max_devices \/ Found = Reachable

\* The walk ends: the counters of its loops can hold the bounds they are
\* compared with.
WalkEnds == <>(pc = "done")
=============================================================================

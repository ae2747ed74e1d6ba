------------------------------- MODULE MCPmm -------------------------------
(***************************************************************************)
(* Pmm on seven frames of four bytes.  The memory maps have the shapes     *)
(* that make the rounding and the clipping of pmm_init work: entries that  *)
(* begin and end inside a frame, entries of other types in between, usable *)
(* entries that overlap, one that goes beyond the limit, one that is all   *)
(* of memory; the kernel lies at a frame boundary, across one, and beyond  *)
(* the limit.                                                              *)
(***************************************************************************)
EXTENDS Pmm

E(b, l, t) == [base |-> b, length |-> l, type |-> t]

MCMaps ==
    { << E(0, 28, 1) >>,
      << E(0, 5, 1), E(5, 2, 2), E(7, 14, 1), E(21, 7, 3) >>,
      << E(3, 10, 1), E(11, 12, 1), E(23, 40, 1) >>,
      << E(4, 3, 1), E(8, 12, 2), E(20, 100, 1) >>,
      << E(28, 8, 1) >> }

MCBootInfos ==
    {[memory_map |-> m, memory_map_addr |-> 2, info_addr |-> 1,
      kernel_phys_start |-> k[1], kernel_phys_size |-> k[2]] :
        m \in MCMaps, k \in {<<4, 4>>, <<11, 3>>, <<26, 9>>}}
=============================================================================

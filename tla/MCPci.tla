------------------------------- MODULE MCPci -------------------------------
(***************************************************************************)
(* Pci with functions at both ends of configuration space, two slots next  *)
(* to each other, and a slot with its first and last function.             *)
(***************************************************************************)
EXTENDS Pci

MCCandidates ==
    {<<0, 0, 0>>, <<0, 0, 7>>, <<0, 1, 0>>, <<255, 31, 0>>, <<255, 31, 1>>}
=============================================================================

----------------------------- MODULE MCMachine -----------------------------
(***************************************************************************)
(* Machine for every vector that has a stub but 29, whose stub pushes a    *)
(* second error code on top of the processor's.                            *)
(***************************************************************************)
EXTENDS Machine

MCVectors == (0 .. 47) \ {29}
=============================================================================

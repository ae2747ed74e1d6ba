------------------------------ MODULE MCShell ------------------------------
(***************************************************************************)
(* Shell with two letters, one of which is the name of a command that ends *)
(* the shell.                                                              *)
(***************************************************************************)
EXTENDS Shell

MCStopping == {<<"q">>}
=============================================================================

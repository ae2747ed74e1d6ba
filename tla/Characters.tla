----------------------------- MODULE Characters -----------------------------
(***************************************************************************)
(* The characters of a line that is typed at the prompt of src/shell.c.    *)
(***************************************************************************)

CONSTANT Letters   \* the characters other than the space

Space == " "
Typed == Letters \cup {Space}
=============================================================================

---------------------------- MODULE MCInputSystem ----------------------------
(***************************************************************************)
(* InputSystem with terminals that send a plain character, an arrow key,   *)
(* or an escape followed by something else.  The ring of its configuration *)
(* has two slots and so holds one event.                                   *)
(***************************************************************************)
EXTENDS InputSystem

MCScripts == {<<"cr">>, <<"esc", "[", "A">>, <<"esc", "[", "x">>, <<"esc", "x">>}
=============================================================================

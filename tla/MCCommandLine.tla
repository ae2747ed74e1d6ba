--------------------------- MODULE MCCommandLine ---------------------------
(***************************************************************************)
(* CommandLine with short names, of which one begins with another.         *)
(***************************************************************************)
EXTENDS CommandLine

MCExit == <<"e", "s">>
MCCommands ==
    << << <<"e">>, "echo">>, << <<"9">>, "color">>, << <<"s", "e">>, "allocdemo">>,
       << <<"s">>, "sleep">>, << <<"9", "9">>, "rainbow">> >>
MCColors == << << <<"s", "0">>, 12>>, << <<"s">>, 10>> >>
=============================================================================

------------------------------- MODULE MCRtc -------------------------------
(***************************************************************************)
(* Rtc in all four modes of status register B.                             *)
(***************************************************************************)
EXTENDS Rtc

MCModes == BOOLEAN \X BOOLEAN
=============================================================================

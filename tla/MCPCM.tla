------------------------------- MODULE MCPCM -------------------------------
(***************************************************************************)
(* Instances of PCM for TLC: three suspicious samples make a reset instead *)
(* of fifty, five instants and three resets, so that a reset can succeed,  *)
(* fail, and fail twice in a row, with sound samples before and after.     *)
(***************************************************************************)
EXTENDS PCM
=============================================================================

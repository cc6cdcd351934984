------------------------------ MODULE MCTicker ------------------------------
(***************************************************************************)
(* Instances of Ticker for TLC: ten ticks, rounds that leave room in the   *)
(* interval, that just fill it, and that overrun it by up to two more.     *)
(***************************************************************************)
EXTENDS Ticker
=============================================================================

------------------------------ MODULE MCSinks ------------------------------
(***************************************************************************)
(* An instance of Sinks for TLC: two families, three devices and three     *)
(* rounds, with every choice of sinks, so that a scrape can be overtaken   *)
(* between two families and again within one.                              *)
(***************************************************************************)
EXTENDS Sinks
=============================================================================

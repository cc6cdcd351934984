---------------------------- MODULE MCCsvLogger ----------------------------
(***************************************************************************)
(* Instances of CsvLogger for TLC: two devices, three rounds, two starts.  *)
(***************************************************************************)
EXTENDS CsvLogger
=============================================================================

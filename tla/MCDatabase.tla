---------------------------- MODULE MCDatabase ----------------------------
(***************************************************************************)
(* Instances of Database for TLC: a sink with two devices and one with the *)
(* key; three calls of writeMetric and two timestamps, so that a round can *)
(* stop half way, an outage can hit the second of three rounds, and the    *)
(* clock can stand or step back.                                           *)
(***************************************************************************)
EXTENDS Database

TwoSinks == {"CPU", "SYS"}
TwoAndOne == [CPU |-> 2, SYS |-> 1]
OnlySys == {"SYS"}
=============================================================================

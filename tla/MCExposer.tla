--------------------------- MODULE MCExposer ---------------------------
(***************************************************************************)
(* Instances of Exposer for TLC.  The state space is finite without any    *)
(* bound, so the runs are exhaustive.                                      *)
(***************************************************************************)
EXTENDS Exposer

\* Everything compiled in; --sysInfo and --clusterInfo are given or not.
AllCollectors == {"CPU", "GPU", "NPU", "SYS", "CLUSTER"}
=============================================================================

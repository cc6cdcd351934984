-------------------------- MODULE MCClusterImpl --------------------------
(***************************************************************************)
(* Instances of ClusterImpl for TLC: one object with its heartbeat thread. *)
(* The module has no bound, so the runs are exhaustive.                    *)
(***************************************************************************)
EXTENDS ClusterImpl
=============================================================================

----------------------------- MODULE MCSYSImpl -----------------------------
(***************************************************************************)
(* Instances of SYSImpl for TLC: a disk and an interface whose counters    *)
(* have three values, so that they wrap within an interval or two.         *)
(***************************************************************************)
EXTENDS SYSImpl, TLC

CONSTANTS sda, eth0
DiskAndNet == {sda, eth0}

\* The devices play the same part.
Symmetry == Permutations(DiskAndNet)
=============================================================================

--------------------------- MODULE MCPowerContext ---------------------------
(***************************************************************************)
(* Instances of PowerContext for TLC: two sockets, two GPUs, an NPU.          *)
(***************************************************************************)
EXTENDS PowerContext

TwoTwoOne == [CPU |-> 2, GPU |-> 2, NPU |-> 1]
=============================================================================

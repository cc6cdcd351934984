--------------------------- MODULE MCMembership ---------------------------
(***************************************************************************)
(* An instance of Membership for TLC: the observer and one other node.     *)
(* With a TTL of 5 units a heartbeat is due every 2 and may take 1, which  *)
(* is just in time (2 + 2 * 1 < 5); a SET travels for at most 2.  A sample *)
(* takes up to two SCAN commands, so that keys expire, are renewed and are *)
(* returned twice in between.  The timers make the states finite.          *)
(***************************************************************************)
EXTENDS Membership
=============================================================================

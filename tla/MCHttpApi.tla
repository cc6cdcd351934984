----------------------------- MODULE MCHttpApi -----------------------------
(***************************************************************************)
(* Instances of HttpApi for TLC: one collector, two workers and two rounds,*)
(* so that two handlers and a write contend for the mutex of an object.    *)
(***************************************************************************)
EXTENDS HttpApi

CONSTANTS cpu, w1, w2
OneRoute == {cpu}
TwoWorkers == {w1, w2}
=============================================================================

----------------------------- MODULE MCKzEgress -----------------------------
(* A small instance of KzEgress: the keyer and the EP02 reader, and a queue shorter than what they post. *)
EXTENDS KzEgress

CONSTANTS keyer, ep02

BothThreads == {keyer, ep02}
=============================================================================

---------------------------- MODULE MCRemotePtt ----------------------------
(* A small instance of RemotePtt: two CAT clients and two TCI clients. *)
EXTENDS RemotePtt, TLC

CONSTANTS c1, c2, t1, t2

TwoCat == {c1, c2}
TwoTci == {t1, t2}

Symmetry == Permutations(TwoCat) \cup Permutations(TwoTci)
=============================================================================

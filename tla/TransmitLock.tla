---------------------------- MODULE TransmitLock ----------------------------
(***************************************************************************)
(* What the arbiter promises, without saying how: the transmitter has at   *)
(* most one holder; the operator may take it from anybody who is not the   *)
(* operator; nobody else ever takes a transmitter that is held.            *)
(***************************************************************************)
CONSTANTS Local,    \* producers the operator works with their own hands
          Remote,   \* client programs, and the radio itself
          Nobody

VARIABLE holder

Init == holder = Nobody

Take(p) == holder = Nobody /\ holder' = p

Preempt(p) == p \in Local /\ holder \in Remote /\ holder' = p

Drop == holder # Nobody /\ holder' = Nobody

Next == Drop \/ \E p \in Local \cup Remote : Take(p) \/ Preempt(p)

Spec == Init /\ [][Next]_holder
=============================================================================

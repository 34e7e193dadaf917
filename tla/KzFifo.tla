------------------------------- MODULE KzFifo -------------------------------
(***************************************************************************)
(* What network/kzegress.h promises of the path from the CW keying threads *)
(* to the K4 socket: one bounded FIFO.  Frames of one thread stay in the   *)
(* order it posted them, frames of several come out in the order they got  *)
(* their place, and none is refused while there is room.                   *)
(***************************************************************************)
EXTENDS Naturals, Sequences

CONSTANTS Frames,    \* records with a thread, from, and the frame's number among that thread's, n
          Capacity

VARIABLES queue,    \* frames accepted and not handed over
          handed,   \* frames handed to the socket, in order
          dropped   \* number of frames refused

Init == queue = <<>> /\ handed = <<>> /\ dropped = 0

InOrder(f, s) == \A i \in DOMAIN s : s[i].from = f.from => s[i].n < f.n

Accept(f) ==
  /\ InOrder(f, queue) /\ InOrder(f, handed)
  /\ Len(queue) < Capacity
  /\ queue' = Append(queue, f)
  /\ UNCHANGED <<handed, dropped>>

\* The frame being handed over may still occupy its place.
Refuse ==
  /\ Capacity <= Len(queue) + 1
  /\ dropped' = dropped + 1
  /\ UNCHANGED <<queue, handed>>

HandOver ==
  /\ queue # <<>>
  /\ queue' = Tail(queue)
  /\ handed' = Append(handed, Head(queue))
  /\ UNCHANGED dropped

Next == Refuse \/ HandOver \/ \E f \in Frames : Accept(f)

Spec == Init /\ [][Next]_<<queue, handed, dropped>>
=============================================================================

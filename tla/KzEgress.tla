------------------------------ MODULE KzEgress ------------------------------
(***************************************************************************)
(* network/kzegress.cpp: the lock-free queue by which the CW keying        *)
(* threads (the keyer, and the KPOD+ EP02 reader) hand KZ frames to the    *)
(* I/O thread.  One action per access to shared memory, so that every      *)
(* interleaving of post(), onWake() and drain() is a behaviour.  The       *)
(* accesses are sequentially consistent here: the slots are ordered by     *)
(* their acquire and release, the wake-up by the two seq_cst fences, and a *)
(* relaxed load that lags is a thread that pauses after its load.          *)
(* Fault_... are seeded faults: what the definition of that name would be  *)
(* with a plausible bug, for a property to catch.                          *)
(***************************************************************************)
EXTENDS Naturals, Sequences

CONSTANTS Threads,    \* the threads that post
          Capacity,   \* kCapacity, a power of two and more than one
          MaxPosts    \* bound: frames each thread posts

ASSUME EgressAssumption == Capacity \in Nat \ {0, 1} /\ MaxPosts \in Nat

VARIABLES
  slots,         \* m_slots: each a sequence number and a frame
  enqueuePos,    \* m_enqueuePos
  dequeuePos,    \* m_dequeuePos, the I/O thread's own
  wakePending,   \* m_wakePending
  readable,      \* the pipe holds at least one byte
  pc, pos,       \* of each posting thread: its next step in post(), and its local pos
  posted,        \* frames each thread has begun to post; numbers them
  io,            \* the I/O thread's next step
  dropped,       \* m_dropped
  claimed,       \* history: frames in the order they claimed a slot
  handed         \* history: frames given to drain()'s fn, in order

queueVars == <<slots, enqueuePos, dequeuePos, claimed, handed>>
vars == <<queueVars, wakePending, readable, pc, pos, posted, io, dropped>>

Slot(p) == p % Capacity

Frames == [from : Threads, n : 1 .. MaxPosts]

\* The frame a thread is posting.
Frame(t) == [from |-> t, n |-> posted[t]]

Init ==
  /\ slots = [i \in 0 .. Capacity - 1 |-> [sequence |-> i, frame |-> <<>>]]
  /\ enqueuePos = 0 /\ dequeuePos = 0 /\ dropped = 0
  /\ wakePending = FALSE /\ readable = FALSE
  /\ pc = [t \in Threads |-> "Out"] /\ pos = [t \in Threads |-> 0] /\ posted = [t \in Threads |-> 0]
  /\ io = "Asleep"
  /\ claimed = <<>> /\ handed = <<>>

-----------------------------------------------------------------------------
(* post(), on a keying thread. *)

Goes(t, from, to) == pc[t] = from /\ pc' = [pc EXCEPT ![t] = to]

Quietly == UNCHANGED <<wakePending, readable, io>>

PostBegins(t) ==
  /\ Goes(t, "Out", "Look")
  /\ posted[t] < MaxPosts
  /\ posted' = [posted EXCEPT ![t] = @ + 1]
  /\ pos' = [pos EXCEPT ![t] = enqueuePos]
  /\ UNCHANGED <<queueVars, dropped>> /\ Quietly

\* The slot is free for this position: claim it.
FindsRoom(t) ==
  /\ Goes(t, "Look", "Claim")
  /\ slots[Slot(pos[t])].sequence = pos[t]
  /\ UNCHANGED <<queueVars, pos, posted, dropped>> /\ Quietly

\* It still holds the frame of one lap ago.
FindsFull(t) ==
  /\ Goes(t, "Look", "Out")
  /\ slots[Slot(pos[t])].sequence < pos[t]
  /\ dropped' = dropped + 1
  /\ UNCHANGED <<queueVars, pos, posted>> /\ Quietly

\* Another thread was faster.
FallsBehind(t) ==
  /\ Goes(t, "Look", "Look")
  /\ slots[Slot(pos[t])].sequence > pos[t]
  /\ pos' = [pos EXCEPT ![t] = enqueuePos]
  /\ UNCHANGED <<queueVars, posted, dropped>> /\ Quietly

Fault_Claim(t) ==
  /\ Goes(t, "Claim", "Write")
  /\ enqueuePos' = pos[t] + 1
  /\ claimed' = Append(claimed, Frame(t))
  /\ UNCHANGED <<slots, dequeuePos, handed, pos, posted, dropped>> /\ Quietly

\* The compare-exchange.
Claim(t) ==
  /\ Goes(t, "Claim", "Write")
  /\ enqueuePos = pos[t]
  /\ enqueuePos' = pos[t] + 1
  /\ claimed' = Append(claimed, Frame(t))
  /\ UNCHANGED <<slots, dequeuePos, handed, pos, posted, dropped>> /\ Quietly

\* Another thread was faster, or the weak compare-exchange failed spuriously; pos is up to date either way.
ClaimFails(t) ==
  /\ Goes(t, "Claim", "Look")
  /\ pos' = [pos EXCEPT ![t] = enqueuePos]
  /\ UNCHANGED <<queueVars, posted, dropped>> /\ Quietly

Write(t) ==
  /\ Goes(t, "Write", "Publish")
  /\ slots' = [slots EXCEPT ![Slot(pos[t])].frame = Frame(t)]
  /\ UNCHANGED <<enqueuePos, dequeuePos, claimed, handed, pos, posted, dropped>> /\ Quietly

Publish(t) ==
  /\ Goes(t, "Publish", "Signal")
  /\ slots' = [slots EXCEPT ![Slot(pos[t])].sequence = pos[t] + 1]
  /\ UNCHANGED <<enqueuePos, dequeuePos, claimed, handed, pos, posted, dropped>> /\ Quietly

Fault_Signal(t) ==
  /\ Goes(t, "Signal", IF wakePending \/ dequeuePos # pos[t] THEN "Out" ELSE "Wake")
  /\ wakePending' = TRUE
  /\ UNCHANGED <<queueVars, pos, posted, dropped, readable, io>>

\* The exchange: whoever finds the flag clear wakes the I/O thread.
Signal(t) ==
  /\ Goes(t, "Signal", IF wakePending THEN "Out" ELSE "Wake")
  /\ wakePending' = TRUE
  /\ UNCHANGED <<queueVars, pos, posted, dropped, readable, io>>

Wake(t) ==
  /\ Goes(t, "Wake", "Out")
  /\ readable' = TRUE
  /\ UNCHANGED <<queueVars, pos, posted, dropped, wakePending, io>>

-----------------------------------------------------------------------------
(* onWake() and drain(), on the I/O thread. *)

IoGoes(from, to) == io = from /\ io' = to

Posters == UNCHANGED <<pc, pos, posted, dropped>>

\* The notifier fires for as long as the pipe is readable; onWake() empties it.
ReadPipe ==
  /\ IoGoes("Asleep", "Clear")
  /\ readable
  /\ readable' = FALSE
  /\ UNCHANGED <<queueVars, wakePending>> /\ Posters

ClearFlag ==
  /\ IoGoes("Clear", "Drain")
  /\ wakePending' = FALSE
  /\ UNCHANGED <<queueVars, readable>> /\ Posters

\* The frame at the head is published.
HeadPublished == slots[Slot(dequeuePos)].sequence = dequeuePos + 1

Fault_HandOver ==
  /\ IoGoes("Drain", "Free")
  /\ slots[Slot(dequeuePos)].sequence >= dequeuePos
  /\ handed' = Append(handed, slots[Slot(dequeuePos)].frame)
  /\ UNCHANGED <<slots, enqueuePos, dequeuePos, claimed, wakePending, readable>> /\ Posters

HandOver ==
  /\ IoGoes("Drain", "Free")
  /\ HeadPublished
  /\ handed' = Append(handed, slots[Slot(dequeuePos)].frame)
  /\ UNCHANGED <<slots, enqueuePos, dequeuePos, claimed, wakePending, readable>> /\ Posters

Fault_FreeSlot ==
  /\ IoGoes("Free", "Asleep")
  /\ slots' = [slots EXCEPT ![Slot(dequeuePos)].sequence = dequeuePos + Capacity]
  /\ dequeuePos' = dequeuePos + 1
  /\ UNCHANGED <<enqueuePos, claimed, handed, wakePending, readable>> /\ Posters

FreeSlot ==
  /\ IoGoes("Free", "Drain")
  /\ slots' = [slots EXCEPT ![Slot(dequeuePos)].sequence = dequeuePos + Capacity]
  /\ dequeuePos' = dequeuePos + 1
  /\ UNCHANGED <<enqueuePos, claimed, handed, wakePending, readable>> /\ Posters

\* Empty, or the next frame is claimed but not yet published.
DrainEnds ==
  /\ IoGoes("Drain", "Asleep")
  /\ ~HeadPublished
  /\ UNCHANGED <<queueVars, wakePending, readable>> /\ Posters

-----------------------------------------------------------------------------
PostStep(t) ==
  \/ FindsRoom(t) \/ FindsFull(t) \/ FallsBehind(t) \/ Claim(t) \/ ClaimFails(t)
  \/ Write(t) \/ Publish(t) \/ Signal(t) \/ Wake(t)

IoStep == ReadPipe \/ ClearFlag \/ HandOver \/ FreeSlot \/ DrainEnds

Next == IoStep \/ \E t \in Threads : PostBegins(t) \/ PostStep(t)

Spec == Init /\ [][Next]_vars

\* A posting thread runs on to the end of post(), which never waits; the I/O thread has an event loop.
FairSpec == Spec /\ WF_vars(IoStep) /\ \A t \in Threads : WF_vars(PostStep(t))

-----------------------------------------------------------------------------
(* What is checked. *)

\* No wake-up is lost: while a published frame is at the head, the I/O thread is awake, or about to
\* be woken, or some thread has yet to see that it must wake it.
NoLostWakeUp == HeadPublished /\ io = "Asleep" => readable \/ \E t \in Threads : pc[t] \in {"Signal", "Wake"}

\* A slot is written by one thread at a time, and never while the I/O thread reads it (the frame's
\* bytes are plain memory).
NoDataRace ==
  \A t \in Threads : pc[t] \in {"Write", "Publish"} =>
    /\ io = "Free" => Slot(pos[t]) # Slot(dequeuePos)
    /\ \A u \in Threads \ {t} : pc[u] \in {"Write", "Publish"} => Slot(pos[u]) # Slot(pos[t])

\* Frames come out in the order they claimed a slot, each once, each thread's in its own order, and
\* none is refused while there is room (kzegress.h).
Fifo == INSTANCE KzFifo
          WITH queue <- SubSeq(claimed, Len(handed) + 1, Len(claimed))

ImplementsFifo == Fifo!Spec

\* Every accepted frame is handed over: a dropped KZU leaves the radio keyed.
EveryFrameHandedOver == \A p \in 1 .. MaxPosts : Len(claimed) >= p ~> Len(handed) >= p
=============================================================================

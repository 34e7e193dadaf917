--------------------------- MODULE KzEgressProofs ---------------------------
(***************************************************************************)
(* Proofs about KzEgress, for every set of posting threads and every       *)
(* capacity: no wake-up is lost, the frames' bytes are not raced for, and  *)
(* the ring of sequence numbers is the FIFO of module KzFifo.              *)
(***************************************************************************)
EXTENDS KzEgress, Integers, SequenceTheorems, TLAPS

-----------------------------------------------------------------------------
(* Positions and slots. *)

LEMMA DivMod ==
  \A a \in Nat, c \in Nat \ {0} :
    a % c \in 0 .. c - 1 /\ a \div c \in Nat /\ a = c * (a \div c) + (a % c)
  BY Z3

LEMMA Multiples == \A c \in Nat \ {0}, x, y \in Int : x < y => c * x + c <= c * y
  BY Z3

LEMMA Euclid ==
  ASSUME NEW c \in Nat \ {0}, NEW x \in Nat, NEW y \in Nat, NEW r \in 0 .. c - 1, NEW s \in 0 .. c - 1,
         c * x + r = c * y + s
  PROVE  x = y /\ r = s
<1>1. ~(x < y)
  BY Multiples, Z3
<1>2. ~(y < x)
  BY Multiples, Z3
<1>3. x = y
  BY <1>1, <1>2
<1>. QED  BY <1>3, Z3

\* A position has a slot,
LEMMA SlotTyped == \A p \in Nat : Slot(p) \in 0 .. Capacity - 1
  BY EgressAssumption DEF Slot

\* the same one lap later,
LEMMA SlotWraps == \A p \in Nat : Slot(p + Capacity) = Slot(p)
<1>1. SUFFICES ASSUME NEW p \in Nat PROVE (p + Capacity) % Capacity = p % Capacity
  BY DEF Slot
<1>. DEFINE x == p \div Capacity
            r == p % Capacity
            y == (p + Capacity) \div Capacity
            s == (p + Capacity) % Capacity
<1>2. x \in Nat /\ r \in 0 .. Capacity - 1 /\ p = Capacity * x + r
  BY DivMod, EgressAssumption
<1>3. p + Capacity \in Nat
  BY EgressAssumption
<1>4. y \in Nat /\ s \in 0 .. Capacity - 1 /\ p + Capacity = Capacity * y + s
  BY <1>3, DivMod, EgressAssumption
<1>. HIDE DEF x, y, r, s
<1>5. Capacity * (x + 1) + r = Capacity * y + s
  BY <1>2, <1>4, EgressAssumption, Z3
<1>6. r = s
  BY <1>2, <1>4, <1>5, Euclid, EgressAssumption
<1>. QED  BY <1>6 DEF r, s

\* and no other position less than a lap away has it.
LEMMA SlotsDiffer == \A p, q \in Nat : p < q /\ q < p + Capacity => Slot(p) # Slot(q)
<1>1. SUFFICES ASSUME NEW p \in Nat, NEW q \in Nat, p < q, q < p + Capacity,
                      p % Capacity = q % Capacity
               PROVE  FALSE
  BY DEF Slot
<1>. DEFINE x == p \div Capacity
            r == p % Capacity
            y == q \div Capacity
<1>2. x \in Nat /\ r \in 0 .. Capacity - 1 /\ p = Capacity * x + r
  BY DivMod, EgressAssumption
<1>3. y \in Nat /\ q = Capacity * y + r
  BY <1>1, DivMod, EgressAssumption
<1>. HIDE DEF x, y, r
<1>4. x < y
  <2>1. ~(y < x)
    BY <1>1, <1>2, <1>3, Multiples, EgressAssumption, Z3
  <2>2. x # y
    BY <1>1, <1>2, <1>3, EgressAssumption, Z3
  <2>. QED  BY <1>2, <1>3, <2>1, <2>2
<1>5. Capacity * x + Capacity <= Capacity * y
  BY <1>2, <1>3, <1>4, Multiples, EgressAssumption
<1>. QED  BY <1>1, <1>2, <1>3, <1>5, EgressAssumption, Z3

-----------------------------------------------------------------------------
(* The inductive invariant. *)

SlotState == [sequence : Nat, frame : Frames \cup {<<>>}]

TypeOK ==
  /\ slots \in [0 .. Capacity - 1 -> SlotState]
  /\ enqueuePos \in Nat /\ dequeuePos \in Nat /\ dropped \in Nat
  /\ wakePending \in BOOLEAN /\ readable \in BOOLEAN
  /\ pc \in [Threads -> {"Out", "Look", "Claim", "Write", "Publish", "Signal", "Wake"}]
  /\ pos \in [Threads -> Nat] /\ posted \in [Threads -> 0 .. MaxPosts]
  /\ \A t \in Threads : pc[t] # "Out" => posted[t] > 0
  /\ io \in {"Asleep", "Clear", "Drain", "Free"}
  /\ claimed \in Seq(Frames) /\ handed \in Seq(Frames)

SequenceAt(p) == slots[Slot(p)].sequence

FrameAt(p) == slots[Slot(p)].frame

Owns(t) == pc[t] \in {"Write", "Publish"}

Window ==
  /\ dequeuePos <= enqueuePos /\ enqueuePos <= dequeuePos + Capacity
  /\ Len(claimed) = enqueuePos
  /\ Len(handed) = IF io = "Free" THEN dequeuePos + 1 ELSE dequeuePos
  /\ io = "Free" => HeadPublished

\* A position that was claimed and not freed holds its frame, or no frame yet.
Occupied ==
  \A p \in Nat : dequeuePos <= p /\ p < enqueuePos =>
    SequenceAt(p) = p \/ (SequenceAt(p) = p + 1 /\ FrameAt(p) = claimed[p + 1])

Vacant == \A p \in Nat : enqueuePos <= p /\ p < dequeuePos + Capacity => SequenceAt(p) = p

\* A thread that claimed a position has it to itself until it publishes.
Owned ==
  \A t \in Threads : Owns(t) =>
    /\ dequeuePos <= pos[t] /\ pos[t] < enqueuePos
    /\ SequenceAt(pos[t]) = pos[t]
    /\ claimed[pos[t] + 1] = Frame(t)
    /\ pc[t] = "Publish" => FrameAt(pos[t]) = Frame(t)
    /\ \A u \in Threads \ {t} : Owns(u) => pos[u] # pos[t]

\* What a thread that has not yet claimed may rely on.
Looking ==
  \A t \in Threads : pc[t] \in {"Look", "Claim"} =>
    /\ pos[t] <= enqueuePos
    /\ pos[t] < enqueuePos => SequenceAt(pos[t]) >= pos[t]
    /\ pc[t] = "Claim" /\ pos[t] = enqueuePos => enqueuePos < dequeuePos + Capacity

HandedInOrder == \A i \in 1 .. Len(handed) : handed[i] = claimed[i]

Numbered ==
  \A i \in 1 .. Len(claimed) :
    LET t == claimed[i].from
    IN  /\ claimed[i].n <= posted[t]
        /\ pc[t] \in {"Look", "Claim"} => claimed[i].n < posted[t]

\* A raised flag is a wake-up on its way.
FlagAccounted == wakePending => readable \/ io = "Clear" \/ \E t \in Threads : pc[t] = "Wake"

Ring == Window /\ Occupied /\ Vacant /\ Owned /\ Looking /\ HandedInOrder /\ Numbered

IInv == TypeOK /\ Ring /\ FlagAccounted /\ NoLostWakeUp

-----------------------------------------------------------------------------
(* Each part of the invariant is kept by every step. *)

\* A slot's positions, as the steps that write it see them.
LEMMA Apart ==
  ASSUME TypeOK, Window
  PROVE  \A p, q \in Nat : /\ dequeuePos <= p /\ p < dequeuePos + Capacity
                           /\ dequeuePos <= q /\ q < dequeuePos + Capacity
                           /\ Slot(p) = Slot(q)
                           => p = q
  BY SlotsDiffer, EgressAssumption DEF TypeOK

\* A published head is a claimed position, and its slot holds the frame that claimed it.
LEMMA HeadHolds ==
  ASSUME TypeOK, Window, Occupied, Vacant, HeadPublished
  PROVE  /\ dequeuePos < enqueuePos
         /\ slots[Slot(dequeuePos)].frame = claimed[dequeuePos + 1]
         /\ claimed[dequeuePos + 1] \in Frames
<1>1. dequeuePos \in Nat /\ enqueuePos \in Nat
  BY DEF TypeOK
<1>2. dequeuePos < enqueuePos
  BY <1>1, EgressAssumption DEF Window, Vacant, SequenceAt, HeadPublished
<1>3. slots[Slot(dequeuePos)].frame = claimed[dequeuePos + 1]
  BY <1>1, <1>2 DEF Occupied, SequenceAt, FrameAt, HeadPublished
<1>4. dequeuePos + 1 \in 1 .. Len(claimed)
  BY <1>1, <1>2 DEF Window
<1>. QED  BY <1>2, <1>3, <1>4 DEF TypeOK

\* What a store to the sequence number of position p's slot changes.
LEMMA SequenceStored ==
  ASSUME TypeOK, NEW p \in Nat, NEW v \in Nat, slots' = [slots EXCEPT ![Slot(p)].sequence = v]
  PROVE  /\ slots' \in [0 .. Capacity - 1 -> SlotState]
         /\ \A q \in Nat : SequenceAt(q)' = IF Slot(q) = Slot(p) THEN v ELSE SequenceAt(q)
         /\ \A q \in Nat : FrameAt(q)' = FrameAt(q)
<1>1. \A q \in Nat : Slot(q) \in 0 .. Capacity - 1
  BY SlotTyped
<1>2. \A i \in 0 .. Capacity - 1 : slots[i] \in SlotState
  BY DEF TypeOK
<1>3. \A i \in 0 .. Capacity - 1 :
        slots'[i] = IF i = Slot(p) THEN [slots[i] EXCEPT !.sequence = v] ELSE slots[i]
  BY <1>1 DEF TypeOK
<1>4. \A r \in SlotState :
        LET w == [r EXCEPT !.sequence = v] IN w \in SlotState /\ w.sequence = v /\ w.frame = r.frame
  BY DEF SlotState
<1>5. slots' \in [0 .. Capacity - 1 -> SlotState]
  <2>1. slots' = [i \in 0 .. Capacity - 1 |-> slots'[i]]
    BY DEF TypeOK
  <2>2. \A i \in 0 .. Capacity - 1 : slots'[i] \in SlotState
    BY <1>2, <1>3, <1>4
  <2>. QED  BY <2>1, <2>2
<1>. QED  BY <1>1, <1>2, <1>3, <1>4, <1>5 DEF SequenceAt, FrameAt

\* What a store to its frame changes.
LEMMA FrameStored ==
  ASSUME TypeOK, NEW p \in Nat, NEW f \in Frames, slots' = [slots EXCEPT ![Slot(p)].frame = f]
  PROVE  /\ slots' \in [0 .. Capacity - 1 -> SlotState]
         /\ \A q \in Nat : FrameAt(q)' = IF Slot(q) = Slot(p) THEN f ELSE FrameAt(q)
         /\ \A q \in Nat : SequenceAt(q)' = SequenceAt(q)
<1>1. \A q \in Nat : Slot(q) \in 0 .. Capacity - 1
  BY SlotTyped
<1>2. \A i \in 0 .. Capacity - 1 : slots[i] \in SlotState
  BY DEF TypeOK
<1>3. \A i \in 0 .. Capacity - 1 :
        slots'[i] = IF i = Slot(p) THEN [slots[i] EXCEPT !.frame = f] ELSE slots[i]
  BY <1>1 DEF TypeOK
<1>4. \A r \in SlotState :
        LET w == [r EXCEPT !.frame = f] IN w \in SlotState /\ w.frame = f /\ w.sequence = r.sequence
  BY DEF SlotState
<1>5. slots' \in [0 .. Capacity - 1 -> SlotState]
  <2>1. slots' = [i \in 0 .. Capacity - 1 |-> slots'[i]]
    BY DEF TypeOK
  <2>2. \A i \in 0 .. Capacity - 1 : slots'[i] \in SlotState
    BY <1>2, <1>3, <1>4
  <2>. QED  BY <2>1, <2>2
<1>. QED  BY <1>1, <1>2, <1>3, <1>4, <1>5 DEF SequenceAt, FrameAt

LEMMA InitIInv == Init => IInv
<1>1. SUFFICES ASSUME Init PROVE IInv
  OBVIOUS
<1>2. TypeOK
  <2>1. slots \in [0 .. Capacity - 1 -> SlotState]
    <3>1. \A i \in 0 .. Capacity - 1 : [sequence |-> i, frame |-> <<>>] \in SlotState
      BY EgressAssumption DEF SlotState
    <3>. QED  BY <1>1, <3>1 DEF Init
  <2>2. claimed \in Seq(Frames) /\ handed \in Seq(Frames)
    BY <1>1, EmptySeq DEF Init
  <2>3. posted \in [Threads -> 0 .. MaxPosts] /\ pos \in [Threads -> Nat]
    BY <1>1, EgressAssumption DEF Init
  <2>4. /\ pc \in [Threads -> {"Out", "Look", "Claim", "Write", "Publish", "Signal", "Wake"}]
        /\ \A t \in Threads : pc[t] # "Out" => posted[t] > 0
    BY <1>1 DEF Init
  <2>. QED  BY <1>1, <2>1, <2>2, <2>3, <2>4 DEF Init, TypeOK
<1>3. \A p \in Nat : p < Capacity => Slot(p) = p
  BY EgressAssumption DEF Slot
<1>4. Ring
  BY <1>1, <1>3, EgressAssumption, EmptySeq DEF Init, Ring, Window, Occupied, Vacant, Owned, Looking, HandedInOrder,
     Numbered, SequenceAt, Owns
<1>5. FlagAccounted /\ NoLostWakeUp
  BY <1>1, <1>3, EgressAssumption DEF Init, FlagAccounted, NoLostWakeUp, HeadPublished
<1>. QED  BY <1>2, <1>4, <1>5 DEF IInv

LEMMA FrameTyped ==
  ASSUME TypeOK, NEW t \in Threads, pc[t] # "Out"
  PROVE  Frame(t) \in Frames
<1>1. posted[t] \in 1 .. MaxPosts
  BY EgressAssumption DEF TypeOK
<1>. QED  BY <1>1 DEF Frame, Frames

LEMMA TypeStep == IInv /\ [Next]_vars => TypeOK'
<1>1. SUFFICES ASSUME IInv, [Next]_vars PROVE TypeOK'
  OBVIOUS
<1>2. TypeOK
  BY <1>1 DEF IInv
<1>3. CASE UNCHANGED vars
  BY <1>2, <1>3 DEF TypeOK, vars, queueVars
<1>4. ASSUME NEW t \in Threads, PostBegins(t) PROVE TypeOK'
  BY <1>2, <1>4, EgressAssumption DEF TypeOK, PostBegins, Goes, Quietly, queueVars
<1>5. ASSUME NEW t \in Threads, PostStep(t) PROVE TypeOK'
  <2>1. Frame(t) \in Frames \/ pc[t] = "Out"
    BY <1>2, FrameTyped
  <2>2. pos[t] \in Nat /\ pos[t] + 1 \in Nat
    BY <1>2 DEF TypeOK
  <2>3. CASE FindsRoom(t) \/ ClaimFails(t) \/ FallsBehind(t)
    BY <1>2, <2>3 DEF TypeOK, FindsRoom, ClaimFails, FallsBehind, Goes, Quietly, queueVars
  <2>4. CASE FindsFull(t)
    BY <1>2, <2>4 DEF TypeOK, FindsFull, Goes, Quietly, queueVars
  <2>5. CASE Claim(t)
    BY <1>2, <2>5, <2>1 DEF TypeOK, Claim, Goes, Quietly
  <2>6. CASE Write(t)
    <3>1. slots' \in [0 .. Capacity - 1 -> SlotState]
      BY <1>2, <2>1, <2>2, <2>6, FrameStored DEF Write, Goes
    <3>. QED  BY <1>2, <2>6, <3>1 DEF TypeOK, Write, Goes, Quietly
  <2>7. CASE Publish(t)
    <3>1. slots' \in [0 .. Capacity - 1 -> SlotState]
      BY <1>2, <2>2, <2>7, SequenceStored DEF Publish
    <3>. QED  BY <1>2, <2>7, <3>1 DEF TypeOK, Publish, Goes, Quietly
  <2>8. CASE Signal(t) \/ Wake(t)
    BY <1>2, <2>8 DEF TypeOK, Signal, Wake, Goes, queueVars
  <2>. QED  BY <1>5, <2>3, <2>4, <2>5, <2>6, <2>7, <2>8 DEF PostStep
<1>6. CASE ReadPipe \/ ClearFlag \/ DrainEnds
  BY <1>2, <1>6 DEF TypeOK, ReadPipe, ClearFlag, DrainEnds, IoGoes, Posters, queueVars
<1>7. CASE HandOver
  <2>1. slots[Slot(dequeuePos)].frame \in Frames
    BY <1>1, <1>7, HeadHolds DEF IInv, Ring, HandOver
  <2>. QED  BY <1>2, <1>7, <2>1 DEF TypeOK, HandOver, IoGoes, Posters
<1>8. CASE FreeSlot
  <2>1. dequeuePos \in Nat /\ dequeuePos + Capacity \in Nat
    BY <1>2, EgressAssumption DEF TypeOK
  <2>2. slots' \in [0 .. Capacity - 1 -> SlotState]
    BY <1>2, <1>8, <2>1, SequenceStored DEF FreeSlot
  <2>. QED  BY <1>2, <1>8, <2>1, <2>2 DEF TypeOK, FreeSlot, IoGoes, Posters
<1>. QED  BY <1>1, <1>3, <1>4, <1>5, <1>6, <1>7, <1>8 DEF Next, IoStep

LEMMA ClaimedFrames ==
  ASSUME TypeOK
  PROVE  \A i \in 1 .. Len(claimed) :
           claimed[i] \in Frames /\ claimed[i].from \in Threads /\ claimed[i].n \in Nat
<1>1. claimed \in Seq(Frames)
  BY DEF TypeOK
<1>2. \A i \in 1 .. Len(claimed) : claimed[i] \in Frames
  BY <1>1, ElementOfSeq
<1>3. \A f \in Frames : f.from \in Threads /\ f.n \in Nat
  BY EgressAssumption DEF Frames
<1>. QED  BY <1>2, <1>3

\* A step that leaves the queue alone, and does not begin or end the I/O thread's use of a frame.
LEMMA CalmStep ==
  ASSUME Window, Occupied, Vacant, HandedInOrder, UNCHANGED queueVars, (io = "Free") = (io' = "Free")
  PROVE  Window' /\ Occupied' /\ Vacant' /\ HandedInOrder'
  BY DEF Window, Occupied, Vacant, HandedInOrder, HeadPublished, SequenceAt, FrameAt, queueVars

\* The I/O thread's and the last steps of post() do not concern a position.
LEMMA QuietStep ==
  ASSUME IInv, UNCHANGED <<queueVars, pos, posted>>, (io = "Free") = (io' = "Free"),
         \A t \in Threads : pc'[t] = pc[t] \/ pc'[t] \in {"Out", "Wake"}
  PROVE  Ring'
<1>1. Window' /\ Occupied' /\ Vacant' /\ HandedInOrder'
  BY CalmStep DEF IInv, Ring
<1>2. Owned'
  BY DEF IInv, Ring, Owned, Owns, SequenceAt, FrameAt, Frame, queueVars
<1>3. Looking'
  BY DEF IInv, Ring, Looking, SequenceAt, queueVars
<1>4. Numbered'
  <2>1. SUFFICES ASSUME NEW i \in 1 .. Len(claimed)
                 PROVE  /\ claimed[i].n <= posted[claimed[i].from]
                        /\ pc'[claimed[i].from] \in {"Look", "Claim"} => claimed[i].n < posted[claimed[i].from]
    BY DEF Numbered, queueVars
  <2>2. claimed[i].from \in Threads
    BY ClaimedFrames DEF IInv
  <2>. QED  BY <2>2 DEF IInv, Ring, Numbered
<1>. QED  BY <1>1, <1>2, <1>3, <1>4 DEF Ring

LEMMA PostBeginsStep ==
  ASSUME IInv, NEW t \in Threads, PostBegins(t)
  PROVE  Ring'
<1>0. IInv /\ TypeOK /\ Ring
  BY DEF IInv
<1>. USE DEF PostBegins, Goes, Quietly
<1>1. Window' /\ Occupied' /\ Vacant' /\ HandedInOrder'
  BY <1>0, CalmStep DEF Ring
<1>2. Owned'
  BY <1>0 DEF Ring, Owned, Owns, SequenceAt, FrameAt, Frame, queueVars, TypeOK
<1>3. Looking'
  BY <1>0 DEF Ring, Looking, SequenceAt, queueVars, TypeOK
<1>4. Numbered'
  <2>1. SUFFICES ASSUME NEW i \in 1 .. Len(claimed)
                 PROVE  /\ claimed[i].n <= posted'[claimed[i].from]
                        /\ pc'[claimed[i].from] \in {"Look", "Claim"} => claimed[i].n < posted'[claimed[i].from]
    BY DEF Numbered, queueVars
  <2>2. claimed[i].from \in Threads /\ claimed[i].n \in Nat
    BY <1>0, ClaimedFrames
  <2>3. /\ claimed[i].n <= posted[claimed[i].from]
        /\ pc[claimed[i].from] \in {"Look", "Claim"} => claimed[i].n < posted[claimed[i].from]
    BY <1>0 DEF Ring, Numbered
  <2>. QED  BY <1>0, <2>2, <2>3, EgressAssumption DEF TypeOK
<1>. QED  BY <1>1, <1>2, <1>3, <1>4 DEF Ring

\* Looking again, or finding room.
LEMMA LookStep ==
  ASSUME IInv, NEW t \in Threads, FindsRoom(t) \/ FallsBehind(t) \/ ClaimFails(t)
  PROVE  Ring'
<1>0. IInv /\ TypeOK /\ Ring
  BY DEF IInv
<1>. USE DEF FindsRoom, FallsBehind, ClaimFails, Goes, Quietly
<1>1. Window' /\ Occupied' /\ Vacant' /\ HandedInOrder'
  BY <1>0, CalmStep DEF Ring
<1>2. Owned'
  <2>1. \A u \in Threads : /\ Owns(u)' = Owns(u)
                           /\ Owns(u) => pc'[u] = pc[u] /\ pos'[u] = pos[u]
    BY <1>0 DEF Owns, TypeOK
  <2>. QED  BY <1>0, <2>1 DEF Ring, Owned, SequenceAt, FrameAt, Frame, queueVars
<1>3. Looking'
  <2>1. CASE FindsRoom(t)
    <3>1. pos[t] = enqueuePos => enqueuePos < dequeuePos + Capacity
      <4>1. SUFFICES ASSUME pos[t] = enqueuePos, enqueuePos = dequeuePos + Capacity PROVE FALSE
        BY <1>0, EgressAssumption DEF Ring, Window, TypeOK
      <4>2. SequenceAt(dequeuePos) = dequeuePos + Capacity
        BY <1>0, <2>1, <4>1, SlotWraps DEF SequenceAt, TypeOK
      <4>3. SequenceAt(dequeuePos) \in {dequeuePos, dequeuePos + 1}
        <5>1. dequeuePos \in Nat /\ dequeuePos < enqueuePos
          BY <1>0, <4>1, EgressAssumption DEF TypeOK
        <5>. QED  BY <1>0, <5>1 DEF Ring, Occupied
      <4>. QED  BY <1>0, <4>2, <4>3, EgressAssumption DEF TypeOK
    <3>. QED  BY <1>0, <2>1, <3>1 DEF Ring, Looking, SequenceAt, queueVars, TypeOK
  <2>2. CASE FallsBehind(t) \/ ClaimFails(t)
    <3>1. \A u \in Threads \ {t} : pc'[u] = pc[u] /\ pos'[u] = pos[u]
      BY <1>0, <2>2 DEF TypeOK
    <3>2. pc'[t] = "Look" /\ pos'[t] = enqueuePos /\ enqueuePos \in Nat
      BY <1>0, <2>2 DEF TypeOK
    <3>3. UNCHANGED <<slots, enqueuePos, dequeuePos>>
      BY <2>2 DEF queueVars
    <3>. QED  BY <1>0, <3>1, <3>2, <3>3 DEF Ring, Looking, SequenceAt
  <2>. QED  BY <2>1, <2>2
<1>4. Numbered'
  <2>1. SUFFICES ASSUME NEW i \in 1 .. Len(claimed)
                 PROVE  /\ claimed[i].n <= posted[claimed[i].from]
                        /\ pc'[claimed[i].from] \in {"Look", "Claim"} => claimed[i].n < posted[claimed[i].from]
    BY DEF Numbered, queueVars
  <2>2. claimed[i].from \in Threads
    BY <1>0, ClaimedFrames
  <2>3. pc'[claimed[i].from] \in {"Look", "Claim"} => pc[claimed[i].from] \in {"Look", "Claim"}
    BY <1>0, <2>2 DEF TypeOK
  <2>. QED  BY <1>0, <2>3 DEF Ring, Numbered
<1>. QED  BY <1>1, <1>2, <1>3, <1>4 DEF Ring

LEMMA ClaimStep ==
  ASSUME IInv, NEW t \in Threads, Claim(t)
  PROVE  Ring'
<1>0. TypeOK /\ Ring /\ EgressAssumption
  BY EgressAssumption DEF IInv
<1>1. /\ pc[t] = "Claim" /\ pc'[t] = "Write" /\ pos[t] = enqueuePos /\ enqueuePos' = enqueuePos + 1
      /\ \A u \in Threads \ {t} : pc'[u] = pc[u]
      /\ UNCHANGED <<slots, dequeuePos, handed, pos, posted, io>>
  BY <1>0 DEF Claim, Goes, Quietly, TypeOK
<1>2. enqueuePos \in Nat /\ dequeuePos \in Nat /\ Capacity \in Nat \ {0, 1} /\ pos \in [Threads -> Nat]
  BY <1>0 DEF TypeOK, EgressAssumption
<1>3. enqueuePos < dequeuePos + Capacity /\ dequeuePos <= enqueuePos /\ SequenceAt(enqueuePos) = enqueuePos
  BY <1>0, <1>1, <1>2 DEF Ring, Window, Looking, Vacant
<1>4. Frame(t) \in Frames
  BY <1>0, <1>1, FrameTyped
<1>5. /\ Len(claimed) = enqueuePos /\ Len(claimed') = enqueuePos + 1
      /\ claimed'[enqueuePos + 1] = Frame(t)
      /\ \A i \in 1 .. enqueuePos : claimed'[i] = claimed[i]
  <2>1. claimed \in Seq(Frames) /\ claimed' = Append(claimed, Frame(t)) /\ Len(claimed) = enqueuePos
    BY <1>0 DEF TypeOK, Claim, Ring, Window
  <2>. QED  BY <1>4, <2>1, AppendProperties
<1>6. Window'
  BY <1>0, <1>1, <1>2, <1>3, <1>5 DEF Ring, Window, HeadPublished
<1>7. Occupied'
  <2>1. SUFFICES ASSUME NEW p \in Nat, dequeuePos <= p, p < enqueuePos + 1
                 PROVE  SequenceAt(p) = p \/ (SequenceAt(p) = p + 1 /\ FrameAt(p) = claimed'[p + 1])
    BY <1>1 DEF Occupied, SequenceAt, FrameAt
  <2>2. CASE p = enqueuePos
    BY <1>3, <2>2
  <2>3. CASE p < enqueuePos
    BY <1>0, <1>2, <1>5, <2>1, <2>3 DEF Ring, Occupied
  <2>. QED  BY <1>2, <2>1, <2>2, <2>3
<1>8. Vacant'
  BY <1>0, <1>1, <1>2 DEF Ring, Vacant, SequenceAt
<1>9. Owned'
  <2>1. SUFFICES ASSUME NEW u \in Threads, Owns(u)'
                 PROVE  /\ dequeuePos <= pos[u] /\ pos[u] < enqueuePos + 1
                        /\ SequenceAt(pos[u]) = pos[u]
                        /\ claimed'[pos[u] + 1] = Frame(u)
                        /\ pc'[u] = "Publish" => FrameAt(pos[u]) = Frame(u)
                        /\ \A w \in Threads \ {u} : Owns(w)' => pos[w] # pos[u]
    BY <1>1 DEF Owned, SequenceAt, FrameAt, Frame
  <2>2. \A w \in Threads \ {t} : Owns(w)' => Owns(w) /\ dequeuePos <= pos[w] /\ pos[w] < enqueuePos
    BY <1>0, <1>1 DEF Ring, Owned, Owns
  <2>3. CASE u = t
    BY <1>1, <1>2, <1>3, <1>5, <2>2, <2>3
  <2>4. CASE u # t
    <3>1. Owns(u) /\ dequeuePos <= pos[u] /\ pos[u] < enqueuePos /\ pos[u] \in Nat /\ pc'[u] = pc[u]
      BY <1>1, <1>2, <2>1, <2>2, <2>4
    <3>2. /\ SequenceAt(pos[u]) = pos[u] /\ claimed[pos[u] + 1] = Frame(u)
          /\ pc[u] = "Publish" => FrameAt(pos[u]) = Frame(u)
          /\ \A w \in Threads \ {u} : Owns(w) => pos[w] # pos[u]
      BY <1>0, <3>1 DEF Ring, Owned
    <3>3. claimed'[pos[u] + 1] = claimed[pos[u] + 1]
      BY <1>2, <1>5, <3>1
    <3>4. \A w \in Threads \ {u} : Owns(w)' => pos[w] # pos[u]
      BY <1>1, <1>2, <2>2, <3>1, <3>2
    <3>. QED  BY <1>2, <3>1, <3>2, <3>3, <3>4
  <2>. QED  BY <2>3, <2>4
<1>10. Looking'
  <2>1. SUFFICES ASSUME NEW u \in Threads, pc'[u] \in {"Look", "Claim"}
                 PROVE  /\ pos[u] <= enqueuePos + 1
                        /\ pos[u] < enqueuePos + 1 => SequenceAt(pos[u]) >= pos[u]
                        /\ pos[u] # enqueuePos + 1
    BY <1>1 DEF Looking, SequenceAt
  <2>2. pc[u] \in {"Look", "Claim"} /\ pos[u] \in Nat
    BY <1>1, <1>2, <2>1
  <2>. QED  BY <1>0, <1>2, <1>3, <2>2 DEF Ring, Looking
<1>11. HandedInOrder'
  <2>1. Len(handed) <= enqueuePos
    BY <1>0, <1>2, HeadHolds DEF Ring, Window
  <2>2. Len(handed) \in Nat
    BY <1>0, <1>2 DEF Ring, Window
  <2>. QED  BY <1>0, <1>1, <1>2, <1>5, <2>1, <2>2 DEF Ring, HandedInOrder
<1>12. Numbered'
  <2>1. SUFFICES ASSUME NEW i \in 1 .. enqueuePos + 1
                 PROVE  /\ claimed'[i].n <= posted[claimed'[i].from]
                        /\ pc'[claimed'[i].from] \in {"Look", "Claim"} => claimed'[i].n < posted[claimed'[i].from]
    BY <1>1, <1>5 DEF Numbered
  <2>2. CASE i = enqueuePos + 1
    BY <1>0, <1>1, <1>5, <2>2 DEF Frame, TypeOK
  <2>3. CASE i # enqueuePos + 1
    <3>1. i \in 1 .. Len(claimed) /\ claimed'[i] = claimed[i]
      BY <1>2, <1>5, <2>3
    <3>2. claimed[i].from \in Threads
      BY <1>0, <3>1, ClaimedFrames
    <3>3. pc'[claimed[i].from] \in {"Look", "Claim"} => pc[claimed[i].from] \in {"Look", "Claim"}
      BY <1>1, <3>2
    <3>. QED  BY <1>0, <3>1, <3>3 DEF Ring, Numbered
  <2>. QED  BY <2>2, <2>3
<1>. QED  BY <1>6, <1>7, <1>8, <1>9, <1>10, <1>11, <1>12 DEF Ring

LEMMA WriteStep ==
  ASSUME IInv, NEW t \in Threads, Write(t)
  PROVE  Ring'
<1>0. TypeOK /\ Ring /\ EgressAssumption
  BY EgressAssumption DEF IInv
<1>1. /\ pc[t] = "Write" /\ pc'[t] = "Publish" /\ \A u \in Threads \ {t} : pc'[u] = pc[u]
      /\ slots' = [slots EXCEPT ![Slot(pos[t])].frame = Frame(t)]
      /\ UNCHANGED <<enqueuePos, dequeuePos, claimed, handed, pos, posted, io>>
  BY <1>0 DEF Write, Goes, Quietly, TypeOK
<1>2. enqueuePos \in Nat /\ dequeuePos \in Nat /\ Capacity \in Nat \ {0, 1} /\ pos \in [Threads -> Nat]
  BY <1>0 DEF TypeOK, EgressAssumption
<1>3. /\ \A q \in Nat : SequenceAt(q)' = SequenceAt(q)
      /\ \A q \in Nat : FrameAt(q)' = IF Slot(q) = Slot(pos[t]) THEN Frame(t) ELSE FrameAt(q)
  BY <1>0, <1>1, <1>2, FrameTyped, FrameStored
<1>4. dequeuePos <= pos[t] /\ pos[t] < enqueuePos /\ SequenceAt(pos[t]) = pos[t] /\ claimed[pos[t] + 1] = Frame(t)
  BY <1>0, <1>1 DEF Ring, Owned, Owns
<1>5. \A q \in Nat : dequeuePos <= q /\ q < enqueuePos /\ q # pos[t] => Slot(q) # Slot(pos[t])
  BY <1>0, <1>2, <1>4, Apart DEF Ring, Window
<1>6. Window'
  BY <1>0, <1>1, <1>2, <1>3 DEF Ring, Window, HeadPublished, SequenceAt
<1>7. Occupied'
  BY <1>0, <1>1, <1>2, <1>3, <1>4, <1>5 DEF Ring, Occupied
<1>8. Vacant'
  BY <1>0, <1>1, <1>3 DEF Ring, Vacant
<1>9. Owned'
  <2>1. SUFFICES ASSUME NEW u \in Threads, Owns(u)'
                 PROVE  /\ dequeuePos <= pos[u] /\ pos[u] < enqueuePos
                        /\ SequenceAt(pos[u])' = pos[u]
                        /\ claimed[pos[u] + 1] = Frame(u)
                        /\ pc'[u] = "Publish" => FrameAt(pos[u])' = Frame(u)
                        /\ \A w \in Threads \ {u} : Owns(w)' => pos[w] # pos[u]
    BY <1>1 DEF Owned, SequenceAt, FrameAt, Frame
  <2>2. \A w \in Threads : Owns(w)' = Owns(w)
    BY <1>1 DEF Owns
  <2>3. /\ dequeuePos <= pos[u] /\ pos[u] < enqueuePos /\ SequenceAt(pos[u]) = pos[u]
        /\ claimed[pos[u] + 1] = Frame(u)
        /\ pc[u] = "Publish" => FrameAt(pos[u]) = Frame(u)
        /\ \A w \in Threads \ {u} : Owns(w) => pos[w] # pos[u]
    BY <1>0, <2>1, <2>2 DEF Ring, Owned
  <2>4. pc'[u] = "Publish" => FrameAt(pos[u])' = Frame(u)
    <3>1. CASE u = t
      BY <1>1, <1>2, <1>3, <3>1
    <3>2. CASE u # t
      <4>1. pos[u] # pos[t]
        BY <1>1, <2>3, <3>2 DEF Owns
      <4>. QED  BY <1>1, <1>2, <1>3, <1>5, <2>3, <3>2, <4>1
    <3>. QED  BY <3>1, <3>2
  <2>. QED  BY <1>1, <1>2, <1>3, <2>2, <2>3, <2>4
<1>10. Looking'
  <2>1. \A u \in Threads : pc'[u] \in {"Look", "Claim"} => pc'[u] = pc[u]
    BY <1>1
  <2>. QED  BY <1>0, <1>1, <1>2, <1>3, <2>1 DEF Ring, Looking
<1>11. HandedInOrder'
  BY <1>0, <1>1 DEF Ring, HandedInOrder
<1>12. Numbered'
  <2>1. \A u \in Threads : pc'[u] \in {"Look", "Claim"} => pc'[u] = pc[u]
    BY <1>1
  <2>. QED  BY <1>0, <1>1, <2>1, ClaimedFrames DEF Ring, Numbered
<1>. QED  BY <1>6, <1>7, <1>8, <1>9, <1>10, <1>11, <1>12 DEF Ring

LEMMA PublishStep ==
  ASSUME IInv, NEW t \in Threads, Publish(t)
  PROVE  Ring'
<1>0. TypeOK /\ Ring /\ EgressAssumption
  BY EgressAssumption DEF IInv
<1>1. /\ pc[t] = "Publish" /\ pc'[t] = "Signal" /\ \A u \in Threads \ {t} : pc'[u] = pc[u]
      /\ slots' = [slots EXCEPT ![Slot(pos[t])].sequence = pos[t] + 1]
      /\ UNCHANGED <<enqueuePos, dequeuePos, claimed, handed, pos, posted, io>>
  BY <1>0 DEF Publish, Goes, Quietly, TypeOK
<1>2. enqueuePos \in Nat /\ dequeuePos \in Nat /\ Capacity \in Nat \ {0, 1} /\ pos \in [Threads -> Nat]
  BY <1>0 DEF TypeOK, EgressAssumption
<1>3. /\ \A q \in Nat : SequenceAt(q)' = IF Slot(q) = Slot(pos[t]) THEN pos[t] + 1 ELSE SequenceAt(q)
      /\ \A q \in Nat : FrameAt(q)' = FrameAt(q)
  <2>1. pos[t] \in Nat /\ pos[t] + 1 \in Nat
    BY <1>2
  <2>. QED  BY <1>0, <1>1, <2>1, SequenceStored
<1>4. /\ dequeuePos <= pos[t] /\ pos[t] < enqueuePos /\ SequenceAt(pos[t]) = pos[t]
      /\ claimed[pos[t] + 1] = Frame(t) /\ FrameAt(pos[t]) = Frame(t)
  BY <1>0, <1>1 DEF Ring, Owned, Owns
<1>5. \A q \in Nat : dequeuePos <= q /\ q < dequeuePos + Capacity /\ q # pos[t] => Slot(q) # Slot(pos[t])
  BY <1>0, <1>2, <1>4, Apart DEF Ring, Window
<1>6. Window'
  <2>1. HeadPublished => HeadPublished'
    BY <1>1, <1>2, <1>3, <1>4, <1>5 DEF HeadPublished, SequenceAt
  <2>. QED  BY <1>0, <1>1, <2>1 DEF Ring, Window
<1>7. Occupied'
  BY <1>0, <1>1, <1>2, <1>3, <1>4, <1>5 DEF Ring, Window, Occupied
<1>8. Vacant'
  BY <1>0, <1>1, <1>2, <1>3, <1>4, <1>5 DEF Ring, Window, Vacant
<1>9. Owned'
  <2>1. SUFFICES ASSUME NEW u \in Threads, Owns(u)'
                 PROVE  /\ dequeuePos <= pos[u] /\ pos[u] < enqueuePos
                        /\ SequenceAt(pos[u])' = pos[u]
                        /\ claimed[pos[u] + 1] = Frame(u)
                        /\ pc'[u] = "Publish" => FrameAt(pos[u])' = Frame(u)
                        /\ \A w \in Threads \ {u} : Owns(w)' => pos[w] # pos[u]
    BY <1>1 DEF Owned, SequenceAt, FrameAt, Frame
  <2>2. \A w \in Threads : Owns(w)' => Owns(w) /\ w # t
    BY <1>1 DEF Owns
  <2>3. /\ dequeuePos <= pos[u] /\ pos[u] < enqueuePos /\ SequenceAt(pos[u]) = pos[u]
        /\ claimed[pos[u] + 1] = Frame(u)
        /\ pc[u] = "Publish" => FrameAt(pos[u]) = Frame(u)
        /\ \A w \in Threads \ {u} : Owns(w) => pos[w] # pos[u]
    BY <1>0, <2>1, <2>2 DEF Ring, Owned
  <2>4. pos[u] # pos[t]
    BY <1>1, <2>1, <2>2, <2>3 DEF Owns
  <2>5. Slot(pos[u]) # Slot(pos[t])
    BY <1>0, <1>2, <1>5, <2>3, <2>4 DEF Ring, Window
  <2>. QED  BY <1>1, <1>2, <1>3, <2>1, <2>2, <2>3, <2>5
<1>10. Looking'
  <2>1. SUFFICES ASSUME NEW u \in Threads, pc'[u] \in {"Look", "Claim"}
                 PROVE  /\ pos[u] <= enqueuePos
                        /\ pos[u] < enqueuePos => SequenceAt(pos[u])' >= pos[u]
                        /\ pc'[u] = "Claim" /\ pos[u] = enqueuePos => enqueuePos < dequeuePos + Capacity
    BY <1>1 DEF Looking, SequenceAt
  <2>2. /\ pos[u] <= enqueuePos
        /\ pos[u] < enqueuePos => SequenceAt(pos[u]) >= pos[u]
        /\ pc'[u] = "Claim" /\ pos[u] = enqueuePos => enqueuePos < dequeuePos + Capacity
    BY <1>0, <1>1, <2>1 DEF Ring, Looking
  <2>3. SequenceAt(pos[u]) >= pos[u] => SequenceAt(pos[u])' >= pos[u]
    <3>1. SequenceAt(pos[u])' = IF Slot(pos[u]) = Slot(pos[t]) THEN pos[t] + 1 ELSE SequenceAt(pos[u])
      BY <1>1, <1>2, <1>3
    <3>2. Slot(pos[u]) = Slot(pos[t]) => SequenceAt(pos[u]) = pos[t]
      BY <1>4 DEF SequenceAt
    <3>. QED  BY <1>2, <3>1, <3>2
  <2>. QED  BY <2>2, <2>3
<1>11. HandedInOrder'
  BY <1>0, <1>1 DEF Ring, HandedInOrder
<1>12. Numbered'
  <2>1. \A u \in Threads : pc'[u] \in {"Look", "Claim"} => pc'[u] = pc[u]
    BY <1>1
  <2>. QED  BY <1>0, <1>1, <2>1, ClaimedFrames DEF Ring, Numbered
<1>. QED  BY <1>6, <1>7, <1>8, <1>9, <1>10, <1>11, <1>12 DEF Ring

LEMMA HandOverStep ==
  ASSUME IInv, HandOver
  PROVE  Ring'
<1>0. TypeOK /\ Ring /\ EgressAssumption
  BY EgressAssumption DEF IInv
<1>1. /\ io = "Drain" /\ io' = "Free" /\ HeadPublished
      /\ UNCHANGED <<slots, enqueuePos, dequeuePos, claimed, pc, pos, posted>>
  BY DEF HandOver, IoGoes, Posters
<1>2. enqueuePos \in Nat /\ dequeuePos \in Nat
  BY <1>0 DEF TypeOK
<1>3. /\ dequeuePos < enqueuePos /\ claimed[dequeuePos + 1] \in Frames
      /\ handed' = Append(handed, claimed[dequeuePos + 1])
  BY <1>0, <1>1, HeadHolds DEF HandOver, Ring
<1>4. /\ Len(handed) = dequeuePos /\ Len(handed') = dequeuePos + 1
      /\ handed'[dequeuePos + 1] = claimed[dequeuePos + 1]
      /\ \A i \in 1 .. dequeuePos : handed'[i] = handed[i]
  <2>1. handed \in Seq(Frames) /\ Len(handed) = dequeuePos
    BY <1>0, <1>1 DEF TypeOK, Ring, Window
  <2>. QED  BY <1>3, <2>1, AppendProperties
<1>5. Window'
  BY <1>0, <1>1, <1>4 DEF Ring, Window, HeadPublished
<1>6. Occupied' /\ Vacant' /\ Owned' /\ Looking' /\ Numbered'
  BY <1>0, <1>1 DEF Ring, Occupied, Vacant, Owned, Looking, Numbered, SequenceAt, FrameAt, Owns, Frame
<1>7. HandedInOrder'
  BY <1>0, <1>1, <1>2, <1>4 DEF Ring, HandedInOrder
<1>. QED  BY <1>5, <1>6, <1>7 DEF Ring

LEMMA FreeSlotStep ==
  ASSUME IInv, FreeSlot
  PROVE  Ring'
<1>0. TypeOK /\ Ring /\ EgressAssumption
  BY EgressAssumption DEF IInv
<1>1. /\ io = "Free" /\ io' = "Drain" /\ HeadPublished /\ dequeuePos' = dequeuePos + 1
      /\ slots' = [slots EXCEPT ![Slot(dequeuePos)].sequence = dequeuePos + Capacity]
      /\ UNCHANGED <<enqueuePos, claimed, handed, pc, pos, posted>>
  BY <1>0 DEF FreeSlot, IoGoes, Posters, Ring, Window
<1>2. enqueuePos \in Nat /\ dequeuePos \in Nat /\ Capacity \in Nat \ {0, 1} /\ pos \in [Threads -> Nat]
  BY <1>0 DEF TypeOK, EgressAssumption
<1>3. /\ \A q \in Nat : SequenceAt(q)' = IF Slot(q) = Slot(dequeuePos) THEN dequeuePos + Capacity ELSE SequenceAt(q)
      /\ \A q \in Nat : FrameAt(q)' = FrameAt(q)
  <2>1. dequeuePos + Capacity \in Nat
    BY <1>2
  <2>. QED  BY <1>0, <1>1, <1>2, <2>1, SequenceStored
<1>4. dequeuePos < enqueuePos /\ SequenceAt(dequeuePos) = dequeuePos + 1
  BY <1>0, <1>1, HeadHolds DEF Ring, HeadPublished, SequenceAt
<1>5. \A q \in Nat : dequeuePos < q /\ q < dequeuePos + Capacity => Slot(q) # Slot(dequeuePos)
  BY <1>2, SlotsDiffer
<1>6. enqueuePos <= dequeuePos + Capacity
  BY <1>0 DEF Ring, Window
<1>7. Window'
  BY <1>0, <1>1, <1>2, <1>4 DEF Ring, Window
<1>8. Occupied'
  BY <1>0, <1>1, <1>2, <1>3, <1>5, <1>6 DEF Ring, Occupied
<1>9. Vacant'
  <2>1. SUFFICES ASSUME NEW p \in Nat, enqueuePos <= p, p < dequeuePos + 1 + Capacity
                 PROVE  SequenceAt(p)' = p
    BY <1>1 DEF Vacant, SequenceAt
  <2>2. CASE p = dequeuePos + Capacity
    BY <1>2, <1>3, <2>2, SlotWraps
  <2>3. CASE p # dequeuePos + Capacity
    BY <1>0, <1>2, <1>3, <1>4, <1>5, <2>1, <2>3 DEF Ring, Vacant
  <2>. QED  BY <2>2, <2>3
<1>10. Owned'
  <2>1. SUFFICES ASSUME NEW u \in Threads, Owns(u)
                 PROVE  /\ dequeuePos + 1 <= pos[u] /\ pos[u] < enqueuePos
                        /\ SequenceAt(pos[u])' = pos[u]
                        /\ claimed[pos[u] + 1] = Frame(u)
                        /\ pc[u] = "Publish" => FrameAt(pos[u])' = Frame(u)
                        /\ \A w \in Threads \ {u} : Owns(w) => pos[w] # pos[u]
    BY <1>1 DEF Owned, SequenceAt, FrameAt, Frame, Owns
  <2>2. /\ dequeuePos <= pos[u] /\ pos[u] < enqueuePos /\ SequenceAt(pos[u]) = pos[u]
        /\ claimed[pos[u] + 1] = Frame(u)
        /\ pc[u] = "Publish" => FrameAt(pos[u]) = Frame(u)
        /\ \A w \in Threads \ {u} : Owns(w) => pos[w] # pos[u]
    BY <1>0, <2>1 DEF Ring, Owned
  <2>3. pos[u] # dequeuePos
    BY <1>2, <1>4, <2>2
  <2>4. Slot(pos[u]) # Slot(dequeuePos)
    BY <1>2, <1>5, <1>6, <2>2, <2>3
  <2>. QED  BY <1>1, <1>2, <1>3, <2>2, <2>3, <2>4
<1>11. Looking'
  <2>1. SUFFICES ASSUME NEW u \in Threads, pc[u] \in {"Look", "Claim"}
                 PROVE  /\ pos[u] <= enqueuePos
                        /\ pos[u] < enqueuePos => SequenceAt(pos[u])' >= pos[u]
                        /\ pc[u] = "Claim" /\ pos[u] = enqueuePos => enqueuePos < dequeuePos + 1 + Capacity
    BY <1>1 DEF Looking, SequenceAt
  <2>2. /\ pos[u] <= enqueuePos
        /\ pos[u] < enqueuePos => SequenceAt(pos[u]) >= pos[u]
        /\ pc[u] = "Claim" /\ pos[u] = enqueuePos => enqueuePos < dequeuePos + Capacity
    BY <1>0, <2>1 DEF Ring, Looking
  <2>3. SequenceAt(pos[u])' = IF Slot(pos[u]) = Slot(dequeuePos) THEN dequeuePos + Capacity ELSE SequenceAt(pos[u])
    BY <1>1, <1>2, <1>3
  <2>. QED  BY <1>2, <1>6, <2>2, <2>3
<1>12. HandedInOrder'
  BY <1>0, <1>1 DEF Ring, HandedInOrder
<1>13. Numbered'
  BY <1>0, <1>1 DEF Ring, Numbered
<1>. QED  BY <1>7, <1>8, <1>9, <1>10, <1>11, <1>12, <1>13 DEF Ring

LEMMA RingStep == IInv /\ [Next]_vars => Ring'
<1>1. SUFFICES ASSUME IInv, [Next]_vars PROVE Ring'
  OBVIOUS
<1>2. TypeOK
  BY <1>1 DEF IInv
<1>3. CASE UNCHANGED vars
  BY <1>1, <1>3, QuietStep DEF vars
<1>4. ASSUME NEW t \in Threads, PostBegins(t) PROVE Ring'
  BY <1>1, <1>4, PostBeginsStep
<1>5. ASSUME NEW t \in Threads, PostStep(t) PROVE Ring'
  <2>1. CASE FindsRoom(t) \/ FallsBehind(t) \/ ClaimFails(t)
    BY <1>1, <2>1, LookStep
  <2>2. CASE FindsFull(t) \/ Signal(t) \/ Wake(t)
    <3>1. /\ UNCHANGED <<queueVars, pos, posted, io>>
          /\ \A u \in Threads : pc'[u] = pc[u] \/ pc'[u] \in {"Out", "Wake"}
      BY <1>2, <2>2 DEF FindsFull, Signal, Wake, Goes, Quietly, TypeOK
    <3>. QED  BY <1>1, <3>1, QuietStep
  <2>3. CASE Claim(t)
    BY <1>1, <2>3, ClaimStep
  <2>4. CASE Write(t)
    BY <1>1, <2>4, WriteStep
  <2>5. CASE Publish(t)
    BY <1>1, <2>5, PublishStep
  <2>. QED  BY <1>5, <2>1, <2>2, <2>3, <2>4, <2>5 DEF PostStep
<1>6. CASE ReadPipe \/ ClearFlag \/ DrainEnds
  <2>1. UNCHANGED <<queueVars, pos, posted, pc>> /\ io # "Free" /\ io' # "Free"
    BY <1>6 DEF ReadPipe, ClearFlag, DrainEnds, IoGoes, Posters
  <2>. QED  BY <1>1, <2>1, QuietStep
<1>7. CASE HandOver
  BY <1>1, <1>7, HandOverStep
<1>8. CASE FreeSlot
  BY <1>1, <1>8, FreeSlotStep
<1>. QED  BY <1>1, <1>3, <1>4, <1>5, <1>6, <1>7, <1>8 DEF Next, IoStep

\* The wake-up.  A thread that published has yet to look at the flag; a flag found raised is a wake-up
\* on its way; and the I/O thread lowers it before it looks at the queue.
LEMMA WakeStep == IInv /\ [Next]_vars => FlagAccounted' /\ NoLostWakeUp'
<1>1. SUFFICES ASSUME IInv, [Next]_vars PROVE FlagAccounted' /\ NoLostWakeUp'
  OBVIOUS
<1>2. TypeOK /\ FlagAccounted /\ NoLostWakeUp
  BY <1>1 DEF IInv
<1>. USE DEF FlagAccounted, NoLostWakeUp
<1>3. CASE UNCHANGED vars
  BY <1>2, <1>3 DEF vars, queueVars, HeadPublished
<1>4. ASSUME NEW t \in Threads,
             PostBegins(t) \/ FindsRoom(t) \/ FindsFull(t) \/ FallsBehind(t) \/ Claim(t) \/ ClaimFails(t) \/ Write(t)
      PROVE  FlagAccounted' /\ NoLostWakeUp'
  <2>1. /\ UNCHANGED <<dequeuePos, wakePending, readable, io>>
        /\ \A u \in Threads : pc[u] \in {"Signal", "Wake"} => pc'[u] = pc[u]
    BY <1>2, <1>4 DEF TypeOK, PostBegins, FindsRoom, FindsFull, FallsBehind, Claim, ClaimFails, Write, Goes, Quietly,
       queueVars
  <2>2. HeadPublished' => HeadPublished
    <3>1. CASE Write(t)
      <4>1. pos[t] \in Nat /\ dequeuePos \in Nat /\ Frame(t) \in Frames
        BY <1>2, <3>1, FrameTyped DEF TypeOK, Write, Goes
      <4>2. SequenceAt(dequeuePos)' = SequenceAt(dequeuePos)
        BY <1>2, <2>1, <3>1, <4>1, FrameStored DEF Write, SequenceAt
      <4>. QED  BY <2>1, <4>2 DEF HeadPublished, SequenceAt
    <3>2. CASE ~Write(t)
      BY <1>4, <2>1, <3>2 DEF PostBegins, FindsRoom, FindsFull, FallsBehind, Claim, ClaimFails, queueVars, HeadPublished
    <3>. QED  BY <3>1, <3>2
  <2>. QED  BY <1>2, <2>1, <2>2
<1>5. ASSUME NEW t \in Threads, Publish(t) PROVE FlagAccounted' /\ NoLostWakeUp'
  <2>1. /\ UNCHANGED <<wakePending, readable, io>> /\ pc'[t] = "Signal"
        /\ \A u \in Threads : pc[u] = "Wake" => pc'[u] = "Wake"
    BY <1>2, <1>5 DEF TypeOK, Publish, Goes, Quietly
  <2>. QED  BY <1>2, <2>1
<1>6. ASSUME NEW t \in Threads, Signal(t) PROVE FlagAccounted' /\ NoLostWakeUp'
  <2>1. /\ UNCHANGED <<queueVars, readable, io>> /\ wakePending'
        /\ ~wakePending => pc'[t] = "Wake"
        /\ \A u \in Threads : pc[u] = "Wake" => pc'[u] = "Wake"
    BY <1>2, <1>6 DEF TypeOK, Signal, Goes
  <2>. QED  BY <1>2, <2>1
<1>7. ASSUME NEW t \in Threads, Wake(t) PROVE FlagAccounted' /\ NoLostWakeUp'
  BY <1>7 DEF Wake
<1>8. CASE ReadPipe \/ ClearFlag
  BY <1>8 DEF ReadPipe, ClearFlag, IoGoes, Posters
<1>9. CASE HandOver \/ FreeSlot
  BY <1>2, <1>9 DEF HandOver, FreeSlot, IoGoes, Posters
<1>10. CASE DrainEnds
  BY <1>2, <1>10 DEF DrainEnds, IoGoes, Posters, queueVars, HeadPublished
<1>. QED  BY <1>1, <1>3, <1>4, <1>5, <1>6, <1>7, <1>8, <1>9, <1>10 DEF Next, IoStep, PostStep

-----------------------------------------------------------------------------
(* The theorems. *)

\* The inductive invariant, for every set of posting threads and every capacity (kzegress.cpp).
THEOREM RingInvariant == Spec => []IInv
<1>1. Init => IInv
  BY InitIInv
<1>2. IInv /\ [Next]_vars => IInv'
  BY TypeStep, RingStep, WakeStep DEF IInv
<1>. QED  BY <1>1, <1>2, PTL DEF Spec

\* No posted frame waits for a wake-up nobody is going to send (post() and onWake()).
THEOREM WakeUpsAreNotLost == Spec => []NoLostWakeUp
<1>1. IInv => NoLostWakeUp
  BY DEF IInv
<1>. QED  BY <1>1, RingInvariant, PTL

\* The plain memory of a slot has one user at a time (post() and drain()).
THEOREM SlotsAreNotRacedFor == Spec => []NoDataRace
<1>1. IInv => NoDataRace
  <2>1. SUFFICES ASSUME IInv, NEW t \in Threads, Owns(t)
                 PROVE  /\ io = "Free" => Slot(pos[t]) # Slot(dequeuePos)
                        /\ \A u \in Threads \ {t} : Owns(u) => Slot(pos[u]) # Slot(pos[t])
    BY DEF NoDataRace, Owns
  <2>2. TypeOK /\ Window /\ Owned
    BY <2>1 DEF IInv, Ring
  <2>3. enqueuePos \in Nat /\ dequeuePos \in Nat /\ Capacity \in Nat \ {0, 1} /\ pos \in [Threads -> Nat]
    BY <2>2, EgressAssumption DEF TypeOK
  <2>4. \A u \in Threads : Owns(u) => /\ dequeuePos <= pos[u] /\ pos[u] < dequeuePos + Capacity
                                      /\ SequenceAt(pos[u]) = pos[u] /\ pos[u] \in Nat
    BY <2>2, <2>3 DEF Owned, Window
  <2>5. io = "Free" => pos[t] # dequeuePos
    BY <2>1, <2>2, <2>3, <2>4 DEF Window, HeadPublished, SequenceAt
  <2>6. \A u \in Threads \ {t} : Owns(u) => pos[u] # pos[t]
    BY <2>1, <2>2 DEF Owned
  <2>7. dequeuePos < dequeuePos + Capacity
    BY <2>3
  <2>. QED  BY <2>1, <2>2, <2>3, <2>4, <2>5, <2>6, <2>7, Apart
<1>. QED  BY <1>1, RingInvariant, PTL

\* What is left of a sequence after its first m - 1 elements grows at the end.
LEMMA RestOfAppend ==
  ASSUME NEW S, NEW s \in Seq(S), NEW x \in S, NEW m \in 1 .. Len(s) + 1
  PROVE  SubSeq(Append(s, x), m, Len(s) + 1) = Append(SubSeq(s, m, Len(s)), x)
<1>. DEFINE a == Append(s, x)
            n == Len(s)
            left == SubSeq(a, m, n + 1)
            rest == SubSeq(s, m, n)
<1>1. n \in Nat /\ m \in Int /\ n \in Int /\ n + 1 \in Int /\ 1 <= m /\ m <= n + 1
  OBVIOUS
<1>2. /\ a \in Seq(S) /\ Len(a) = n + 1 /\ a[n + 1] = x
      /\ \A i \in 1 .. n : a[i] = s[i]
  BY AppendProperties
<1>3. \A i \in 1 .. n + 1 : a[i] \in S
  BY <1>2, ElementOfSeq
<1>4. \A i \in 1 .. n : s[i] \in S
  BY ElementOfSeq
<1>. HIDE DEF a, n
<1>5. \A i \in m .. n + 1 : a[i] \in S
  BY <1>1, <1>3
<1>6. \A i \in m .. n : s[i] \in S
  BY <1>1, <1>4
<1>7. left \in Seq(S) /\ Len(left) = n + 2 - m /\ \A i \in 1 .. n + 2 - m : left[i] = a[m + i - 1]
  BY <1>1, <1>5, SubSeqProperties
<1>8. rest \in Seq(S) /\ Len(rest) = n + 1 - m /\ \A i \in 1 .. n + 1 - m : rest[i] = s[m + i - 1]
  BY <1>1, <1>6, SubSeqProperties
<1>. HIDE DEF left, rest
<1>9. /\ Append(rest, x) \in Seq(S) /\ Len(Append(rest, x)) = n + 2 - m
      /\ \A i \in 1 .. n + 1 - m : Append(rest, x)[i] = rest[i]
      /\ Append(rest, x)[n + 2 - m] = x
  BY <1>1, <1>8, AppendProperties
<1>10. \A i \in 1 .. n + 2 - m : left[i] = Append(rest, x)[i]
  <2>1. SUFFICES ASSUME NEW i \in 1 .. n + 2 - m PROVE a[m + i - 1] = Append(rest, x)[i]
    BY <1>7
  <2>2. CASE i = n + 2 - m
    BY <1>1, <1>2, <1>9, <2>2
  <2>3. CASE i # n + 2 - m
    <3>1. i \in 1 .. n + 1 - m /\ m + i - 1 \in 1 .. n
      BY <1>1, <2>3
    <3>. QED  BY <1>2, <1>8, <1>9, <3>1
  <2>. QED  BY <2>2, <2>3
<1>11. left = Append(rest, x)
  BY <1>7, <1>9, <1>10, SeqEqual
<1>. QED  BY <1>11 DEF left, rest, a, n

\* The queue of the FIFO: what was claimed and not handed over.
Pending == SubSeq(claimed, Len(handed) + 1, Len(claimed))

LEMMA PendingFacts ==
  ASSUME IInv
  PROVE  /\ Pending \in Seq(Frames)
         /\ Len(handed) \in Nat /\ Len(claimed) \in Nat /\ Len(handed) <= Len(claimed)
         /\ Len(Pending) = Len(claimed) - Len(handed)
         /\ \A i \in 1 .. Len(Pending) : Pending[i] = claimed[Len(handed) + i]
<1>1. claimed \in Seq(Frames) /\ handed \in Seq(Frames) /\ enqueuePos \in Nat /\ dequeuePos \in Nat
  BY DEF IInv, TypeOK
<1>2. Len(handed) \in Nat /\ Len(claimed) \in Nat
  BY <1>1
<1>3. Len(handed) <= Len(claimed)
  <2>1. Len(claimed) = enqueuePos /\ dequeuePos <= enqueuePos
    BY DEF IInv, Ring, Window
  <2>2. CASE io = "Free"
    <3>1. dequeuePos < enqueuePos /\ Len(handed) = dequeuePos + 1
      BY <2>2, HeadHolds DEF IInv, Ring, Window
    <3>. QED  BY <1>1, <2>1, <3>1
  <2>3. CASE io # "Free"
    BY <1>1, <2>1, <2>3 DEF IInv, Ring, Window
  <2>. QED  BY <2>2, <2>3
<1>4. \A i \in Len(handed) + 1 .. Len(claimed) : claimed[i] \in Frames
  BY <1>1, <1>2, ElementOfSeq
<1>. QED  BY <1>1, <1>2, <1>3, <1>4, SubSeqProperties DEF Pending

\* A claim is an acceptance at the end of the FIFO,
LEMMA ClaimAccepts ==
  ASSUME IInv, NEW t \in Threads, Claim(t)
  PROVE  Fifo!Accept(Frame(t))
<1>0. TypeOK /\ Ring /\ EgressAssumption
  BY EgressAssumption DEF IInv
<1>1. Frame(t) \in Frames /\ pc[t] = "Claim" /\ claimed' = Append(claimed, Frame(t)) /\ handed' = handed
  BY <1>0, FrameTyped DEF Claim, Goes
<1>2. \A i \in 1 .. Len(claimed) : claimed[i].from = t => claimed[i].n < posted[t]
  BY <1>0, <1>1 DEF Ring, Numbered
<1>3. Frame(t).from = t /\ Frame(t).n = posted[t]
  BY DEF Frame
<1>4. Fifo!InOrder(Frame(t), Pending) /\ Fifo!InOrder(Frame(t), handed)
  <2>1. DOMAIN Pending = 1 .. Len(Pending) /\ DOMAIN handed = 1 .. Len(handed)
    BY <1>0, PendingFacts, LenProperties DEF TypeOK
  <2>2. ASSUME NEW i \in DOMAIN Pending, Pending[i].from = t PROVE Pending[i].n < posted[t]
    <3>1. Pending[i] = claimed[Len(handed) + i] /\ Len(handed) + i \in 1 .. Len(claimed)
      BY <2>1, PendingFacts
    <3>. QED  BY <1>2, <2>2, <3>1
  <2>3. ASSUME NEW i \in DOMAIN handed, handed[i].from = t PROVE handed[i].n < posted[t]
    <3>1. handed[i] = claimed[i] /\ i \in 1 .. Len(claimed)
      BY <1>0, <2>1, PendingFacts DEF Ring, HandedInOrder
    <3>. QED  BY <1>2, <2>3, <3>1
  <2>. QED  BY <1>3, <2>2, <2>3 DEF Fifo!InOrder
<1>5. Len(Pending) < Capacity
  <2>1. enqueuePos \in Nat /\ dequeuePos \in Nat /\ Capacity \in Nat /\ pos[t] = enqueuePos
    BY <1>0 DEF TypeOK, EgressAssumption, Claim
  <2>2. enqueuePos < dequeuePos + Capacity
    BY <1>0, <1>1, <2>1 DEF Ring, Looking
  <2>3. Len(claimed) = enqueuePos /\ dequeuePos <= Len(handed)
    BY <1>0, <2>1 DEF Ring, Window
  <2>. QED  BY <2>1, <2>2, <2>3, PendingFacts
<1>6. Pending' = Append(Pending, Frame(t))
  <2>1. claimed \in Seq(Frames) /\ Len(handed) + 1 \in 1 .. Len(claimed) + 1
    BY <1>0, PendingFacts DEF TypeOK
  <2>2. Len(Append(claimed, Frame(t))) = Len(claimed) + 1
    BY <1>1, <2>1, AppendProperties
  <2>. QED  BY <1>1, <2>1, <2>2, RestOfAppend DEF Pending
<1>7. UNCHANGED <<handed, dropped>>
  BY DEF Claim
<1>. QED  BY <1>4, <1>5, <1>6, <1>7 DEF Fifo!Accept, Pending

\* handing over takes the frame at its head,
LEMMA HandOverHands ==
  ASSUME IInv, HandOver
  PROVE  Fifo!HandOver
<1>1. TypeOK /\ Ring /\ io = "Drain"
  BY DEF IInv, HandOver, IoGoes
<1>2. /\ dequeuePos < enqueuePos /\ Len(claimed) = enqueuePos /\ Len(handed) = dequeuePos
      /\ handed' = Append(handed, claimed[dequeuePos + 1])
      /\ UNCHANGED <<claimed, dropped>>
  BY <1>1, HeadHolds DEF HandOver, Ring, Window, Posters
<1>3. enqueuePos \in Nat /\ dequeuePos \in Nat /\ claimed \in Seq(Frames) /\ handed \in Seq(Frames)
  BY <1>1 DEF TypeOK
<1>4. Len(handed') = dequeuePos + 1
  <2>1. claimed[dequeuePos + 1] \in Frames
    BY <1>2, <1>3, ElementOfSeq
  <2>. QED  BY <1>2, <1>3, <2>1, AppendProperties
<1>5. dequeuePos + 1 \in 1 .. Len(claimed) /\ Len(claimed) \in dequeuePos + 1 .. Len(claimed)
  BY <1>2, <1>3
<1>6. Head(Pending) = claimed[dequeuePos + 1] /\ Tail(Pending) = SubSeq(claimed, dequeuePos + 1 + 1, Len(claimed))
  BY <1>2, <1>3, <1>5, HeadTailOfSubSeq DEF Pending
<1>7. Pending # <<>>
  BY <1>2, <1>3, PendingFacts
<1>8. Pending' = Tail(Pending)
  BY <1>2, <1>4, <1>6 DEF Pending
<1>. QED  BY <1>2, <1>6, <1>7, <1>8 DEF Fifo!HandOver, Pending

\* and a frame is refused only for lack of room.
LEMMA FullRefuses ==
  ASSUME IInv, NEW t \in Threads, FindsFull(t)
  PROVE  Fifo!Refuse
<1>0. TypeOK /\ Ring /\ EgressAssumption
  BY EgressAssumption DEF IInv
<1>1. /\ enqueuePos \in Nat /\ dequeuePos \in Nat /\ Capacity \in Nat \ {0, 1} /\ pos[t] \in Nat
      /\ Len(claimed) = enqueuePos /\ enqueuePos <= dequeuePos + Capacity
  BY <1>0 DEF TypeOK, EgressAssumption, Ring, Window
<1>2. pc[t] = "Look" /\ SequenceAt(pos[t]) < pos[t]
  BY DEF FindsFull, Goes, SequenceAt
<1>3. SequenceAt(pos[t]) \in Nat
  <2>1. slots[Slot(pos[t])] \in SlotState
    BY <1>0, <1>1, SlotTyped DEF TypeOK
  <2>. QED  BY <2>1 DEF SlotState, SequenceAt
<1>4. pos[t] = enqueuePos
  BY <1>0, <1>1, <1>2, <1>3 DEF Ring, Looking
<1>5. enqueuePos = dequeuePos + Capacity
  BY <1>0, <1>1, <1>2, <1>3, <1>4 DEF Ring, Window, Vacant
<1>6. Len(handed) <= dequeuePos + 1
  BY <1>0, <1>1 DEF Ring, Window
<1>7. Capacity <= Len(Pending) + 1
  BY <1>1, <1>5, <1>6, PendingFacts
<1>8. dropped' = dropped + 1 /\ UNCHANGED <<claimed, handed>>
  BY DEF FindsFull, queueVars
<1>. QED  BY <1>7, <1>8 DEF Fifo!Refuse, Pending

\* The lock-free ring is a FIFO (kzegress.h: each thread's frames in the order it posted them, those of
\* several threads in the order they claimed a slot, none refused while there is room).
THEOREM RingImplementsFifo == Spec => ImplementsFifo
<1>1. Init => Fifo!Init
  <2>1. SUFFICES ASSUME Init PROVE Fifo!Init
    OBVIOUS
  <2>2. SubSeq(<<>>, 1, 0) = <<>>
    BY SubSeqEmpty
  <2>. QED  BY <2>1, <2>2 DEF Init, Fifo!Init
<1>2. IInv /\ [Next]_vars => [Fifo!Next]_<<Pending, handed, dropped>>
  <2>1. SUFFICES ASSUME IInv, [Next]_vars PROVE Fifo!Next \/ UNCHANGED <<claimed, handed, dropped>>
    BY DEF Pending
  <2>2. CASE UNCHANGED vars
    BY <2>2 DEF vars, queueVars
  <2>3. ASSUME NEW t \in Threads, Claim(t) PROVE Fifo!Next
    <3>1. Frame(t) \in Frames
      BY <2>1, <2>3, FrameTyped DEF IInv, Claim, Goes
    <3>. QED  BY <2>1, <2>3, <3>1, ClaimAccepts DEF Fifo!Next
  <2>4. ASSUME NEW t \in Threads, FindsFull(t) PROVE Fifo!Next
    BY <2>1, <2>4, FullRefuses DEF Fifo!Next
  <2>5. CASE HandOver
    BY <2>1, <2>5, HandOverHands DEF Fifo!Next
  <2>6. ASSUME NEW t \in Threads,
               PostBegins(t) \/ FindsRoom(t) \/ FallsBehind(t) \/ ClaimFails(t) \/ Write(t) \/ Publish(t)
                 \/ Signal(t) \/ Wake(t)
        PROVE  UNCHANGED <<claimed, handed, dropped>>
    BY <2>6 DEF PostBegins, FindsRoom, FallsBehind, ClaimFails, Write, Publish, Signal, Wake, queueVars
  <2>7. CASE ReadPipe \/ ClearFlag \/ FreeSlot \/ DrainEnds
    BY <2>7 DEF ReadPipe, ClearFlag, FreeSlot, DrainEnds, queueVars, Posters
  <2>. QED  BY <2>1, <2>2, <2>3, <2>4, <2>5, <2>6, <2>7 DEF Next, IoStep, PostStep
<1>. QED  BY <1>1, <1>2, RingInvariant, PTL DEF Spec, ImplementsFifo, Fifo!Spec, Pending
=============================================================================

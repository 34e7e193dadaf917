------------------------- MODULE PaddleKeyerProofs --------------------------
(***************************************************************************)
(* Proofs about PaddleKeyer: the frames sent alternate, whoever calls and  *)
(* whatever is queued; and the radio is never left keyed, provided that no *)
(* call that releases runs between the device's check of the inhibit and   *)
(* its reading of the clock.                                               *)
(***************************************************************************)
EXTENDS PaddleKeyer, NaturalsInduction, WellFoundedInduction, TLAPS

\* A straight key has no bursts, and paddles do not key for longer than an element.
ModesApart ==
  /\ Straight => ~InBurst
  /\ ~Straight => ~k4Keyed

\* A keyer that ended let go of the key.
EndedIsUp == keyer.pc = "Exited" => ~k4Keyed

\* The keyer does not sleep on what it has yet to read.
SleepsOnNothing ==
  /\ keyer.pc = "Wait" /\ (events # <<>> \/ lost) => woken
  /\ releases # <<>> /\ ~woken => keyer.pc = "Top"

MainKnown == main \in {"Idle", "Release"} <=> ~closed

\* What the device thread is about to report is how the levers stand.
HandKnown ==
  /\ key.at <= now
  /\ device = "DitDown" => "Dit" \in held
  /\ device = "DitUp" => "Dit" \notin held
  /\ Straight => device \in {"DitDown", "DitUp", NoEdge}

\* A release that the keyer has yet to apply lets go of the key.
Pending == \E i \in 1..Len(releases) : releases[i] >= key.at
LetGo == main = "Release" \/ Pending

\* What the key was last seen to do is what the operator did and may do, or will be put right.
KeyKnown ==
  Straight /\ ~closed =>
    /\ inhibited /\ device # NoEdge => main = "Release"
    /\ inhibited /\ key.down => LetGo
    /\ key.down /\ "Dit" \notin held => device = "DitUp" \/ LetGo

\* What is queued leaves the radio keyed only if the key is down.
LeavesKeyed == IF events = <<>> THEN k4Keyed ELSE events[Len(events)] = "DitDown"
QueueKnown == Straight /\ ~lost /\ LeavesKeyed => key.down

-----------------------------------------------------------------------------
(* The types. *)

LEMMA PushTyped ==
  ASSUME QueuesOK, NEW event \in Edges \cup {"Release"}, PushEvent(event), UNCHANGED <<releases, closeAsked>>
  PROVE  QueuesOK'
<1>1. CASE Len(events) < QueueSize
  <2>1. events' = Append(events, event) /\ woken' = TRUE /\ UNCHANGED lost
    BY <1>1 DEF PushEvent
  <2>2. events' \in Seq(Edges \cup {"Release"}) /\ Len(events') = Len(events) + 1
    BY <2>1 DEF QueuesOK
  <2>3. Len(events) \in Nat /\ QueueSize \in Nat
    BY PaddleAssumption DEF QueuesOK
  <2>. QED  BY <1>1, <2>1, <2>2, <2>3 DEF QueuesOK
<1>2. CASE ~(Len(events) < QueueSize)
  BY <1>2 DEF PushEvent, QueuesOK
<1>. QED  BY <1>1, <1>2

LEMMA PopTyped ==
  ASSUME QueuesOK, NEW event, Pops(event)
  PROVE  QueuesOK'
<1>1. events # <<>> /\ events' = Tail(events) /\ UNCHANGED <<lost, releases, closeAsked, woken>>
  BY DEF Pops
<1>2. events' \in Seq(Edges \cup {"Release"}) /\ Len(events') = Len(events) - 1
  BY <1>1 DEF QueuesOK
<1>3. Len(events) \in Nat /\ QueueSize \in Nat
  BY PaddleAssumption DEF QueuesOK
<1>. QED  BY <1>1, <1>2, <1>3 DEF QueuesOK

LEMMA ReleasingTyped ==
  ASSUME QueuesOK, NEW at, Releasing(at)
  PROVE  releases' \in Seq(Nat)
BY DEF QueuesOK, Releasing

LEMMA QueuesTyped ==
  ASSUME TypeOK, Next
  PROVE  QueuesOK'
<1>0. QueuesOK
  BY DEF TypeOK
<1>1. CASE UNCHANGED queueVars
  BY <1>0, <1>1 DEF queueVars, QueuesOK
<1>2. CASE StraightEdge \/ PaddleEdge
  <2>1. device \in Edges /\ PushEvent(device) /\ UNCHANGED <<releases, closeAsked>>
    BY <1>2 DEF StraightEdge, PaddleEdge, TypeOK, DeviceOK
  <2>. QED  BY <1>0, <2>1, PushTyped
<1>3. CASE PushRelease
  <2>1. releases' = Append(releases, now + 1) /\ woken' = TRUE /\ UNCHANGED <<events, lost, closeAsked>>
    BY <1>3 DEF PushRelease, MainOnly
  <2>2. now + 1 \in Nat
    BY DEF TypeOK, DeviceOK
  <2>. QED  BY <1>0, <2>1, <2>2 DEF QueuesOK
<1>4. CASE PostClose \/ PopClose \/ Reconcile \/ Wake
  BY <1>0, <1>4 DEF PostClose, MainOnly, PopClose, Reconcile, Wake, QueuesOK
<1>5. CASE ReleaseStraightKey
  <2>1. PICK at \in 1..now : Releasing(at)
    BY <1>5 DEF ReleaseStraightKey
  <2>2. UNCHANGED closeAsked /\ (PushEvent("Release") \/ UNCHANGED <<events, lost, woken>>)
    BY <1>5 DEF ReleaseStraightKey
  <2>3. releases' \in Seq(Nat)
    BY <1>0, <2>1, ReleasingTyped
  <2>4. CASE UNCHANGED <<events, lost, woken>>
    BY <1>0, <2>2, <2>3, <2>4 DEF QueuesOK
  <2>5. CASE PushEvent("Release")
    <3>1. CASE Len(events) < QueueSize
      <4>1. events' = Append(events, "Release") /\ woken' = TRUE /\ UNCHANGED lost
        BY <2>5, <3>1 DEF PushEvent
      <4>2. events' \in Seq(Edges \cup {"Release"}) /\ Len(events') = Len(events) + 1
        BY <1>0, <4>1 DEF QueuesOK
      <4>3. Len(events) \in Nat /\ QueueSize \in Nat
        BY <1>0, PaddleAssumption DEF QueuesOK
      <4>. QED  BY <1>0, <2>2, <2>3, <3>1, <4>1, <4>2, <4>3 DEF QueuesOK
    <3>2. CASE ~(Len(events) < QueueSize)
      BY <1>0, <2>2, <2>3, <2>5, <3>2 DEF PushEvent, QueuesOK
    <3>. QED  BY <3>1, <3>2
  <2>. QED  BY <2>2, <2>4, <2>5
<1>6. CASE ReleasePaddles
  <2>1. PICK at \in 1..now : Releasing(at)
    BY <1>6 DEF ReleasePaddles
  <2>2. UNCHANGED <<events, lost, woken, closeAsked>>
    BY <1>6 DEF ReleasePaddles
  <2>. QED  BY <1>0, <2>1, <2>2, ReleasingTyped DEF QueuesOK
<1>7. CASE KeyStraightDown \/ KeyStraightUp \/ KeyReleased \/ BeginBurst
  <2>1. \E event : Pops(event)
    BY <1>7 DEF KeyStraightDown, KeyStraightUp, KeyReleased, BeginBurst
  <2>. QED  BY <1>0, <2>1, PopTyped
<1>8. CASE Exit
  <2>1. events' = <<>> /\ UNCHANGED <<lost, releases, closeAsked, woken>>
    BY <1>8 DEF Exit
  <2>2. <<>> \in Seq(Edges \cup {"Release"}) /\ Len(<<>>) <= QueueSize
    BY PaddleAssumption
  <2>. QED  BY <1>0, <2>1, <2>2 DEF QueuesOK
<1>9. CASE \/ RestoreMonitor \/ NothingQueued \/ NothingLost \/ NotYetReconciled \/ TimeOut \/ Drained
           \/ FirstElement \/ NoFirstElement \/ Hear \/ ReadDue \/ Reread \/ DecisionDue \/ EndElement
           \/ NextElement \/ EndBurst
  BY <1>1, <1>9 DEF RestoreMonitor, NothingQueued, NothingLost, NotYetReconciled, TimeOut, Drained, QueuesKept,
     FirstElement, BeginFirstElement, NoFirstElement, Hear, ReadDue, Reread, DecisionDue, EndElement,
     NextElement, EndBurst, BurstOnly
<1>10. CASE Inhibit \/ Permit \/ Escape \/ Close \/ \E edge \in Edges : Edge(edge)
  BY <1>1, <1>10 DEF Inhibit, Permit, Escape, Close, MainOnly, Edge, queueVars
<1>. QED
  BY <1>2, <1>3, <1>4, <1>5, <1>6, <1>7, <1>8, <1>9, <1>10 DEF Next, Keyer, Main, Device

LEMMA DeviceTyped ==
  ASSUME TypeOK, Next
  PROVE  DeviceOK'
<1>0. DeviceOK
  BY DEF TypeOK
<1>1. CASE \/ Main \/ Drained \/ KeyStraightDown \/ KeyStraightUp \/ KeyReleased \/ BeginBurst
           \/ PopClose \/ Exit \/ RestoreMonitor \/ NothingQueued
           \/ NothingLost \/ NotYetReconciled \/ Reconcile \/ Wake \/ TimeOut
           \/ Hear \/ ReadDue \/ Reread \/ DecisionDue \/ EndElement \/ EndBurst
  <2>1. UNCHANGED <<mode, deviceVars, key, first, history, extra>>
    BY <1>1 DEF Main, Inhibit, Permit, Escape, Close, PushRelease, PostClose, MainOnly, Drained, KeyStraightDown,
       KeyStraightUp, KeyReleased, BeginBurst, PopClose, Exit, RestoreMonitor, NothingQueued,
       NothingLost, NotYetReconciled, Reconcile, Wake, TimeOut, Hear, ReadDue, Reread, DecisionDue, EndElement,
       EndBurst, KeyerOnly, BurstOnly
  <2>2. now' \in {now, now + 1}
    BY <1>1 DEF Main, Inhibit, Permit, Escape, Close, PushRelease, PostClose, MainOnly, Drained, KeyStraightDown,
       KeyStraightUp, KeyReleased, BeginBurst, PopClose, Exit, RestoreMonitor, NothingQueued,
       NothingLost, NotYetReconciled, Reconcile, Wake, TimeOut, Hear, ReadDue, Reread, DecisionDue, EndElement,
       EndBurst, KeyerOnly, BurstOnly
  <2>. QED  BY <1>0, <2>1, <2>2 DEF DeviceOK, deviceVars
<1>2. ASSUME NEW edge \in Edges, Edge(edge) PROVE DeviceOK'
  BY <1>0, <1>2 DEF Edge, LeverOf, Levers, DeviceOK
<1>3. CASE StraightEdge
  <2>1. /\ UNCHANGED <<mode, held, edges, first, history, extra>> /\ device' = NoEdge
        /\ now' \in {now, now + 1}
    BY <1>3 DEF StraightEdge
  <2>2. key' = [down |-> TRUE, at |-> now + 1] \/ key' = [key EXCEPT !.down = FALSE]
    BY <1>3 DEF StraightEdge
  <2>3. now + 1 \in Nat /\ key \in [down : BOOLEAN, at : Nat]
    BY <1>0 DEF DeviceOK
  <2>4. CASE key' = [down |-> TRUE, at |-> now + 1]
    BY <1>0, <2>1, <2>3, <2>4 DEF DeviceOK
  <2>5. CASE key' = [key EXCEPT !.down = FALSE]
    <3>1. key' \in [down : BOOLEAN, at : Nat]
      BY <2>3, <2>5
    <3>. QED  BY <1>0, <2>1, <3>1 DEF DeviceOK
  <2>. QED  BY <2>2, <2>4, <2>5
<1>4. CASE PaddleEdge
  <2>1. /\ UNCHANGED <<mode, held, edges, key>> /\ device' = NoEdge /\ now' = now + 1
        /\ history' = history \cup {[at |-> now + 1, edge |-> device]}
        /\ extra' \in {0, 1} /\ device \in Edges
        /\ first' = first \/ first' = [at |-> now + 1, elt |-> LeverOf(device)]
    BY <1>0, <1>4 DEF PaddleEdge, DeviceOK
  <2>2. LeverOf(device) \in Levers
    BY DEF LeverOf, Levers
  <2>3. first' \in [at : Nat, elt : Levers \cup {NoElement}]
    BY <1>0, <2>1, <2>2 DEF DeviceOK
  <2>. QED  BY <1>0, <2>1, <2>3 DEF DeviceOK
<1>5. CASE ReleaseStraightKey
  <2>1. /\ UNCHANGED <<now, mode, deviceVars, first, history, extra>>
        /\ key' = key \/ key' = [key EXCEPT !.down = FALSE]
    BY <1>5 DEF ReleaseStraightKey, KeyerOnly
  <2>2. key' \in [down : BOOLEAN, at : Nat]
    BY <1>0, <2>1 DEF DeviceOK
  <2>. QED  BY <1>0, <2>1, <2>2 DEF DeviceOK, deviceVars
<1>6. CASE ReleasePaddles
  <2>1. PICK at \in 1..now :
          /\ first' = IF first.at # 0 /\ first.at <= at THEN [at |-> 0, elt |-> NoElement] ELSE first
          /\ history' = history \cup {[at |-> at, edge |-> e] : e \in {"DitUp", "DahUp"}}
          /\ extra' \in {0, 1} /\ UNCHANGED <<now, mode, deviceVars, key>>
    BY <1>6 DEF ReleasePaddles, KeyerOnly
  <2>2. at \in Nat
    BY <1>0 DEF DeviceOK
  <2>3. history' \subseteq [at : Nat, edge : Edges]
    BY <1>0, <2>1, <2>2 DEF DeviceOK, Edges
  <2>4. first' \in [at : Nat, elt : Levers \cup {NoElement}]
    BY <1>0, <2>1 DEF DeviceOK
  <2>. QED  BY <1>0, <2>1, <2>3, <2>4 DEF DeviceOK, deviceVars
<1>7. CASE FirstElement \/ NoFirstElement
  <2>1. /\ UNCHANGED <<now, mode, deviceVars, key, history>> /\ first' = [at |-> 0, elt |-> NoElement]
        /\ UNCHANGED extra \/ CountElement
    BY <1>7 DEF FirstElement, BeginFirstElement, NoFirstElement, BurstOnly, KeyerOnly
  <2>2. extra' \in 0..4
    BY <1>0, <2>1 DEF CountElement, DeviceOK
  <2>. QED  BY <1>0, <2>1, <2>2 DEF DeviceOK, deviceVars
<1>8. CASE NextElement
  <2>1. UNCHANGED <<now, mode, deviceVars, key, history, first>> /\ CountElement
    BY <1>8 DEF NextElement, BurstOnly, KeyerOnly
  <2>. QED  BY <1>0, <2>1 DEF CountElement, DeviceOK, deviceVars
<1>. QED
  BY <1>1, <1>2, <1>3, <1>4, <1>5, <1>6, <1>7, <1>8 DEF Next, Keyer, Device

LEMMA MainTyped ==
  ASSUME TypeOK, Next
  PROVE  MainOK'
<1>0. MainOK
  BY DEF TypeOK
<1>1. CASE Keyer
  <2>1. UNCHANGED mainVars
    BY <1>1 DEF Keyer, ReleaseStraightKey, ReleasePaddles, Drained, KeyStraightDown, KeyStraightUp, KeyReleased,
       BeginBurst, PopClose, Exit, RestoreMonitor, NothingQueued, NothingLost, NotYetReconciled, Reconcile, Wake,
       TimeOut, FirstElement, BeginFirstElement, NoFirstElement, Hear, ReadDue, Reread, DecisionDue, EndElement,
       NextElement, EndBurst, KeyerOnly, BurstOnly
  <2>. QED  BY <1>0, <2>1 DEF mainVars, MainOK
<1>2. CASE Device
  <2>1. UNCHANGED mainVars
    BY <1>2 DEF Device, Edge, StraightEdge, PaddleEdge
  <2>. QED  BY <1>0, <2>1 DEF mainVars, MainOK
<1>3. CASE Main
  <2>1. orders' \in {orders, orders + 1}
    BY <1>3 DEF Main, Inhibit, Permit, Escape, Close, PushRelease, PostClose, OrderTo
  <2>2. orders' \in Nat
    BY <1>0, <2>1 DEF MainOK
  <2>. QED
    BY <1>0, <1>3, <2>2 DEF Main, Inhibit, Permit, Escape, Close, PushRelease, PostClose, OrderTo, MainOK
<1>. QED  BY <1>1, <1>2, <1>3 DEF Next

LEMMA RadioTyped ==
  ASSUME TypeOK, Next
  PROVE  RadioOK'
<1>0. RadioOK
  BY DEF TypeOK
<1>1. CASE Main \/ Device
  BY <1>0, <1>1 DEF Main, Inhibit, Permit, Escape, Close, PushRelease, PostClose, MainOnly, Device, Edge,
     StraightEdge, PaddleEdge, keyerVars, RadioOK
<1>2. CASE Keyer
  <2>1. k4Keyed' \in BOOLEAN
    BY <1>0, <1>2 DEF Keyer, ReleaseStraightKey, ReleasePaddles, Drained, KeyStraightDown, KeyStraightUp,
       KeyReleased, BeginBurst, PopClose, Exit, RestoreMonitor, NothingQueued, NothingLost, NotYetReconciled,
       Reconcile, Wake, TimeOut, FirstElement, BeginFirstElement, NoFirstElement, Hear, ReadDue, Reread,
       DecisionDue, EndElement, NextElement, EndBurst, BurstOnly, KeyUpOnAir, RadioOK
  <2>2. air' = air \/ SendKzd \/ SendKzu
    BY <1>2 DEF Keyer, ReleaseStraightKey, ReleasePaddles, Drained, KeyStraightDown, KeyStraightUp,
       KeyReleased, BeginBurst, PopClose, Exit, RestoreMonitor, NothingQueued, NothingLost, NotYetReconciled,
       Reconcile, Wake, TimeOut, FirstElement, BeginFirstElement, NoFirstElement, Hear, ReadDue, Reread,
       DecisionDue, EndElement, NextElement, EndBurst, BurstOnly, KeyUpOnAir
  <2>3. air' \in {"Up", "Down", "Twice"}
    BY <1>0, <2>2 DEF SendKzd, SendKzu, RadioOK
  <2>4. monitor' = monitor \/ Mute \/ ArmRestore \/ monitor' = [muted |-> FALSE, armed |-> FALSE]
    BY <1>2 DEF Keyer, ReleaseStraightKey, ReleasePaddles, Drained, KeyStraightDown, KeyStraightUp,
       KeyReleased, BeginBurst, PopClose, Exit, RestoreMonitor, NothingQueued, NothingLost, NotYetReconciled,
       Reconcile, Wake, TimeOut, FirstElement, BeginFirstElement, NoFirstElement, Hear, ReadDue, Reread,
       DecisionDue, EndElement, NextElement, EndBurst, BurstOnly, KeyUpOnAir
  <2>5. monitor' \in [muted : BOOLEAN, armed : BOOLEAN]
    <3>1. monitor \in [muted : BOOLEAN, armed : BOOLEAN]
      BY <1>0 DEF RadioOK
    <3>2. CASE ArmRestore
      BY <3>1, <3>2 DEF ArmRestore
    <3>3. CASE Mute
      BY <3>3 DEF Mute
    <3>4. CASE monitor' = [muted |-> FALSE, armed |-> FALSE]
      BY <3>4
    <3>. QED  BY <2>4, <3>1, <3>2, <3>3, <3>4
  <2>. QED  BY <2>1, <2>3, <2>5 DEF RadioOK
<1>. QED  BY <1>1, <1>2 DEF Next

LEMMA ChooseTyped ==
  ASSUME NEW prev, NEW look, NEW heard, NEW asOf, NEW memory
  PROVE  Choose(prev, look, heard, asOf, memory) \in Levers \cup {NoElement}
BY DEF Choose, Levers

LEMMA PassTyped ==
  ASSUME NEW endDue \in Nat
  PROVE  Pass(endDue) \in KeyerType
BY DEF Pass, KeyerType, NoElement

LEMMA GoToTyped ==
  ASSUME keyer \in KeyerType, NEW pc, GoTo(pc),
         pc \in {"Top", "Pop", "Reconcile", "Wait", "Closing", "Exited"}
  PROVE  keyer' \in KeyerType
BY DEF GoTo, KeyerType

LEMMA KeyerTyped ==
  ASSUME TypeOK, Next
  PROVE  keyer' \in KeyerType
<1>0. keyer \in KeyerType /\ now \in Nat /\ first \in [at : Nat, elt : Levers \cup {NoElement}]
  BY DEF TypeOK, DeviceOK
<1>1. CASE Main \/ Device
  BY <1>0, <1>1 DEF Main, Inhibit, Permit, Escape, Close, PushRelease, PostClose, MainOnly, Device, Edge,
     StraightEdge, PaddleEdge, keyerVars
<1>2. CASE \/ KeyStraightDown \/ KeyStraightUp \/ KeyReleased \/ RestoreMonitor \/ NoFirstElement \/ EndBurst
  <2>1. keyer' = Pass(keyer.endDue) \/ keyer' = Pass(keyer.due)
    BY <1>2 DEF KeyStraightDown, KeyStraightUp, KeyReleased, RestoreMonitor, NoFirstElement, EndBurst, NextPass
  <2>2. keyer.endDue \in Nat /\ keyer.due \in Nat
    BY <1>0 DEF KeyerType
  <2>. QED  BY <2>1, <2>2, PassTyped
<1>3. CASE NothingQueued
  <2>1. keyer' = Pass(keyer.endDue) \/ GoTo("Reconcile")
    BY <1>3 DEF NothingQueued, NextPass
  <2>2. keyer.endDue \in Nat
    BY <1>0 DEF KeyerType
  <2>. QED  BY <1>0, <2>1, <2>2, PassTyped, GoToTyped
<1>4. CASE Drained \/ PopClose \/ Exit \/ NothingLost \/ NotYetReconciled \/ Reconcile
  <2>1. \E pc \in {"Top", "Pop", "Reconcile", "Wait", "Closing", "Exited"} : GoTo(pc)
    BY <1>4 DEF Drained, PopClose, Exit, NothingLost, NotYetReconciled, Reconcile
  <2>. QED  BY <1>0, <2>1, GoToTyped
<1>5. CASE ReleaseStraightKey \/ ReleasePaddles
  <2>1. keyer' = [keyer EXCEPT !.released = (keyer.pc = "Top")]
    BY <1>5 DEF ReleaseStraightKey, ReleasePaddles
  <2>. QED  BY <1>0, <2>1 DEF KeyerType
<1>6. CASE BeginBurst
  <2>1. keyer' = [Pass(keyer.endDue) EXCEPT !.pc = "First"]
    BY <1>6 DEF BeginBurst
  <2>2. Pass(keyer.endDue) \in KeyerType
    BY <1>0, PassTyped DEF KeyerType
  <2>. QED  BY <2>1, <2>2 DEF KeyerType
<1>7. CASE Wake \/ TimeOut \/ Hear \/ ReadDue \/ DecisionDue \/ EndElement
  <2>1. CASE Wake
    BY <1>0, <2>1 DEF Wake, KeyerType
  <2>2. CASE TimeOut
    BY <1>0, <2>2 DEF TimeOut, KeyerType
  <2>3. CASE Hear
    BY <1>0, <2>3 DEF Hear, KeyerType
  <2>4. CASE ReadDue
    BY <1>0, <2>4 DEF ReadDue, KeyerType
  <2>5. CASE DecisionDue
    BY <1>0, <2>5 DEF DecisionDue, KeyerType
  <2>6. CASE EndElement
    BY <1>0, <2>6 DEF EndElement, KeyerType
  <2>. QED  BY <1>7, <2>1, <2>2, <2>3, <2>4, <2>5, <2>6
<1>8. CASE FirstElement
  <2>1. PICK elt \in Levers \cup {NoElement}, start \in Nat : BeginFirstElement(elt, start)
    <3>1. Choose(NoElement, 0, 0, now, FALSE) \in Levers \cup {NoElement}
      BY ChooseTyped
    <3>2. first.elt \in Levers \cup {NoElement} /\ first.at \in Nat
      BY <1>0
    <3>3. Missed(keyer.endDue) \in Levers \cup {NoElement}
      BY DEF Missed, LeverOf, Levers
    <3>. QED  BY <1>0, <1>8, <3>1, <3>2, <3>3 DEF FirstElement
  <2>2. keyer' = [keyer EXCEPT !.pc = "Heard", !.elt = elt, !.look = start, !.heard = start, !.endDue = 0]
    BY <2>1 DEF BeginFirstElement
  <2>. QED  BY <1>0, <2>2 DEF KeyerType
<1>9. CASE Reread
  <2>1. PICK memory \in BOOLEAN :
          LET again == Choose(keyer.prev, keyer.prevLook, keyer.prevHeard, keyer.due, memory) IN
          keyer' = [keyer EXCEPT !.pc = "Sounding", !.due = 0,
                                 !.elt = IF again = NoElement THEN keyer.elt ELSE again]
    BY <1>9 DEF Reread
  <2>2. Choose(keyer.prev, keyer.prevLook, keyer.prevHeard, keyer.due, memory) \in Levers \cup {NoElement}
    BY ChooseTyped
  <2>. QED  BY <1>0, <2>1, <2>2 DEF KeyerType
<1>10. CASE NextElement
  <2>1. PICK elt \in Levers : keyer' = [keyer EXCEPT !.pc = "Tone", !.elt = elt, !.due = 0]
    BY <1>10 DEF NextElement
  <2>. QED  BY <1>0, <2>1 DEF KeyerType
<1>. QED
  BY <1>1, <1>2, <1>3, <1>4, <1>5, <1>6, <1>7, <1>8, <1>9, <1>10 DEF Next, Keyer

LEMMA InitTyped == Init => TypeOK
<1>. SUFFICES ASSUME Init PROVE TypeOK
  OBVIOUS
<1>1. DeviceOK
  BY DEF Init, DeviceOK, Levers
<1>2. QueuesOK
  <2>1. Len(<<>>) <= QueueSize
    BY PaddleAssumption
  <2>2. events \in Seq(Edges \cup {"Release"}) /\ Len(events) <= QueueSize
    BY <2>1 DEF Init
  <2>3. releases \in Seq(Nat)
    BY DEF Init
  <2>4. lost \in BOOLEAN /\ closeAsked \in BOOLEAN /\ woken \in BOOLEAN
    BY DEF Init
  <2>. QED  BY <2>2, <2>3, <2>4 DEF QueuesOK
<1>3. MainOK /\ RadioOK
  BY DEF Init, MainOK, RadioOK
<1>4. keyer \in KeyerType
  BY PassTyped DEF Init
<1>. QED  BY <1>1, <1>2, <1>3, <1>4 DEF TypeOK

\* Every variable keeps to its type.
THEOREM TypeCorrect == Spec => []TypeOK
<1>1. ASSUME TypeOK, [Next]_vars PROVE TypeOK'
  <2>1. CASE Next
    BY <1>1, <2>1, DeviceTyped, QueuesTyped, MainTyped, RadioTyped, KeyerTyped DEF TypeOK
  <2>2. CASE UNCHANGED vars
    BY <1>1, <2>2 DEF vars, deviceVars, queueVars, mainVars, keyerVars, TypeOK, DeviceOK, QueuesOK, MainOK, RadioOK
  <2>. QED  BY <1>1, <2>1, <2>2
<1>. QED  BY <1>1, InitTyped, PTL DEF Spec

-----------------------------------------------------------------------------
(* The frames. *)

Resting == {"Top", "Pop", "Reconcile", "Wait", "Closing", "Exited"}
FramesOK == AirAlternates /\ ModesApart

LEMMA PassRests ==
  ASSUME NEW endDue
  PROVE  Pass(endDue).pc = "Top"
BY DEF Pass

LEMMA KeyUpFrame ==
  ASSUME RadioOK, FramesOK, keyer.pc \in Resting, KeyUpOnAir
  PROVE  k4Keyed' = FALSE /\ air' = "Up"
BY DEF RadioOK, FramesOK, AirAlternates, Resting, KeyUpOnAir, SendKzu

LEMMA FramesKept ==
  ASSUME TypeOK, FramesOK, Next
  PROVE  FramesOK'
<1>0. RadioOK /\ keyer \in KeyerType
  BY DEF TypeOK
<1>1. CASE Main \/ Device
  BY <1>1 DEF Main, Inhibit, Permit, Escape, Close, PushRelease, PostClose, MainOnly, Device, Edge,
     StraightEdge, PaddleEdge, keyerVars, FramesOK, AirAlternates, ModesApart, Straight, InBurst
<1>2. CASE ReleaseStraightKey \/ ReleasePaddles
  <2>1. UNCHANGED <<mode, k4Keyed, air>> /\ keyer' = [keyer EXCEPT !.released = (keyer.pc = "Top")]
    BY <1>2 DEF ReleaseStraightKey, ReleasePaddles, KeyerOnly
  <2>2. keyer'.pc = keyer.pc
    BY <1>0, <2>1 DEF KeyerType
  <2>. QED  BY <2>1, <2>2 DEF FramesOK, AirAlternates, ModesApart, Straight, InBurst
<1>3. CASE \/ Drained \/ PopClose \/ RestoreMonitor \/ NothingQueued \/ NothingLost \/ NotYetReconciled
           \/ Wake \/ TimeOut
  <2>1. UNCHANGED <<mode, k4Keyed, air>> /\ keyer.pc \in Resting
    BY <1>3 DEF Drained, PopClose, RestoreMonitor, NothingQueued, NothingLost, NotYetReconciled, Wake, TimeOut,
       KeyerOnly, Resting
  <2>2. keyer'.pc \in Resting
    BY <1>0, <1>3, PassRests DEF Drained, PopClose, RestoreMonitor, NothingQueued, NothingLost, NotYetReconciled,
       Wake, TimeOut, GoTo, NextPass, KeyerType, Resting
  <2>. QED  BY <2>1, <2>2 DEF FramesOK, AirAlternates, ModesApart, Straight, InBurst, Resting
<1>4. CASE KeyStraightDown
  <2>1. Straight /\ Straight' /\ keyer.pc = "Pop" /\ k4Keyed' = TRUE /\ keyer'.pc = "Top"
    BY <1>4, PassRests DEF KeyStraightDown, Pops, NextPass, KeyerOnly, Straight
  <2>2. air' = "Down"
    BY <1>0, <1>4, <2>1 DEF KeyStraightDown, SendKzd, FramesOK, AirAlternates, RadioOK
  <2>. QED  BY <2>1, <2>2 DEF FramesOK, AirAlternates, ModesApart, InBurst
<1>5. CASE KeyStraightUp \/ KeyReleased \/ Exit
  <2>1. keyer.pc \in Resting /\ KeyUpOnAir /\ UNCHANGED mode
    BY <1>5 DEF KeyStraightUp, KeyReleased, Exit, Pops, KeyerOnly, Resting
  <2>2. k4Keyed' = FALSE /\ air' = "Up"
    BY <1>0, <2>1, KeyUpFrame
  <2>3. keyer'.pc \in Resting
    BY <1>0, <1>5, PassRests DEF KeyStraightUp, KeyReleased, Exit, NextPass, GoTo, KeyerType, Resting
  <2>. QED  BY <2>1, <2>2, <2>3 DEF FramesOK, AirAlternates, ModesApart, Straight, InBurst, Resting
<1>6. CASE Reconcile
  <2>1. keyer.pc \in Resting /\ keyer'.pc \in Resting /\ UNCHANGED mode
    BY <1>0, <1>6 DEF Reconcile, GoTo, KeyerOnly, KeyerType, Resting
  <2>2. \/ k4Keyed' = FALSE /\ air' = "Up"
        \/ UNCHANGED <<k4Keyed, air>>
    BY <1>0, <1>6, <2>1, KeyUpFrame DEF Reconcile
  <2>. QED  BY <2>1, <2>2 DEF FramesOK, AirAlternates, ModesApart, Straight, InBurst, Resting
<1>7. CASE BeginBurst
  <2>1. UNCHANGED <<mode, k4Keyed, air>> /\ ~Straight /\ keyer.pc = "Pop"
    BY <1>7 DEF BeginBurst, Pops, KeyerOnly
  <2>2. keyer'.pc = "First"
    BY <1>7 DEF BeginBurst, Pass
  <2>. QED  BY <2>1, <2>2 DEF FramesOK, AirAlternates, ModesApart, Straight, InBurst
<1>8. CASE FirstElement
  <2>1. keyer.pc = "First" /\ keyer'.pc = "Heard" /\ SendKzd /\ UNCHANGED <<mode, k4Keyed>>
    BY <1>0, <1>8 DEF FirstElement, BeginFirstElement, BurstOnly, KeyerOnly, KeyerType
  <2>2. ~Straight /\ ~k4Keyed
    BY <2>1 DEF FramesOK, ModesApart, InBurst
  <2>3. air' = "Down"
    BY <1>0, <2>1, <2>2 DEF SendKzd, FramesOK, AirAlternates, RadioOK
  <2>. QED  BY <2>1, <2>2, <2>3 DEF FramesOK, AirAlternates, ModesApart, Straight
<1>9. CASE NoFirstElement
  <2>1. keyer.pc = "First" /\ keyer'.pc = "Top" /\ UNCHANGED <<mode, k4Keyed, air>>
    BY <1>9, PassRests DEF NoFirstElement, NextPass, BurstOnly, KeyerOnly
  <2>. QED  BY <2>1 DEF FramesOK, AirAlternates, ModesApart, Straight, InBurst
<1>10. CASE Hear \/ ReadDue \/ Reread \/ DecisionDue
  <2>1. UNCHANGED <<mode, k4Keyed, air>>
    BY <1>10 DEF Hear, ReadDue, Reread, DecisionDue, BurstOnly, KeyerOnly
  <2>2. \/ {keyer.pc, keyer'.pc} \subseteq {"Tone", "Heard", "Reread", "Sounding"}
        \/ keyer.pc = "Gap" /\ keyer'.pc = "Gap"
    BY <1>0, <1>10 DEF Hear, ReadDue, Reread, DecisionDue, KeyerType
  <2>. QED  BY <2>1, <2>2 DEF FramesOK, AirAlternates, ModesApart, Straight, InBurst
<1>11. CASE EndElement
  <2>1. keyer.pc = "Sounding" /\ keyer'.pc = "Gap" /\ SendKzu /\ UNCHANGED <<mode, k4Keyed>>
    BY <1>0, <1>11 DEF EndElement, BurstOnly, KeyerOnly, KeyerType
  <2>2. ~Straight /\ ~k4Keyed
    BY <2>1 DEF FramesOK, ModesApart, InBurst
  <2>3. air' = "Up"
    BY <2>1 DEF SendKzu, FramesOK, AirAlternates
  <2>. QED  BY <2>1, <2>2, <2>3 DEF FramesOK, AirAlternates, ModesApart, Straight
<1>12. CASE NextElement
  <2>1. keyer.pc = "Gap" /\ keyer'.pc = "Tone" /\ SendKzd /\ UNCHANGED <<mode, k4Keyed>>
    BY <1>0, <1>12 DEF NextElement, Decides, BurstOnly, KeyerOnly, KeyerType
  <2>2. ~Straight /\ ~k4Keyed
    BY <2>1 DEF FramesOK, ModesApart, InBurst
  <2>3. air' = "Down"
    BY <1>0, <2>1, <2>2 DEF SendKzd, FramesOK, AirAlternates, RadioOK
  <2>. QED  BY <2>1, <2>2, <2>3 DEF FramesOK, AirAlternates, ModesApart, Straight
<1>13. CASE EndBurst
  <2>1. keyer.pc = "Gap" /\ keyer'.pc = "Top" /\ UNCHANGED <<mode, k4Keyed, air>>
    BY <1>13, PassRests DEF EndBurst, Decides, BurstOnly, KeyerOnly
  <2>. QED  BY <2>1 DEF FramesOK, AirAlternates, ModesApart, Straight, InBurst
<1>. QED
  BY <1>1, <1>2, <1>3, <1>4, <1>5, <1>6, <1>7, <1>8, <1>9, <1>10, <1>11, <1>12, <1>13 DEF Next, Keyer

\* The radio never sees two KZDs in a row, nor two KZUs, and is keyed exactly while the keyer is in an
\* element or has a straight key down: whatever is pressed, released, lost, or asked for meanwhile.
THEOREM FramesAlternate == Spec => []AirAlternates
<1>1. Init => FramesOK
  BY PassRests DEF Init, FramesOK, AirAlternates, ModesApart, InBurst
<1>2. ASSUME TypeOK, FramesOK, [Next]_vars PROVE FramesOK'
  <2>1. CASE Next
    BY <1>2, <2>1, FramesKept
  <2>2. CASE UNCHANGED vars
    BY <1>2, <2>2 DEF vars, keyerVars, FramesOK, AirAlternates, ModesApart, Straight, InBurst
  <2>. QED  BY <1>2, <2>1, <2>2
<1>3. FramesOK => AirAlternates
  BY DEF FramesOK
<1>. QED  BY <1>1, <1>2, <1>3, TypeCorrect, PTL DEF Spec

-----------------------------------------------------------------------------
(* The radio is not left keyed. *)

LEMMA KeyerKeeps ==
  ASSUME Keyer
  PROVE  KeyerOnly
BY DEF Keyer, ReleaseStraightKey, ReleasePaddles, Drained, KeyStraightDown, KeyStraightUp, KeyReleased, BeginBurst,
   PopClose, Exit, RestoreMonitor, NothingQueued, NothingLost, NotYetReconciled, Reconcile, Wake, TimeOut,
   FirstElement, BeginFirstElement, NoFirstElement, Hear, ReadDue, Reread, DecisionDue, EndElement, NextElement,
   EndBurst, BurstOnly

LEMMA ReleaseKeeps ==
  ASSUME TypeOK, ReleaseStraightKey \/ ReleasePaddles
  PROVE  /\ keyer'.pc = keyer.pc /\ AppliesReleases /\ UNCHANGED <<k4Keyed, closeAsked>>
         /\ woken' = TRUE \/ UNCHANGED woken
<1>1. keyer' = [keyer EXCEPT !.released = (keyer.pc = "Top")] /\ AppliesReleases /\ UNCHANGED <<k4Keyed, closeAsked>>
  BY DEF ReleaseStraightKey, ReleasePaddles, Releasing
<1>2. woken' = TRUE \/ UNCHANGED woken
  BY DEF ReleaseStraightKey, ReleasePaddles, PushEvent
<1>. QED  BY <1>1, <1>2 DEF TypeOK, KeyerType

\* Only Exit ends the keyer, and only three ways lead it to sleep or out of its sleep.
LEMMA WhereItGoes ==
  ASSUME TypeOK, Keyer, ~ReleaseStraightKey, ~ReleasePaddles
  PROVE  /\ ~Exit => keyer'.pc # "Exited"
         /\ ~Wake => UNCHANGED <<releases, woken>> /\ (keyer.pc = "Top" => releases = <<>>)
         /\ keyer'.pc = "Wait" => (NothingLost /\ events = <<>>) \/ Reconcile
<1>0. keyer \in KeyerType
  BY DEF TypeOK
<1>1. CASE \/ KeyStraightDown \/ KeyStraightUp \/ KeyReleased \/ RestoreMonitor \/ NoFirstElement \/ EndBurst
  <2>1. keyer'.pc = "Top"
    BY <1>1, PassRests DEF KeyStraightDown, KeyStraightUp, KeyReleased, RestoreMonitor, NoFirstElement, EndBurst,
       NextPass
  <2>2. UNCHANGED <<releases, woken>> /\ keyer.pc # "Top"
    BY <1>1 DEF KeyStraightDown, KeyStraightUp, KeyReleased, RestoreMonitor, NoFirstElement, EndBurst, Pops, Decides,
       BurstOnly, QueuesKept, queueVars
  <2>. QED  BY <2>1, <2>2
<1>2. CASE BeginBurst
  <2>1. keyer'.pc = "First"
    BY <1>2 DEF BeginBurst, Pass
  <2>2. UNCHANGED <<releases, woken>> /\ keyer.pc = "Pop"
    BY <1>2 DEF BeginBurst, Pops
  <2>. QED  BY <2>1, <2>2
<1>3. CASE Drained \/ PopClose \/ Exit \/ NothingLost \/ NotYetReconciled \/ Reconcile \/ Wake \/ TimeOut
  BY <1>0, <1>3 DEF Drained, PopClose, Exit, NothingLost, NotYetReconciled, Reconcile, Wake, TimeOut, GoTo, QueuesKept,
     queueVars, KeyerType
<1>4. CASE NothingQueued
  <2>1. keyer'.pc \in {"Top", "Reconcile"}
    BY <1>0, <1>4, PassRests DEF NothingQueued, NextPass, GoTo, KeyerType
  <2>. QED  BY <1>4, <2>1 DEF NothingQueued, QueuesKept, queueVars
<1>5. CASE FirstElement \/ Hear \/ ReadDue \/ Reread \/ DecisionDue \/ EndElement \/ NextElement
  <2>1. UNCHANGED <<releases, woken>> /\ keyer.pc # "Top"
    BY <1>5 DEF FirstElement, BeginFirstElement, Hear, ReadDue, Reread, DecisionDue, EndElement, NextElement, Decides,
       BurstOnly, queueVars
  <2>2. keyer'.pc \in {"Heard", "Reread", "Sounding", "Gap", "Tone"}
    BY <1>0, <1>5 DEF FirstElement, BeginFirstElement, Hear, ReadDue, Reread, DecisionDue, EndElement, NextElement,
       KeyerType
  <2>. QED  BY <2>1, <2>2
<1>. QED  BY <1>1, <1>2, <1>3, <1>4, <1>5 DEF Keyer

LEMMA EndedKept ==
  ASSUME TypeOK, EndedIsUp, Next
  PROVE  EndedIsUp'
<1>1. CASE Main \/ Device
  BY <1>1 DEF Main, Inhibit, Permit, Escape, Close, PushRelease, PostClose, MainOnly, Device, Edge,
     StraightEdge, PaddleEdge, keyerVars, EndedIsUp
<1>2. CASE ReleaseStraightKey \/ ReleasePaddles
  BY <1>2, ReleaseKeeps DEF EndedIsUp
<1>3. CASE Keyer /\ ~ReleaseStraightKey /\ ~ReleasePaddles
  BY <1>3, WhereItGoes DEF Exit, KeyUpOnAir, EndedIsUp
<1>. QED  BY <1>1, <1>2, <1>3 DEF Next

LEMMA SleepKept ==
  ASSUME TypeOK, SleepsOnNothing, Next
  PROVE  SleepsOnNothing'
<1>1. CASE Inhibit \/ Permit \/ Escape \/ Close \/ \E edge \in Edges : Edge(edge)
  BY <1>1 DEF Inhibit, Permit, Escape, Close, MainOnly, Edge, queueVars, keyerVars, SleepsOnNothing
<1>2. CASE PushRelease \/ PostClose
  BY <1>2 DEF PushRelease, PostClose, SleepsOnNothing
<1>3. CASE StraightEdge \/ PaddleEdge
  <2>1. UNCHANGED <<keyer, releases>> /\ PushEvent(device)
    BY <1>3 DEF StraightEdge, PaddleEdge, keyerVars
  <2>2. CASE Len(events) < QueueSize
    BY <2>1, <2>2 DEF PushEvent, SleepsOnNothing
  <2>3. CASE ~(Len(events) < QueueSize)
    <3>1. events # <<>>
      BY <2>3, PaddleAssumption DEF TypeOK, QueuesOK
    <3>. QED  BY <2>1, <2>3, <3>1 DEF PushEvent, SleepsOnNothing
  <2>. QED  BY <2>2, <2>3
<1>4. CASE ReleaseStraightKey \/ ReleasePaddles
  <2>1. releases # <<>>
    BY <1>4 DEF ReleaseStraightKey, ReleasePaddles, Releasing
  <2>. QED  BY <1>4, <2>1, ReleaseKeeps DEF AppliesReleases, SleepsOnNothing
<1>5. CASE Keyer /\ ~ReleaseStraightKey /\ ~ReleasePaddles
  <2>1. CASE Wake
    <3>1. keyer'.pc = "Top"
      BY <2>1 DEF Wake, TypeOK, KeyerType
    <3>. QED  BY <3>1 DEF SleepsOnNothing
  <2>2. CASE ~Wake
    <3>1. UNCHANGED <<releases, woken>> /\ (keyer.pc = "Top" => releases = <<>>)
      BY <1>5, <2>2, WhereItGoes
    <3>2. keyer'.pc = "Wait" => events' = <<>> /\ ~lost'
      BY <1>5, WhereItGoes DEF NothingLost, Reconcile, QueuesKept, queueVars
    <3>. QED  BY <3>1, <3>2 DEF SleepsOnNothing
  <2>. QED  BY <2>1, <2>2
<1>. QED  BY <1>1, <1>2, <1>3, <1>4, <1>5 DEF Next, Main, Device

LEMMA MainKept ==
  ASSUME MainKnown, Next
  PROVE  MainKnown'
<1>1. CASE Keyer
  BY <1>1, KeyerKeeps DEF KeyerOnly, mainVars, MainKnown
<1>2. CASE Main \/ Device
  BY <1>2 DEF Main, Inhibit, Permit, Escape, Close, PushRelease, PostClose, OrderTo, Device, Edge, StraightEdge,
     PaddleEdge, mainVars, MainKnown
<1>. QED  BY <1>1, <1>2 DEF Next

LEMMA HandKept ==
  ASSUME TypeOK, HandKnown, Next
  PROVE  HandKnown'
<1>0. now \in Nat /\ key \in [down : BOOLEAN, at : Nat]
  BY DEF TypeOK, DeviceOK
<1>1. CASE StraightEdge
  <2>1. device' = NoEdge
    BY <1>1 DEF StraightEdge
  <2>2. CASE now' = now + 1 /\ key' = [down |-> TRUE, at |-> now + 1]
    BY <1>0, <2>1, <2>2 DEF HandKnown, NoEdge
  <2>3. CASE key' = [key EXCEPT !.down = FALSE] /\ UNCHANGED now
    BY <1>0, <2>1, <2>3 DEF HandKnown, NoEdge
  <2>. QED  BY <1>1, <2>2, <2>3 DEF StraightEdge
<1>2. CASE PaddleEdge
  BY <1>0, <1>2 DEF PaddleEdge, HandKnown, NoEdge
<1>3. ASSUME NEW edge \in Edges, Edge(edge) PROVE HandKnown'
  <2>1. UNCHANGED <<now, key, mode>> /\ device = NoEdge /\ device' \in {edge, NoEdge}
    BY <1>3 DEF Edge
  <2>2. edge = "DitDown" => "Dit" \in held'
    BY <1>3 DEF Edge, IsDown, LeverOf
  <2>3. edge = "DitUp" => "Dit" \notin held'
    BY <1>3 DEF Edge, IsDown, LeverOf
  <2>4. Straight => edge \in {"DitDown", "DitUp"}
    BY <1>3 DEF Edge, LeverOf, Edges
  <2>. QED  BY <2>1, <2>2, <2>3, <2>4 DEF HandKnown, Straight, NoEdge
<1>4. CASE ReleaseStraightKey
  <2>1. UNCHANGED <<now, mode, held, device>> /\ (UNCHANGED key \/ key' = [key EXCEPT !.down = FALSE])
    BY <1>4 DEF ReleaseStraightKey, KeyerOnly, deviceVars
  <2>2. key'.at = key.at
    BY <1>0, <2>1
  <2>. QED  BY <2>1, <2>2 DEF HandKnown, Straight
<1>5. CASE Main \/ (Keyer /\ ~ReleaseStraightKey)
  <2>1. UNCHANGED <<mode, held, device, key>>
    BY <1>5, KeyerKeeps DEF Main, Inhibit, Permit, Escape, Close, PushRelease, PostClose, MainOnly, deviceVars,
       KeyerOnly, Keyer, ReleasePaddles, Drained, KeyStraightDown, KeyStraightUp, KeyReleased, BeginBurst,
       PopClose, Exit, RestoreMonitor, NothingQueued, NothingLost, NotYetReconciled, Reconcile, Wake, TimeOut,
       FirstElement, BeginFirstElement, NoFirstElement, Hear, ReadDue, Reread, DecisionDue, EndElement, NextElement,
       EndBurst, BurstOnly
  <2>2. now' \in {now, now + 1}
    BY <1>5, KeyerKeeps DEF Main, Inhibit, Permit, Escape, Close, PushRelease, PostClose, KeyerOnly
  <2>. QED  BY <1>0, <2>1, <2>2 DEF HandKnown, Straight
<1>. QED  BY <1>1, <1>2, <1>3, <1>4, <1>5 DEF Next, Device

\* A release takes the key with it, or is older than the press.
LEMMA ReleasedOrOlder ==
  ASSUME TypeOK, ReleaseStraightKey
  PROVE  ~key'.down \/ (UNCHANGED key /\ (Pending => Pending'))
<1>0. key \in [down : BOOLEAN, at : Nat] /\ releases \in Seq(Nat) /\ now \in Nat
  BY DEF TypeOK, DeviceOK, QueuesOK
<1>1. PICK at \in 1..now : /\ Releasing(at)
                           /\ IF key.down /\ key.at <= at THEN key' = [key EXCEPT !.down = FALSE] ELSE UNCHANGED key
  BY DEF ReleaseStraightKey
<1>2. CASE key.down /\ key.at <= at
  BY <1>0, <1>1, <1>2
<1>3. CASE ~key.down
  BY <1>1, <1>3
<1>4. CASE key.down /\ ~(key.at <= at)
  <2>1. UNCHANGED key
    BY <1>1, <1>4
  <2>2. ASSUME Pending PROVE Pending'
    <3>1. PICK i \in 1..Len(releases) : releases[i] >= key.at
      BY <2>2 DEF Pending
    <3>2. releases # <<>> /\ at = releases[1] /\ releases' = Tail(releases)
      BY <1>0, <1>1 DEF Releasing
    <3>3. i # 1
      BY <1>0, <1>4, <3>1, <3>2
    <3>4. i - 1 \in 1..Len(releases') /\ releases'[i - 1] = releases[i]
      BY <1>0, <3>1, <3>2, <3>3
    <3>. QED  BY <2>1, <3>1, <3>4 DEF Pending
  <2>. QED  BY <2>1, <2>2
<1>. QED  BY <1>2, <1>3, <1>4

\* PushRelease asks for a release that is later than any press stamped so far.
LEMMA PushedIsPending ==
  ASSUME TypeOK, HandKnown, PushRelease
  PROVE  Pending'
<1>1. releases \in Seq(Nat) /\ now + 1 \in Nat /\ key.at \in Nat
  BY DEF TypeOK, DeviceOK, QueuesOK
<1>2. releases' = Append(releases, now + 1) /\ UNCHANGED key
  BY DEF PushRelease, MainOnly
<1>3. Len(releases') = Len(releases) + 1 /\ releases'[Len(releases) + 1] = now + 1
  BY <1>1, <1>2
<1>4. now + 1 >= key.at
  BY <1>1 DEF HandKnown, TypeOK, DeviceOK
<1>5. Len(releases) + 1 \in 1..Len(releases')
  BY <1>1, <1>3
<1>. QED  BY <1>2, <1>3, <1>4, <1>5 DEF Pending

LEMMA KeyKept ==
  ASSUME ~Straddles, TypeOK, HandKnown, MainKnown, KeyKnown, Next
  PROVE  KeyKnown'
<1>. SUFFICES ASSUME Straight', ~closed' PROVE KeyKnown'
  BY DEF KeyKnown
<1>0. Straight /\ ~closed
  BY KeyerKeeps DEF Next, KeyerOnly, Main, Inhibit, Permit, Escape, Close, PushRelease, PostClose, MainOnly, Device, Edge,
     StraightEdge, PaddleEdge, mainVars, Straight
<1>1. ASSUME NEW edge \in Edges, Edge(edge) PROVE KeyKnown'
  <2>1. UNCHANGED <<key, releases, main, inhibited>> /\ device = NoEdge
    BY <1>1 DEF Edge, queueVars, mainVars
  <2>2. LetGo' <=> LetGo
    BY <2>1 DEF LetGo, Pending
  <2>3. inhibited => device' = NoEdge
    BY <1>1 DEF Edge
  <2>4. CASE "Dit" \notin held' /\ "Dit" \notin held
    BY <1>0, <2>1, <2>2, <2>3, <2>4 DEF KeyKnown, NoEdge
  <2>5. CASE "Dit" \in held'
    BY <1>0, <2>1, <2>2, <2>3, <2>5 DEF KeyKnown
  <2>6. CASE "Dit" \notin held' /\ "Dit" \in held
    <3>1. edge = "DitUp"
      BY <1>0, <1>1, <2>6 DEF Edge, LeverOf, IsDown, Edges
    <3>2. ~inhibited => device' = "DitUp"
      BY <1>0, <1>1, <3>1 DEF Edge
    <3>. QED  BY <1>0, <2>1, <2>2, <2>3, <3>2 DEF KeyKnown
  <2>. QED  BY <2>4, <2>5, <2>6
<1>2. CASE StraightEdge
  <2>1. UNCHANGED <<held, releases, main, inhibited>> /\ device # NoEdge /\ device' = NoEdge
    BY <1>2 DEF StraightEdge, mainVars
  <2>2. CASE IsDown(device)
    <3>1. "Dit" \in held
      BY <1>2, <2>1, <2>2 DEF StraightEdge, IsDown, HandKnown
    <3>. QED  BY <1>0, <2>1, <3>1 DEF KeyKnown, LetGo
  <2>3. CASE ~IsDown(device)
    <3>1. key' = [key EXCEPT !.down = FALSE]
      BY <1>2, <2>3 DEF StraightEdge
    <3>2. ~key'.down
      BY <3>1 DEF TypeOK, DeviceOK
    <3>. QED  BY <1>0, <2>1, <3>2 DEF KeyKnown
  <2>. QED  BY <2>2, <2>3
<1>3. CASE PaddleEdge
  BY <1>0, <1>3 DEF PaddleEdge
<1>4. CASE Inhibit \/ Escape
  <2>1. main' = "Release"
    BY <1>4 DEF Inhibit, Escape, OrderTo
  <2>. QED  BY <2>1 DEF KeyKnown, LetGo
<1>5. CASE Close \/ PostClose
  BY <1>0, <1>5 DEF Close, PostClose, MainKnown, OrderTo, KeyKnown
<1>6. CASE Permit
  <2>1. UNCHANGED <<held, device, key, releases, main>> /\ inhibited' = FALSE
    BY <1>6 DEF Permit, MainOnly, deviceVars
  <2>2. LetGo' <=> LetGo
    BY <2>1 DEF LetGo, Pending
  <2>. QED  BY <1>0, <2>1, <2>2 DEF KeyKnown
<1>7. CASE PushRelease
  <2>1. Pending'
    BY <1>7, PushedIsPending
  <2>2. device = NoEdge /\ device' = NoEdge
    BY <1>7 DEF PushRelease, MainOnly, deviceVars
  <2>. QED  BY <2>1, <2>2 DEF KeyKnown, LetGo
<1>8. CASE ReleaseStraightKey
  <2>1. UNCHANGED <<held, device, main, inhibited>>
    BY <1>8 DEF ReleaseStraightKey, KeyerOnly, deviceVars, mainVars
  <2>2. ~key'.down \/ (UNCHANGED key /\ (LetGo => LetGo'))
    BY <1>8, <2>1, ReleasedOrOlder DEF LetGo
  <2>. QED  BY <1>0, <2>1, <2>2 DEF KeyKnown
<1>9. CASE Keyer /\ ~ReleaseStraightKey
  <2>1. UNCHANGED <<held, device, main, inhibited>>
    BY <1>9, KeyerKeeps DEF KeyerOnly, deviceVars, mainVars
  <2>2. ~ReleasePaddles
    BY <1>0 DEF ReleasePaddles
  <2>3. UNCHANGED <<key, releases>>
    BY <1>9, <2>2 DEF Keyer, Drained, KeyStraightDown, KeyStraightUp, KeyReleased, BeginBurst, Pops, PopClose, Exit,
       RestoreMonitor, NothingQueued, NothingLost, NotYetReconciled, Reconcile, Wake, TimeOut, FirstElement,
       BeginFirstElement, NoFirstElement, Hear, ReadDue, Reread, DecisionDue, EndElement, NextElement, EndBurst,
       BurstOnly, QueuesKept, queueVars
  <2>4. LetGo' <=> LetGo
    BY <2>1, <2>3 DEF LetGo, Pending
  <2>. QED  BY <1>0, <2>1, <2>3, <2>4 DEF KeyKnown
<1>. QED  BY <1>1, <1>2, <1>3, <1>4, <1>5, <1>6, <1>7, <1>8, <1>9 DEF Next, Main, Device

\* An edge or a release pushed behind what is queued.
LEMMA PushSettles ==
  ASSUME TypeOK, QueueKnown, Straight, NEW event \in Edges \cup {"Release"}, PushEvent(event),
         event = "DitDown" => key'.down
  PROVE  ~lost' /\ LeavesKeyed' => key'.down
<1>1. CASE Len(events) < QueueSize
  <2>1. events' = Append(events, event) /\ events \in Seq(Edges \cup {"Release"})
    BY <1>1 DEF PushEvent, TypeOK, QueuesOK
  <2>2. events' # <<>> /\ events'[Len(events')] = event
    BY <2>1
  <2>. QED  BY <2>2 DEF LeavesKeyed
<1>2. CASE ~(Len(events) < QueueSize)
  BY <1>2 DEF PushEvent
<1>. QED  BY <1>1, <1>2

\* What is left of the queue ends the way it did.
LEMMA PopKeepsTheLast ==
  ASSUME TypeOK, NEW event, Pops(event)
  PROVE  events' # <<>> => events # <<>> /\ events'[Len(events')] = events[Len(events)]
BY DEF Pops, TypeOK, QueuesOK

\* The only event left was the one popped.
LEMMA PopTheLast ==
  ASSUME TypeOK, NEW event, Pops(event), events' = <<>>
  PROVE  events # <<>> /\ events[Len(events)] = event
<1>1. events \in Seq(Edges \cup {"Release"}) /\ events # <<>> /\ event = Head(events) /\ Tail(events) = <<>>
  BY DEF Pops, TypeOK, QueuesOK
<1>2. Len(Tail(events)) = Len(events) - 1 /\ Head(events) = events[1]
  BY <1>1
<1>3. Len(events) = 1
  BY <1>1, <1>2
<1>. QED  BY <1>1, <1>2, <1>3

LEMMA QueueKept ==
  ASSUME TypeOK, QueueKnown, Next
  PROVE  QueueKnown'
<1>. SUFFICES ASSUME Straight', ~lost', LeavesKeyed' PROVE key'.down
  BY DEF QueueKnown
<1>0. Straight
  BY KeyerKeeps DEF Next, KeyerOnly, Main, Inhibit, Permit, Escape, Close, PushRelease, PostClose, MainOnly, Device, Edge,
     StraightEdge, PaddleEdge, Straight
<1>1. CASE Main \/ \E edge \in Edges : Edge(edge)
  BY <1>0, <1>1 DEF Main, Inhibit, Permit, Escape, Close, PushRelease, PostClose, MainOnly, Edge, queueVars, keyerVars,
     LeavesKeyed, QueueKnown
<1>2. CASE StraightEdge
  <2>1. device \in Edges /\ PushEvent(device)
    BY <1>2 DEF StraightEdge, TypeOK, DeviceOK
  <2>2. device = "DitDown" => key'.down
    BY <1>2 DEF StraightEdge, IsDown
  <2>. QED  BY <1>0, <2>1, <2>2, PushSettles
<1>3. CASE PaddleEdge \/ ReleasePaddles \/ BeginBurst
  BY <1>0, <1>3 DEF PaddleEdge, ReleasePaddles, BeginBurst
<1>4. CASE ReleaseStraightKey
  <2>1. CASE PushEvent("Release")
    BY <1>0, <2>1, PushSettles
  <2>2. CASE UNCHANGED <<key, events, lost>>
    BY <1>0, <1>4, <2>2 DEF ReleaseStraightKey, LeavesKeyed, QueueKnown
  <2>. QED  BY <1>4, <2>1, <2>2 DEF ReleaseStraightKey
<1>5. CASE KeyStraightDown
  <2>1. Pops("DitDown") /\ UNCHANGED <<key, lost>>
    BY <1>5 DEF KeyStraightDown, Pops
  <2>2. LeavesKeyed
    BY <2>1, PopKeepsTheLast, PopTheLast DEF LeavesKeyed
  <2>. QED  BY <1>0, <2>1, <2>2 DEF QueueKnown
<1>6. CASE KeyStraightUp \/ KeyReleased
  <2>1. PICK event \in {"DitUp", "Release"} : Pops(event)
    BY <1>6 DEF KeyStraightUp, KeyReleased
  <2>2. UNCHANGED <<key, lost>> /\ k4Keyed' = FALSE
    BY <1>6 DEF KeyStraightUp, KeyReleased, Pops, KeyUpOnAir
  <2>3. events' # <<>>
    BY <2>2 DEF LeavesKeyed
  <2>4. LeavesKeyed
    BY <2>1, <2>3, PopKeepsTheLast DEF LeavesKeyed
  <2>. QED  BY <1>0, <2>2, <2>4 DEF QueueKnown
<1>7. CASE Exit
  BY <1>7 DEF Exit, KeyUpOnAir, LeavesKeyed
<1>8. CASE Reconcile
  <2>1. events' = <<>> /\ k4Keyed'
    BY <1>8 DEF Reconcile, LeavesKeyed
  <2>. QED  BY <1>8, <2>1 DEF Reconcile, KeyUpOnAir
<1>9. CASE \/ Drained \/ PopClose \/ RestoreMonitor \/ NothingQueued \/ NothingLost \/ NotYetReconciled \/ Wake
           \/ TimeOut \/ FirstElement \/ NoFirstElement \/ Hear \/ ReadDue \/ Reread \/ DecisionDue \/ EndElement
           \/ NextElement \/ EndBurst
  <2>1. UNCHANGED <<key, events, lost, k4Keyed>>
    BY <1>9 DEF Drained, PopClose, RestoreMonitor, NothingQueued, NothingLost, NotYetReconciled, Wake, TimeOut,
       FirstElement, BeginFirstElement, NoFirstElement, Hear, ReadDue, Reread, DecisionDue, EndElement, NextElement,
       EndBurst, BurstOnly, QueuesKept, queueVars
  <2>. QED  BY <1>0, <2>1 DEF LeavesKeyed, QueueKnown
<1>. QED  BY <1>1, <1>2, <1>3, <1>4, <1>5, <1>6, <1>7, <1>8, <1>9 DEF Next, Keyer, Device

-----------------------------------------------------------------------------
Known == EndedIsUp /\ SleepsOnNothing /\ MainKnown /\ HandKnown /\ KeyKnown /\ QueueKnown

LEMMA NotLeftKeyed ==
  ASSUME TypeOK, FramesOK, Known
  PROVE  NeverLeftKeyed
<1>1. Settled => events = <<>> /\ ~lost /\ releases = <<>> /\ ~Pending /\ ~closed
  BY DEF Known, SleepsOnNothing, MainKnown, Settled, Pending
<1>2. ASSUME Settled, air = "Down" PROVE key.down /\ "Dit" \in held /\ ~inhibited
  <2>1. k4Keyed /\ Straight
    BY <1>2 DEF FramesOK, AirAlternates, ModesApart, Settled
  <2>2. key.down
    BY <1>1, <1>2, <2>1 DEF Known, QueueKnown, LeavesKeyed
  <2>. QED  BY <1>1, <1>2, <2>1, <2>2 DEF Known, KeyKnown, LetGo, Settled, NoEdge
<1>3. keyer.pc = "Exited" => air = "Up"
  BY DEF TypeOK, RadioOK, FramesOK, AirAlternates, Known, EndedIsUp
<1>. QED  BY <1>1, <1>2, <1>3 DEF NeverLeftKeyed

\* The radio is never left keyed, whatever edges are lost to a full queue and whenever releases are
\* asked for: unless a release runs whole between the device's check of the inhibit and its reading
\* of the clock.
THEOREM LetsGo ==
  ASSUME ~Straddles
  PROVE  Spec => []NeverLeftKeyed
<1>1. Init => FramesOK
  BY PassRests DEF Init, FramesOK, AirAlternates, ModesApart, InBurst
<1>2. ASSUME Init PROVE Known
  <2>1. EndedIsUp /\ SleepsOnNothing
    BY <1>2, PassRests DEF Init, EndedIsUp, SleepsOnNothing
  <2>2. MainKnown /\ HandKnown
    BY <1>2 DEF Init, MainKnown, HandKnown, NoEdge
  <2>3. KeyKnown /\ QueueKnown
    BY <1>2 DEF Init, KeyKnown, QueueKnown, LeavesKeyed
  <2>. QED  BY <2>1, <2>2, <2>3 DEF Known
<1>3. ASSUME TypeOK, FramesOK, Known, [Next]_vars PROVE FramesOK' /\ Known'
  <2>1. CASE Next
    BY <1>3, <2>1, FramesKept, EndedKept, SleepKept, MainKept, HandKept, KeyKept, QueueKept DEF Known
  <2>2. CASE UNCHANGED vars
    <3>1. FramesOK'
      BY <1>3, <2>2 DEF vars, keyerVars, FramesOK, AirAlternates, ModesApart, Straight, InBurst
    <3>2. EndedIsUp' /\ SleepsOnNothing' /\ MainKnown' /\ HandKnown'
      BY <1>3, <2>2 DEF vars, keyerVars, queueVars, mainVars, deviceVars, Known, EndedIsUp, SleepsOnNothing, MainKnown,
         HandKnown, Straight
    <3>3. KeyKnown' /\ QueueKnown'
      BY <1>3, <2>2 DEF vars, keyerVars, queueVars, mainVars, deviceVars, Known, KeyKnown, LetGo, Pending, QueueKnown,
         LeavesKeyed, Straight
    <3>. QED  BY <3>1, <3>2, <3>3 DEF Known
  <2>. QED  BY <1>3, <2>1, <2>2
<1>. QED  BY <1>1, <1>2, <1>3, TypeCorrect, NotLeftKeyed, PTL DEF Spec

-----------------------------------------------------------------------------
(* What the paddles are read from. *)

\* No edge is recorded later than t.
Past(t) == \A h \in history : h.at <= t

\* Both levers were let go of at a time no press comes after.
LetGoAt(at) ==
  /\ {[at |-> at, edge |-> "DitUp"], [at |-> at, edge |-> "DahUp"]} \subseteq history
  /\ \A h \in history : IsDown(h.edge) => h.at <= at

\* A first element that was scheduled is of a press recorded.
FirstKnown == first.at # 0 => first.elt \in Levers /\ \E h \in history : IsDown(h.edge) /\ h.at = first.at

\* While the elements since a release are counted, the levers are up and no first element is scheduled.
LeversUp == extra # 0 => first.at = 0 /\ \E at \in Nat : LetGoAt(at)

ElementKnown ==
  /\ keyer.pc \in {"Tone", "Heard", "Reread", "Sounding"} => keyer.elt \in Levers
  /\ keyer.pc \in {"Tone", "Gap"} => keyer.prev \in Levers

\* The one element begun since a release leaves nothing that calls for another: the times its successor is
\* decided by, and the end of its burst, are not before any edge.
Spent ==
  extra = 2 =>
    /\ keyer.pc = "Heard" => Past(keyer.heard) /\ (keyer.prev = NoElement => Past(keyer.look))
    /\ keyer.pc \in {"Reread", "Sounding"} => Past(keyer.heard) /\ Past(keyer.look)
    /\ keyer.pc = "Gap" => Past(keyer.prevHeard) /\ Past(keyer.prevLook)
    /\ keyer.pc \in {"Sounding", "Gap"} => keyer.due = 0 \/ Past(keyer.due)
    /\ keyer.pc \in Resting \cup {"First"} => keyer.endDue = 0 \/ Past(keyer.endDue)

BurstKnown == Past(now) /\ FirstKnown /\ LeversUp /\ ElementKnown /\ Spent /\ ReleaseEndsBurst

LEMMA GreatestOf ==
  ASSUME NEW S \in SUBSET Nat, S # {}, NEW n \in Nat, \A k \in S : k <= n
  PROVE  \E m \in S : \A k \in S : k <= m
<1> DEFINE R == OpToRel(<, Nat)
           T == {x \in 0 .. n : n - x \in S}
<1>1. IsWellFoundedOn(R, Nat) /\ \A x, y \in Nat : y < x => <<y, x>> \in R
  BY NatLessThanWellFounded DEF OpToRel
<1>2. T \in SUBSET Nat /\ \A k \in S : n - k \in T
  OBVIOUS
<1> HIDE DEF R
<1>3. PICK l \in T : \A k \in T : <<k, l>> \notin R
  <2> HIDE DEF T
  <2>1. QED
    BY <1>1, <1>2, WFMin
<1>4. PICK m \in S : l = n - m
  <2>1. l \in 0 .. n /\ n - l \in S /\ n - (n - l) = l
    OBVIOUS
  <2>2. QED
    BY <2>1
<1>5. ASSUME NEW k \in S
      PROVE  k <= m
  <2>1. n - k \in T /\ n - k \in Nat /\ l \in Nat
    BY <1>2
  <2>2. ~(n - k < l)
    BY <1>1, <1>3, <2>1
  <2>3. QED
    BY <1>4, <2>1, <2>2
<1>6. QED
  BY <1>5

\* The last edge of its kind.
LEMMA StampIs ==
  ASSUME history \subseteq [at : Nat, edge : Edges], now \in Nat, Past(now), NEW edge, NEW asOf \in Nat
  PROVE  LET s == Stamp(edge, asOf) IN
         /\ s \in Nat
         /\ \A t \in Nat : (\A h \in history : h.edge = edge => h.at <= t) => s <= t
         /\ \A h \in history : h.edge = edge /\ h.at <= asOf => h.at <= s
<1> DEFINE at == {h.at : h \in {x \in history : x.edge = edge /\ x.at <= asOf}}
           s == Stamp(edge, asOf)
<1>1. s = IF at = {} THEN 0 ELSE CHOOSE t \in at : \A u \in at : u <= t
  BY DEF Stamp
<1>2. /\ \A t \in at : \E h \in history : h.edge = edge /\ h.at <= asOf /\ t = h.at
      /\ \A h \in history : h.edge = edge /\ h.at <= asOf => h.at \in at
  OBVIOUS
<1>3. at \in SUBSET Nat /\ \A t \in at : t <= now
  BY <1>2 DEF Past
<1> HIDE DEF at, s
<1>4. CASE at = {}
  BY <1>1, <1>2, <1>4 DEF s
<1>5. CASE at # {}
  <2>1. \E t \in at : \A u \in at : u <= t
    BY <1>3, <1>5, GreatestOf
  <2>2. s \in at /\ \A u \in at : u <= s
    BY <1>1, <1>5, <2>1
  <2>3. QED
    BY <1>2, <1>3, <2>2 DEF s
<1>6. QED
  BY <1>4, <1>5

\* From the time the levers were let go of no element is wanted, unless the memories owe one.
LEMMA NothingWanted ==
  ASSUME history \subseteq [at : Nat, edge : Edges], now \in Nat, Past(now),
         NEW at \in Nat, LetGoAt(at), NEW asOf \in Nat, at <= asOf,
         NEW prev \in Levers \cup {NoElement}, NEW look \in Nat, NEW heard \in Nat, NEW memory \in BOOLEAN,
         prev # NoElement => Past(look) /\ Past(heard)
  PROVE  Choose(prev, look, heard, asOf, memory) = NoElement
<1> DEFINE ditDown == Stamp("DitDown", asOf)
           ditUp == Stamp("DitUp", asOf)
           dahDown == Stamp("DahDown", asOf)
           dahUp == Stamp("DahUp", asOf)
<1>1. \A e \in Edges : Stamp(e, asOf) \in Nat /\ \A t \in Nat : Past(t) => Stamp(e, asOf) <= t
  BY StampIs DEF Past
<1>2. ditDown \in Nat /\ ditUp \in Nat /\ dahDown \in Nat /\ dahUp \in Nat
  BY <1>1 DEF Edges
<1>3. ditDown <= at /\ dahDown <= at
  <2>1. \A h \in history : h.edge \in {"DitDown", "DahDown"} => h.at <= at
    BY DEF LetGoAt, IsDown
  <2>2. QED
    BY <2>1, StampIs
<1>4. at <= ditUp /\ at <= dahUp
  <2> DEFINE u == [at |-> at, edge |-> "DitUp"]
             v == [at |-> at, edge |-> "DahUp"]
  <2>1. u \in history /\ u.at = at /\ u.edge = "DitUp" /\ v \in history /\ v.at = at /\ v.edge = "DahUp"
    BY DEF LetGoAt
  <2> HIDE DEF u, v
  <2>2. QED
    BY <2>1, StampIs
<1>5. prev # NoElement => /\ ditDown <= look /\ ditUp <= look /\ dahDown <= look /\ dahUp <= look
                          /\ ditDown <= heard /\ ditUp <= heard /\ dahDown <= heard /\ dahUp <= heard
  BY <1>1 DEF Edges
<1>6. Choose(prev, look, heard, asOf, memory) =
        LET dit == \/ ditDown > ditUp
                   \/ /\ prev = "Dah" /\ mode \in {"IambicA", "IambicB"} /\ ditDown > heard
                   \/ /\ prev = "Dah" /\ mode = "IambicB" /\ memory
                      /\ (ditDown > look /\ ditUp > look) \/ (~(dahDown > dahUp) /\ ditUp > heard)
            dah == \/ dahDown > dahUp
                   \/ /\ prev = "Dit" /\ mode = "IambicB"
                      /\ (dahDown > look /\ dahUp > look) \/ (~(ditDown > ditUp) /\ dahUp > heard)
        IN IF dit /\ dah THEN IF mode = "Ultimatic" THEN IF dahDown > ditDown THEN "Dah" ELSE "Dit"
                              ELSE IF prev = NoElement THEN IF dahDown < ditDown THEN "Dah" ELSE "Dit"
                              ELSE IF prev = "Dit" THEN "Dah" ELSE "Dit"
           ELSE IF dit THEN "Dit" ELSE IF dah THEN "Dah" ELSE NoElement
  BY DEF Choose
<1> HIDE DEF ditDown, ditUp, dahDown, dahUp
<1>7. ~(ditDown > ditUp) /\ ~(dahDown > dahUp)
  BY <1>2, <1>3, <1>4
<1>8. prev # NoElement => /\ ~(ditDown > look) /\ ~(ditUp > look) /\ ~(dahDown > look) /\ ~(dahUp > look)
                          /\ ~(ditDown > heard) /\ ~(ditUp > heard) /\ ~(dahDown > heard) /\ ~(dahUp > heard)
  BY <1>2, <1>5
<1>9. prev \in {"Dit", "Dah"} => prev # NoElement
  BY DEF NoElement
<1>10. QED
  BY <1>6, <1>7, <1>8, <1>9, Zenon

\* What the paddles are read from is changed by an edge and by a release, and the first element's beginning.
LEMMA RecordKept ==
  ASSUME TypeOK, BurstKnown, Next
  PROVE  Past(now)' /\ FirstKnown' /\ LeversUp'
<1>0. /\ now \in Nat /\ history \subseteq [at : Nat, edge : Edges] /\ extra \in 0..4
      /\ first \in [at : Nat, elt : Levers \cup {NoElement}] /\ device \in Edges \cup {NoEdge}
      /\ Past(now) /\ FirstKnown /\ LeversUp
  BY DEF TypeOK, DeviceOK, BurstKnown
<1>1. ASSUME now' \in {now, now + 1}, history' = history, first'.at = 0 \/ first' = first, extra' # 0 => extra # 0
      PROVE  Past(now)' /\ FirstKnown' /\ LeversUp'
  <2>1. Past(now)'
    BY <1>0, <1>1 DEF Past
  <2>2. FirstKnown'
    BY <1>0, <1>1 DEF FirstKnown
  <2>3. \A at \in Nat : LetGoAt(at) => LetGoAt(at)'
    BY <1>1 DEF LetGoAt
  <2>4. LeversUp'
    BY <1>0, <1>1, <2>3 DEF LeversUp
  <2>. QED  BY <2>1, <2>2, <2>4
<1>2. CASE \/ Main \/ StraightEdge \/ (\E edge \in Edges : Edge(edge))
  <2>1. now' \in {now, now + 1} /\ UNCHANGED <<history, first, extra>>
    BY <1>2 DEF Main, Inhibit, Permit, Escape, Close, PushRelease, PostClose, MainOnly, StraightEdge, Edge
  <2>. QED  BY <1>1, <2>1
<1>3. CASE \/ ReleaseStraightKey \/ Drained \/ KeyStraightDown \/ KeyStraightUp \/ KeyReleased \/ BeginBurst
           \/ PopClose \/ Exit \/ RestoreMonitor \/ NothingQueued \/ NothingLost \/ NotYetReconciled \/ Reconcile
           \/ Wake \/ TimeOut \/ Hear \/ ReadDue \/ Reread \/ DecisionDue \/ EndElement \/ EndBurst
  <2>1. UNCHANGED <<now, history, first, extra>>
    BY <1>3 DEF ReleaseStraightKey, Drained, KeyStraightDown, KeyStraightUp, KeyReleased, BeginBurst, PopClose, Exit,
       RestoreMonitor, NothingQueued, NothingLost, NotYetReconciled, Reconcile, Wake, TimeOut, Hear, ReadDue, Reread,
       DecisionDue, EndElement, EndBurst, KeyerOnly, BurstOnly
  <2>. QED  BY <1>1, <2>1
<1>4. CASE FirstElement \/ NoFirstElement \/ NextElement
  <2>1. /\ UNCHANGED <<now, history>> /\ (first'.at = 0 \/ first' = first)
        /\ UNCHANGED extra \/ CountElement
    <3>1. CASE FirstElement
      <4>1. \E elt, start : BeginFirstElement(elt, start)
        BY <3>1 DEF FirstElement
      <4>. QED  BY <4>1 DEF BeginFirstElement, BurstOnly, KeyerOnly
    <3>2. CASE NoFirstElement
      BY <3>2 DEF NoFirstElement, BurstOnly, KeyerOnly
    <3>3. CASE NextElement
      BY <3>3 DEF NextElement, BurstOnly, KeyerOnly
    <3>. QED  BY <1>4, <3>1, <3>2, <3>3
  <2>2. extra' # 0 => extra # 0
    BY <2>1 DEF CountElement
  <2>. QED  BY <1>1, <2>1, <2>2
<1>5. CASE PaddleEdge
  <2> DEFINE new == [at |-> now + 1, edge |-> device]
  <2>1. /\ device \in Edges /\ now' = now + 1 /\ history' = history \cup {new}
        /\ extra' = IF IsDown(device) \/ extra = 0 THEN 0 ELSE 1
        /\ UNCHANGED first \/ (IsDown(device) /\ first' = [at |-> now + 1, elt |-> LeverOf(device)])
    BY <1>0, <1>5 DEF PaddleEdge
  <2>2. new.at = now + 1 /\ new.edge = device /\ new \in history'
    BY <2>1
  <2> HIDE DEF new
  <2>3. Past(now)'
    BY <1>0, <2>1, <2>2 DEF Past
  <2>4. FirstKnown'
    <3>1. CASE UNCHANGED first
      BY <1>0, <2>1, <3>1 DEF FirstKnown
    <3>2. CASE IsDown(device) /\ first' = [at |-> now + 1, elt |-> LeverOf(device)]
      BY <2>2, <3>2 DEF FirstKnown, LeverOf, Levers
    <3>. QED  BY <2>1, <3>1, <3>2
  <2>5. LeversUp'
    <3>. SUFFICES ASSUME extra' # 0 PROVE first'.at = 0 /\ \E at \in Nat : LetGoAt(at)'
      BY DEF LeversUp
    <3>1. ~IsDown(device) /\ extra # 0 /\ first' = first
      BY <2>1
    <3>2. PICK at \in Nat : LetGoAt(at)
      BY <1>0, <3>1 DEF LeversUp
    <3>3. LetGoAt(at)'
      BY <2>1, <2>2, <3>1, <3>2 DEF LetGoAt
    <3>. QED  BY <1>0, <3>1, <3>3 DEF LeversUp
  <2>. QED  BY <2>3, <2>4, <2>5
<1>6. CASE ReleasePaddles
  <2>1. PICK at \in 1..now :
          /\ first' = IF first.at # 0 /\ first.at <= at THEN [at |-> 0, elt |-> NoElement] ELSE first
          /\ history' = history \cup {[at |-> at, edge |-> e] : e \in {"DitUp", "DahUp"}}
          /\ extra' = IF \E h \in history : IsDown(h.edge) /\ h.at > at THEN 0 ELSE 1
          /\ now' = now
    BY <1>6 DEF ReleasePaddles, KeyerOnly
  <2>2. /\ [at |-> at, edge |-> "DitUp"] \in history' /\ [at |-> at, edge |-> "DahUp"] \in history'
        /\ history \subseteq history' /\ at \in Nat /\ at <= now
        /\ \A h \in history' : h \in history \/ (h.at = at /\ ~IsDown(h.edge))
    BY <1>0, <2>1 DEF IsDown
  <2>3. Past(now)'
    BY <1>0, <2>1, <2>2 DEF Past
  <2>4. FirstKnown'
    BY <1>0, <2>1, <2>2 DEF FirstKnown
  <2>5. LeversUp'
    <3>. SUFFICES ASSUME extra' # 0 PROVE first'.at = 0 /\ \E t \in Nat : LetGoAt(t)'
      BY DEF LeversUp
    <3>1. \A h \in history : IsDown(h.edge) => ~(h.at > at) /\ h.at <= at
      BY <1>0, <2>1, <2>2
    <3>2. LetGoAt(at)'
      BY <2>2, <3>1 DEF LetGoAt
    <3>3. first.at # 0 => first.at <= at
      BY <1>0, <3>1 DEF FirstKnown
    <3>4. first'.at = 0
      BY <2>1, <3>3
    <3>. QED  BY <2>2, <3>2, <3>4
  <2>. QED  BY <2>3, <2>4, <2>5
<1>. QED  BY <1>2, <1>3, <1>4, <1>5, <1>6 DEF Next, Keyer, Device

\* A first element of a burst begins after a release only for a press the last burst's end overlooked.
LEMMA FirstBegins ==
  ASSUME TypeOK, BurstKnown, FirstElement
  PROVE  \E elt \in Levers, start \in Nat :
           /\ BeginFirstElement(elt, start)
           /\ extra # 0 => start = now /\ Missed(keyer.endDue) # NoElement
<1>0. /\ now \in Nat /\ history \subseteq [at : Nat, edge : Edges] /\ keyer.endDue \in Nat
      /\ first \in [at : Nat, elt : Levers \cup {NoElement}] /\ Past(now) /\ FirstKnown /\ LeversUp
  BY DEF TypeOK, DeviceOK, BurstKnown, KeyerType
<1> DEFINE elt == Choose(NoElement, 0, 0, now, FALSE)
           missed == Missed(keyer.endDue)
           start == IF first.at # 0 THEN first.at ELSE now
<1>1. extra # 0 => elt = NoElement /\ first.at = 0
  <2>. SUFFICES ASSUME extra # 0 PROVE elt = NoElement /\ first.at = 0
    OBVIOUS
  <2>1. PICK at \in Nat : LetGoAt(at)
    BY <1>0 DEF LeversUp
  <2>2. at <= now
    <3> DEFINE u == [at |-> at, edge |-> "DitUp"]
    <3>1. u \in history /\ u.at = at
      BY <2>1 DEF LetGoAt
    <3>. QED  BY <1>0, <3>1 DEF Past
  <2>3. \A prev \in Levers \cup {NoElement}, look, heard \in Nat, memory \in BOOLEAN :
          prev = NoElement => Choose(prev, look, heard, now, memory) = NoElement
    BY <1>0, <2>1, <2>2, NothingWanted
  <2>. QED  BY <1>0, <2>3 DEF LeversUp
<1>2. elt \in Levers \cup {NoElement} /\ missed \in Levers \cup {NoElement}
  <2>1. missed \in Levers \cup {NoElement}
    BY DEF Missed, LeverOf, Levers
  <2>. QED  BY <2>1, ChooseTyped
<1>3. \/ elt # NoElement /\ BeginFirstElement(elt, start)
      \/ elt = NoElement /\ first.at # 0 /\ BeginFirstElement(first.elt, first.at)
      \/ elt = NoElement /\ missed # NoElement /\ BeginFirstElement(missed, now)
  BY DEF FirstElement
<1> HIDE DEF elt, missed
<1>4. CASE elt # NoElement /\ BeginFirstElement(elt, start)
  BY <1>0, <1>1, <1>2, <1>4
<1>5. CASE elt = NoElement /\ first.at # 0 /\ BeginFirstElement(first.elt, first.at)
  BY <1>0, <1>1, <1>5 DEF FirstKnown
<1>6. CASE elt = NoElement /\ missed # NoElement /\ BeginFirstElement(missed, now)
  BY <1>0, <1>2, <1>6 DEF missed
<1>. QED  BY <1>3, <1>4, <1>5, <1>6

LEMMA ElementKept ==
  ASSUME TypeOK, BurstKnown, Next
  PROVE  ElementKnown'
<1>0. keyer \in KeyerType /\ ElementKnown
  BY DEF TypeOK, BurstKnown
<1>1. CASE Main \/ Device
  BY <1>0, <1>1 DEF Main, Inhibit, Permit, Escape, Close, PushRelease, PostClose, MainOnly, Device, Edge,
     StraightEdge, PaddleEdge, keyerVars, ElementKnown
<1>2. CASE ReleaseStraightKey \/ ReleasePaddles
  <2>1. keyer' = [keyer EXCEPT !.released = (keyer.pc = "Top")]
    BY <1>2 DEF ReleaseStraightKey, ReleasePaddles
  <2>. QED  BY <1>0, <2>1 DEF KeyerType, ElementKnown
<1>3. ASSUME keyer'.pc \in Resting \cup {"First"} PROVE ElementKnown'
  BY <1>3 DEF Resting, ElementKnown
<1>4. CASE \/ Drained \/ PopClose \/ RestoreMonitor \/ NothingQueued \/ NothingLost \/ NotYetReconciled
           \/ Wake \/ TimeOut \/ KeyStraightDown \/ KeyStraightUp \/ KeyReleased \/ Exit \/ Reconcile
           \/ BeginBurst \/ NoFirstElement \/ EndBurst
  <2>1. keyer'.pc \in Resting \cup {"First"}
    BY <1>0, <1>4, PassRests DEF Drained, PopClose, RestoreMonitor, NothingQueued, NothingLost, NotYetReconciled,
       Wake, TimeOut, KeyStraightDown, KeyStraightUp, KeyReleased, Exit, Reconcile, BeginBurst, NoFirstElement,
       EndBurst, GoTo, NextPass, Pass, KeyerType, Resting
  <2>. QED  BY <1>3, <2>1
<1>5. CASE FirstElement
  <2>1. PICK elt \in Levers, start \in Nat : BeginFirstElement(elt, start)
    BY <1>5, FirstBegins
  <2>. QED  BY <1>0, <2>1 DEF BeginFirstElement, KeyerType, ElementKnown
<1>6. CASE Hear
  BY <1>0, <1>6 DEF Hear, KeyerType, ElementKnown
<1>7. CASE ReadDue
  BY <1>0, <1>7 DEF ReadDue, KeyerType, ElementKnown
<1>8. CASE Reread
  <2>1. PICK memory \in BOOLEAN :
          LET again == Choose(keyer.prev, keyer.prevLook, keyer.prevHeard, keyer.due, memory) IN
          keyer' = [keyer EXCEPT !.pc = "Sounding", !.due = 0,
                                 !.elt = IF again = NoElement THEN keyer.elt ELSE again]
    BY <1>8 DEF Reread
  <2> DEFINE again == Choose(keyer.prev, keyer.prevLook, keyer.prevHeard, keyer.due, memory)
  <2>2. again \in Levers \cup {NoElement}
    BY ChooseTyped
  <2>3. keyer' = [keyer EXCEPT !.pc = "Sounding", !.due = 0, !.elt = IF again = NoElement THEN keyer.elt ELSE again]
    BY <2>1
  <2> HIDE DEF again
  <2>4. keyer.elt \in Levers
    BY <1>0, <1>8 DEF Reread, ElementKnown
  <2>. QED  BY <1>0, <2>2, <2>3, <2>4 DEF KeyerType, ElementKnown
<1>9. CASE DecisionDue
  BY <1>0, <1>9 DEF DecisionDue, KeyerType, ElementKnown
<1>10. CASE EndElement
  BY <1>0, <1>10 DEF EndElement, KeyerType, ElementKnown
<1>11. CASE NextElement
  <2>1. keyer.pc = "Gap" /\ \E elt \in Levers : keyer' = [keyer EXCEPT !.pc = "Tone", !.elt = elt, !.due = 0]
    BY <1>11 DEF NextElement, Decides
  <2>. QED  BY <1>0, <2>1 DEF KeyerType, ElementKnown
<1>. QED
  BY <1>1, <1>2, <1>4, <1>5, <1>6, <1>7, <1>8, <1>9, <1>10, <1>11 DEF Next, Keyer

\* A press overlooked is one after the end of the last burst.
LEMMA NothingMissed ==
  ASSUME history \subseteq [at : Nat, edge : Edges], NEW endDue \in Nat, Past(endDue)
  PROVE  Missed(endDue) = NoElement
<1>1. {h \in history : IsDown(h.edge) /\ h.at > endDue} = {}
  BY DEF Past
<1>. QED  BY <1>1 DEF Missed

\* With the levers up and no time of the last element before an edge the keyer decides that the burst is over.
LEMMA NothingDecided ==
  ASSUME TypeOK, BurstKnown, extra = 2, NEW elt \in Levers
  PROVE  ~Decides(elt)
<1>. SUFFICES ASSUME Decides(elt) PROVE FALSE
  OBVIOUS
<1>0. /\ keyer \in KeyerType /\ now \in Nat /\ history \subseteq [at : Nat, edge : Edges]
      /\ Past(now) /\ LeversUp /\ ElementKnown /\ Spent
  BY DEF TypeOK, DeviceOK, BurstKnown
<1>1. keyer.pc = "Gap" /\ keyer.due # 0
  BY DEF Decides
<1>2. PICK memory \in BOOLEAN : elt = Choose(keyer.prev, keyer.prevLook, keyer.prevHeard, keyer.due, memory)
  BY DEF Decides
<1>3. /\ keyer.due \in Nat /\ keyer.prevLook \in Nat /\ keyer.prevHeard \in Nat
      /\ keyer.prev \in Levers \cup {NoElement}
  BY <1>0 DEF KeyerType
<1>4. Past(keyer.due) /\ Past(keyer.prevLook) /\ Past(keyer.prevHeard)
  BY <1>0, <1>1 DEF Spent
<1>5. PICK at \in Nat : LetGoAt(at)
  BY <1>0 DEF LeversUp
<1>6. at <= keyer.due
  <2> DEFINE u == [at |-> at, edge |-> "DitUp"]
  <2>1. u \in history /\ u.at = at
    BY <1>5 DEF LetGoAt
  <2>. QED  BY <1>4, <2>1 DEF Past
<1>7. Choose(keyer.prev, keyer.prevLook, keyer.prevHeard, keyer.due, memory) = NoElement
  BY <1>0, <1>3, <1>4, <1>5, <1>6, NothingWanted
<1>. QED  BY <1>2, <1>7 DEF Levers, NoElement

LEMMA SpentKept ==
  ASSUME TypeOK, BurstKnown, Next
  PROVE  Spent' /\ ReleaseEndsBurst'
<1>0. /\ keyer \in KeyerType /\ now \in Nat /\ history \subseteq [at : Nat, edge : Edges] /\ extra \in 0..2
      /\ Past(now) /\ ElementKnown /\ Spent
  BY DEF TypeOK, DeviceOK, BurstKnown, ReleaseEndsBurst
<1>1. CASE PaddleEdge \/ ReleasePaddles
  <2>1. extra' \in {0, 1}
    BY <1>1 DEF PaddleEdge, ReleasePaddles
  <2>. QED  BY <2>1 DEF Spent, ReleaseEndsBurst
<1>2. CASE Main \/ StraightEdge \/ (\E edge \in Edges : Edge(edge))
  <2>1. UNCHANGED <<extra, history, keyer>>
    BY <1>2 DEF Main, Inhibit, Permit, Escape, Close, PushRelease, PostClose, MainOnly, StraightEdge, Edge, keyerVars
  <2>. QED  BY <1>0, <2>1 DEF Spent, Past, ReleaseEndsBurst
<1>3. CASE ReleaseStraightKey
  <2>1. UNCHANGED <<extra, history>> /\ keyer' = [keyer EXCEPT !.released = (keyer.pc = "Top")]
    BY <1>3 DEF ReleaseStraightKey
  <2>2. keyer' = [keyer EXCEPT !.released = keyer'.released]
    BY <1>0, <2>1 DEF KeyerType
  <2>. QED  BY <1>0, <2>1 DEF KeyerType, Spent, Past, ReleaseEndsBurst
<1>4. ASSUME UNCHANGED <<extra, history>>, keyer.pc \in Resting \cup {"First"}, keyer'.pc \in Resting \cup {"First"},
             keyer'.endDue = keyer.endDue
      PROVE  Spent' /\ ReleaseEndsBurst'
  BY <1>0, <1>4 DEF Spent, Past, Resting, ReleaseEndsBurst
<1>5. CASE \/ Drained \/ PopClose \/ RestoreMonitor \/ NothingQueued \/ NothingLost \/ NotYetReconciled
           \/ Wake \/ TimeOut \/ KeyStraightDown \/ KeyStraightUp \/ KeyReleased \/ Exit \/ Reconcile
           \/ BeginBurst \/ NoFirstElement
  <2>1. UNCHANGED <<extra, history>>
    BY <1>5 DEF Drained, PopClose, RestoreMonitor, NothingQueued, NothingLost, NotYetReconciled,
       Wake, TimeOut, KeyStraightDown, KeyStraightUp, KeyReleased, Exit, Reconcile, BeginBurst, NoFirstElement,
       BurstOnly
  <2>2. CASE \/ Drained \/ PopClose \/ NothingLost \/ NotYetReconciled \/ Wake \/ TimeOut \/ Exit \/ Reconcile
    BY <1>0, <1>4, <2>1, <2>2 DEF Drained, PopClose, NothingLost, NotYetReconciled, Wake, TimeOut, Exit, Reconcile,
       GoTo, KeyerType, Resting
  <2>3. CASE \/ RestoreMonitor \/ NothingQueued \/ KeyStraightDown \/ KeyStraightUp \/ KeyReleased
             \/ BeginBurst \/ NoFirstElement
    <3>1. keyer.pc \in {"Pop", "First"}
      BY <2>3 DEF RestoreMonitor, NothingQueued, KeyStraightDown, KeyStraightUp, KeyReleased, BeginBurst,
         NoFirstElement, Pops
    <3>2. \/ keyer' = Pass(keyer.endDue) \/ keyer' = [Pass(keyer.endDue) EXCEPT !.pc = "First"]
          \/ keyer' = [keyer EXCEPT !.pc = "Reconcile"]
      BY <2>3 DEF RestoreMonitor, NothingQueued, KeyStraightDown, KeyStraightUp, KeyReleased, BeginBurst,
         NoFirstElement, GoTo, NextPass
    <3>3. keyer'.endDue = keyer.endDue /\ keyer'.pc \in {"Top", "First", "Reconcile"}
      BY <1>0, <3>2 DEF Pass, KeyerType
    <3>. QED  BY <1>4, <2>1, <3>1, <3>3 DEF Resting
  <2>. QED  BY <1>5, <2>2, <2>3
<1>6. CASE FirstElement
  <2>1. PICK elt \in Levers, start \in Nat :
          /\ BeginFirstElement(elt, start)
          /\ extra # 0 => start = now /\ Missed(keyer.endDue) # NoElement
    BY <1>6, FirstBegins
  <2>2. keyer.pc = "First" /\ keyer.endDue \in Nat
    BY <1>0, <1>6 DEF FirstElement, KeyerType
  <2>3. extra # 2
    <3>. SUFFICES ASSUME extra = 2 PROVE FALSE
      OBVIOUS
    <3>1. keyer.endDue = 0 \/ Past(keyer.endDue)
      BY <1>0, <2>2 DEF Spent
    <3>2. keyer.endDue # 0
      BY <2>1 DEF Missed
    <3>. QED  BY <1>0, <2>1, <2>2, <3>1, <3>2, NothingMissed
  <2>4. /\ UNCHANGED history /\ CountElement
        /\ keyer' = [keyer EXCEPT !.pc = "Heard", !.elt = elt, !.look = start, !.heard = start, !.endDue = 0]
    BY <2>1 DEF BeginFirstElement, BurstOnly
  <2>5. keyer'.pc = "Heard" /\ keyer'.look = start /\ keyer'.heard = start
    BY <1>0, <2>4 DEF KeyerType
  <2>6. extra' \in 0..2 /\ (extra' = 2 => start = now)
    BY <1>0, <2>1, <2>3, <2>4 DEF CountElement
  <2>. QED  BY <1>0, <2>4, <2>5, <2>6 DEF Spent, Past, Resting, ReleaseEndsBurst
<1>7. CASE Hear
  <2>1. UNCHANGED <<extra, history>> /\ keyer.pc = "Tone" /\ keyer' = [keyer EXCEPT !.pc = "Heard", !.heard = now]
    BY <1>7 DEF Hear, BurstOnly
  <2>2. keyer'.pc = "Heard" /\ keyer'.heard = now /\ keyer'.prev # NoElement
    BY <1>0, <2>1 DEF KeyerType, ElementKnown, Levers, NoElement
  <2>. QED  BY <1>0, <2>1, <2>2 DEF Spent, Past, Resting, ReleaseEndsBurst
<1>8. CASE ReadDue
  <2>1. /\ UNCHANGED <<extra, history>> /\ keyer.pc = "Heard"
        /\ keyer' = [keyer EXCEPT !.pc = "Reread", !.due = now,
                                  !.look = IF keyer.prev = NoElement THEN keyer.look ELSE now]
    BY <1>8 DEF ReadDue, BurstOnly
  <2>2. /\ keyer'.pc = "Reread" /\ keyer'.heard = keyer.heard
        /\ keyer'.look = IF keyer.prev = NoElement THEN keyer.look ELSE now
    BY <1>0, <2>1 DEF KeyerType
  <2>. QED  BY <1>0, <2>1, <2>2 DEF Spent, Past, Resting, ReleaseEndsBurst
<1>9. CASE Reread
  <2>1. UNCHANGED <<extra, history>> /\ keyer.pc = "Reread"
    BY <1>9 DEF Reread, BurstOnly
  <2>2. PICK elt : keyer' = [keyer EXCEPT !.pc = "Sounding", !.due = 0, !.elt = elt]
    BY <1>9 DEF Reread
  <2>3. /\ keyer'.pc = "Sounding" /\ keyer'.heard = keyer.heard /\ keyer'.look = keyer.look /\ keyer'.due = 0
    BY <1>0, <2>2 DEF KeyerType
  <2>. QED  BY <1>0, <2>1, <2>3 DEF Spent, Past, Resting, ReleaseEndsBurst
<1>10. CASE DecisionDue
  <2>1. UNCHANGED <<extra, history>> /\ keyer.pc \in {"Sounding", "Gap"} /\ keyer' = [keyer EXCEPT !.due = now]
    BY <1>10 DEF DecisionDue, BurstOnly
  <2>2. /\ keyer'.pc = keyer.pc /\ keyer'.heard = keyer.heard /\ keyer'.look = keyer.look /\ keyer'.due = now
        /\ keyer'.prevHeard = keyer.prevHeard /\ keyer'.prevLook = keyer.prevLook
    BY <1>0, <2>1 DEF KeyerType
  <2>. QED  BY <1>0, <2>1, <2>2 DEF Spent, Past, Resting, ReleaseEndsBurst
<1>11. CASE EndElement
  <2>1. /\ UNCHANGED <<extra, history>> /\ keyer.pc = "Sounding"
        /\ keyer' = [keyer EXCEPT !.pc = "Gap", !.prev = keyer.elt, !.prevLook = keyer.look, !.prevHeard = keyer.heard]
    BY <1>11 DEF EndElement, BurstOnly
  <2>2. /\ keyer'.pc = "Gap" /\ keyer'.due = keyer.due /\ keyer'.prevHeard = keyer.heard
        /\ keyer'.prevLook = keyer.look
    BY <1>0, <2>1 DEF KeyerType
  <2>. QED  BY <1>0, <2>1, <2>2 DEF Spent, Past, Resting, ReleaseEndsBurst
<1>12. CASE NextElement
  <2>1. PICK elt \in Levers : Decides(elt) /\ keyer' = [keyer EXCEPT !.pc = "Tone", !.elt = elt, !.due = 0]
    BY <1>12 DEF NextElement
  <2>2. extra # 2
    BY <2>1, NothingDecided
  <2>3. CountElement /\ keyer'.pc = "Tone"
    BY <1>0, <1>12, <2>1 DEF NextElement, KeyerType
  <2>4. extra' \in 0..2
    BY <1>0, <2>2, <2>3 DEF CountElement
  <2>. QED  BY <2>3, <2>4 DEF Spent, Resting, ReleaseEndsBurst
<1>13. CASE EndBurst
  <2>1. UNCHANGED <<extra, history>> /\ keyer.pc = "Gap" /\ keyer' = Pass(keyer.due)
    BY <1>13 DEF EndBurst, Decides, BurstOnly
  <2>2. keyer'.pc = "Top" /\ keyer'.endDue = keyer.due
    BY <2>1 DEF Pass
  <2>. QED  BY <1>0, <2>1, <2>2 DEF Spent, Past, Resting, ReleaseEndsBurst
<1>. QED
  BY <1>1, <1>2, <1>3, <1>5, <1>6, <1>7, <1>8, <1>9, <1>10, <1>11, <1>12, <1>13 DEF Next, Keyer, Device

\* A release ends the burst: with no edge after it at most one more element is begun.
THEOREM ReleaseEndsIt == Spec => []ReleaseEndsBurst
<1>1. ASSUME Init PROVE BurstKnown
  <2>1. history = {} /\ extra = 0 /\ first.at = 0 /\ keyer.pc = "Top"
    BY <1>1, PassRests DEF Init, Pass
  <2>. QED
    BY <2>1 DEF BurstKnown, Past, FirstKnown, LeversUp, ElementKnown, Spent, ReleaseEndsBurst
<1>2. ASSUME TypeOK, BurstKnown, [Next]_vars PROVE BurstKnown'
  <2>1. CASE Next
    BY <1>2, <2>1, RecordKept, ElementKept, SpentKept DEF BurstKnown
  <2>2. CASE UNCHANGED vars
    <3>1. UNCHANGED <<now, history, first, extra, keyer>>
      BY <2>2 DEF vars, keyerVars
    <3>2. Past(now)' /\ FirstKnown' /\ LeversUp' /\ ElementKnown'
      BY <1>2, <3>1 DEF BurstKnown, Past, FirstKnown, LeversUp, LetGoAt, ElementKnown
    <3>3. Spent' /\ ReleaseEndsBurst'
      BY <1>2, <3>1 DEF BurstKnown, Past, Spent, ReleaseEndsBurst
    <3>. QED  BY <3>1, <3>2, <3>3 DEF BurstKnown
  <2>. QED  BY <1>2, <2>1, <2>2
<1>3. BurstKnown => ReleaseEndsBurst
  BY DEF BurstKnown
<1>. QED  BY <1>1, <1>2, <1>3, TypeCorrect, PTL DEF Spec

\* The paddles' monitor is muted with no restore armed only while a burst goes on, the end of which arms it.
MonitorKnown ==
  ~Straight /\ monitor.muted /\ ~monitor.armed => keyer.pc \in {"Tone", "Heard", "Reread", "Sounding", "Gap"}

LEMMA MonitorKept ==
  ASSUME TypeOK, MonitorKnown, Next
  PROVE  MonitorKnown'
<1>0. keyer \in KeyerType /\ monitor \in [muted : BOOLEAN, armed : BOOLEAN]
  BY DEF TypeOK, RadioOK
<1>1. UNCHANGED mode
  BY DEF Next, Keyer, Main, Device, ReleaseStraightKey, ReleasePaddles, Drained, KeyStraightDown, KeyStraightUp,
     KeyReleased, BeginBurst, PopClose, Exit, RestoreMonitor, NothingQueued, NothingLost, NotYetReconciled, Reconcile,
     Wake, TimeOut, FirstElement, NoFirstElement, Hear, ReadDue, Reread, DecisionDue, EndElement, NextElement,
     EndBurst, KeyerOnly, BurstOnly, BeginFirstElement, Inhibit, Permit, Escape, Close, PushRelease, PostClose,
     MainOnly, Edge, StraightEdge, PaddleEdge
<1>2. ASSUME UNCHANGED monitor, keyer'.pc = keyer.pc \/ keyer.pc \notin {"Tone", "Heard", "Reread", "Sounding", "Gap"}
                                   \/ keyer'.pc \in {"Tone", "Heard", "Reread", "Sounding", "Gap"}
      PROVE  MonitorKnown'
  BY <1>1, <1>2 DEF MonitorKnown, Straight
<1>3. CASE Main \/ Device
  BY <1>2, <1>3 DEF Main, Inhibit, Permit, Escape, Close, PushRelease, PostClose, MainOnly, Device, Edge,
     StraightEdge, PaddleEdge, keyerVars
<1>4. CASE ReleaseStraightKey \/ ReleasePaddles
  <2>1. UNCHANGED monitor /\ keyer' = [keyer EXCEPT !.released = (keyer.pc = "Top")]
    BY <1>4 DEF ReleaseStraightKey, ReleasePaddles
  <2>2. keyer'.pc = keyer.pc
    BY <1>0, <2>1 DEF KeyerType
  <2>. QED  BY <1>2, <2>1, <2>2
<1>5. CASE \/ Drained \/ KeyReleased \/ BeginBurst \/ PopClose \/ Exit \/ NothingQueued \/ NothingLost
           \/ NotYetReconciled \/ Wake \/ TimeOut \/ NoFirstElement
  BY <1>2, <1>5 DEF Drained, KeyReleased, BeginBurst, PopClose, Exit, NothingQueued, NothingLost, NotYetReconciled,
     Wake, TimeOut, NoFirstElement, Pops
<1>6. CASE KeyStraightDown \/ KeyStraightUp
  BY <1>1, <1>6 DEF KeyStraightDown, KeyStraightUp, MonitorKnown, Straight
<1>7. CASE Reconcile
  <2>1. UNCHANGED monitor \/ ArmRestore
    BY <1>7 DEF Reconcile
  <2>2. ArmRestore => monitor'.armed
    BY <1>0 DEF ArmRestore
  <2>3. keyer.pc \notin {"Tone", "Heard", "Reread", "Sounding", "Gap"}
    BY <1>7 DEF Reconcile
  <2>. QED  BY <1>2, <2>1, <2>2, <2>3 DEF MonitorKnown
<1>8. CASE RestoreMonitor
  BY <1>8 DEF RestoreMonitor, MonitorKnown
<1>9. CASE FirstElement
  <2>1. \E elt, start : keyer' = [keyer EXCEPT !.pc = "Heard", !.elt = elt, !.look = start, !.heard = start, !.endDue = 0]
    BY <1>9 DEF FirstElement, BeginFirstElement
  <2>. QED  BY <1>0, <2>1 DEF KeyerType, MonitorKnown
<1>10. CASE \/ Hear \/ ReadDue \/ DecisionDue \/ EndElement \/ NextElement
  <2>1. keyer'.pc \in {"Tone", "Heard", "Reread", "Sounding", "Gap"}
    BY <1>0, <1>10 DEF Hear, ReadDue, DecisionDue, EndElement, NextElement, KeyerType
  <2>. QED  BY <2>1 DEF MonitorKnown
<1>11. CASE Reread
  <2>1. \E elt : keyer' = [keyer EXCEPT !.pc = "Sounding", !.due = 0, !.elt = elt]
    BY <1>11 DEF Reread
  <2>. QED  BY <1>0, <2>1 DEF KeyerType, MonitorKnown
<1>12. CASE EndBurst
  <2>1. monitor'.armed
    BY <1>0, <1>12 DEF EndBurst, ArmRestore
  <2>. QED  BY <2>1 DEF MonitorKnown
<1>. QED
  BY <1>3, <1>4, <1>5, <1>6, <1>7, <1>8, <1>9, <1>10, <1>11, <1>12 DEF Next, Keyer

\* A K4 whose monitor was muted for the paddles is to get it back.
THEOREM MonitorIsRestored == Spec => []MonitorComesBack
<1>1. Init => MonitorKnown
  BY DEF Init, MonitorKnown
<1>2. ASSUME TypeOK, MonitorKnown, [Next]_vars PROVE MonitorKnown'
  <2>1. CASE UNCHANGED vars
    BY <1>2, <2>1 DEF vars, keyerVars, MonitorKnown, Straight
  <2>. QED  BY <1>2, <2>1, MonitorKept
<1>3. MonitorKnown => MonitorComesBack
  BY DEF MonitorKnown, MonitorComesBack, Settled
<1>. QED  BY <1>1, <1>2, <1>3, TypeCorrect, PTL DEF Spec

=============================================================================

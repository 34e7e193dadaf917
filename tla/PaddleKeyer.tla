---------------------------- MODULE PaddleKeyer -----------------------------
(***************************************************************************)
(* The paddle and straight-key keyer of hardware/paddlekeyer.cpp, between  *)
(* the paddle and the frames the radio is keyed with:                      *)
(*   - the device thread captures an edge: paddleEvent();                  *)
(*   - the keyer thread decides and is the only one to send: run();        *)
(*   - the main thread asks: setInhibited(), releasePaddles(), close().    *)
(* KZD and KZU carry lengths; here they are what they do, key down and key *)
(* up, and an element's length is the time the keyer stays in it.          *)
(*                                                                         *)
(* Times are only ever compared, so `now' counts the edges and releases    *)
(* stamped so far: an instant before the next one and after the last one   *)
(* has the last one's number.  Fault_... are seeded faults: what the       *)
(* definition of that name would be with a plausible bug.                  *)
(***************************************************************************)
EXTENDS Naturals, Sequences

CONSTANTS Straddles,  \* TRUE: a call that releases may run whole between the device's check of the
                      \* inhibit and its reading of the clock
          QueueSize,  \* the room in m_events
          MaxEdges,   \* bound: edges of the paddles, in each mode
          MaxOrders   \* bound: calls of the main thread that release, in each mode

Iambic == {"PlainIambic", "IambicA", "IambicB"}
Modes == Iambic \cup {"Ultimatic", "Straight"}

ASSUME PaddleAssumption ==
  /\ Straddles \in BOOLEAN
  /\ QueueSize \in Nat \ {0}
  /\ {MaxEdges, MaxOrders} \subseteq [Modes -> Nat]

VARIABLES
  now,        \* the number of stamps taken
  mode,       \* m_mode, or "Straight" where m_straightKeying is set
  held,       \* the levers the operator holds
  edges,      \* history: edges made
  device,     \* the device thread: the edge it holds m_firstElementMutex for, or NoEdge
  key,        \* m_straightKeyDown and m_straightKeyDownAt
  first,      \* m_firstElementScheduled, at = 0 if none
  history,    \* m_history, from which m_stamps is read too
  events, lost,         \* m_events, m_eventsLost
  releases, closeAsked, \* m_releases, m_requests
  woken,      \* a post to m_wake that no wait has used
  main,       \* where the main thread is
  orders,     \* history: calls made
  inhibited, closed,
  keyer,      \* the keyer thread: where it is and what it decided
  k4Keyed,    \* m_k4Keyed
  air,        \* the radio: keyed by the frames sent so far
  monitor,    \* m_monitorMuted, m_monitorRestoreDue
  extra       \* history: 0, or 1 and the elements begun since a release left every lever up

deviceVars == <<held, edges, device>>
mainVars == <<main, orders, inhibited, closed>>
queueVars == <<events, lost, releases, closeAsked, woken>>
keyerVars == <<keyer, k4Keyed, air, monitor>>
vars == <<now, mode, deviceVars, key, first, history, queueVars, mainVars, keyerVars, extra>>

Levers == {"Dit", "Dah"}
Edges == {"DitDown", "DitUp", "DahDown", "DahUp"}
NoEdge == "None"
NoElement == "None"

LeverOf(edge) == IF edge \in {"DitDown", "DitUp"} THEN "Dit" ELSE "Dah"
IsDown(edge) == edge \in {"DitDown", "DahDown"}
Straight == mode = "Straight"
InBurst == keyer.pc \in {"First", "Tone", "Heard", "Reread", "Sounding", "Gap"}

\* A pass of the keyer's loop begins; endDue is m_burstEndDue, 0 if there is none.
Pass(endDue) ==
  [pc |-> "Top", released |-> FALSE, timedOut |-> FALSE, elt |-> NoElement, look |-> 0, heard |-> 0,
   prev |-> NoElement, prevLook |-> 0, prevHeard |-> 0, due |-> 0, endDue |-> endDue]

Init ==
  /\ mode \in Modes
  /\ now = 0 /\ held = {} /\ edges = 0 /\ device = NoEdge
  /\ key = [down |-> FALSE, at |-> 0]
  /\ first = [at |-> 0, elt |-> NoElement]
  /\ history = {}
  /\ events = <<>> /\ lost = FALSE /\ releases = <<>> /\ closeAsked = FALSE /\ woken = FALSE
  /\ main = "Idle" /\ orders = 0 /\ inhibited = FALSE /\ closed = FALSE
  /\ keyer = Pass(0)
  /\ k4Keyed = FALSE /\ air = "Up"
  /\ monitor = [muted |-> FALSE, armed |-> FALSE]
  /\ extra = 0

-----------------------------------------------------------------------------
(* The device thread. *)

\* An edge pushed though the queue is full.
Fault_PushEvent(event) ==
  events' = Append(events, event) /\ woken' = TRUE /\ UNCHANGED lost

\* pushEvent(): one post per push; an event the queue has no room for is only remembered as lost.
PushEvent(event) ==
  IF Len(events) < QueueSize
  THEN events' = Append(events, event) /\ woken' = TRUE /\ UNCHANGED lost
  ELSE lost' = TRUE /\ UNCHANGED <<events, woken>>

\* An edge: paddleEvent() takes the lock, and drops it where nothing may be keyed.  A straight key
\* has one lever.
Edge(edge) ==
  LET lever == LeverOf(edge) IN
  /\ edges < MaxEdges[mode] /\ device = NoEdge
  /\ IsDown(edge) <=> lever \notin held
  /\ Straight => lever = "Dit"
  /\ edges' = edges + 1
  /\ held' = IF IsDown(edge) THEN held \cup {lever} ELSE held \ {lever}
  /\ device' = IF inhibited \/ closed THEN NoEdge ELSE edge
  /\ UNCHANGED <<now, mode, key, first, history, queueVars, mainVars, keyerVars, extra>>

\* The rest of paddleEvent(), up to the queue, for a straight key: its stamps are in paddle time and
\* no decision reads them.
StraightEdge ==
  /\ device # NoEdge /\ Straight
  /\ IF IsDown(device) THEN now' = now + 1 /\ key' = [down |-> TRUE, at |-> now + 1]
                       ELSE key' = [key EXCEPT !.down = FALSE] /\ UNCHANGED now
  /\ PushEvent(device)
  /\ device' = NoEdge
  /\ UNCHANGED <<mode, held, edges, first, history, releases, closeAsked, mainVars, keyerVars, extra>>

\* The same for paddles: a press outside a burst schedules the first element's sidetone, which the
\* scheduler may refuse.
PaddleEdge ==
  /\ device # NoEdge /\ ~Straight
  /\ now' = now + 1
  /\ history' = history \cup {[at |-> now + 1, edge |-> device]}
  /\ \/ UNCHANGED first
     \/ /\ IsDown(device) /\ ~closed /\ ~InBurst /\ first.at = 0
        /\ first' = [at |-> now + 1, elt |-> LeverOf(device)]
  /\ extra' = IF IsDown(device) \/ extra = 0 THEN 0 ELSE 1
  /\ PushEvent(device)
  /\ device' = NoEdge
  /\ UNCHANGED <<mode, held, edges, key, releases, closeAsked, mainVars, keyerVars>>

-----------------------------------------------------------------------------
(* The main thread. *)

MainOnly == UNCHANGED <<mode, deviceVars, key, first, history, events, lost, keyerVars, extra>>
OrderTo(next) == main = "Idle" /\ orders < MaxOrders[mode] /\ orders' = orders + 1 /\ main' = next

\* setInhibited(true), as far as the exchange.
Inhibit ==
  /\ ~inhibited
  /\ OrderTo("Release")
  /\ inhibited' = TRUE
  /\ UNCHANGED <<now, releases, closeAsked, woken, closed>> /\ MainOnly

\* setInhibited(false)
Permit ==
  /\ inhibited /\ main = "Idle"
  /\ inhibited' = FALSE
  /\ UNCHANGED <<now, releases, closeAsked, woken, main, orders, closed>> /\ MainOnly

\* releasePaddles(): Esc, a lost device, a reversal of the levers.
Escape ==
  /\ OrderTo("Release")
  /\ UNCHANGED <<now, releases, closeAsked, woken, inhibited, closed>> /\ MainOnly

\* close(), as far as m_closed.
Close ==
  /\ OrderTo("ReleaseAndClose")
  /\ closed' = TRUE
  /\ UNCHANGED <<now, releases, closeAsked, woken, inhibited>> /\ MainOnly

\* releasePaddles() from the clock to the post.  It does not take the device's lock.
PushRelease ==
  /\ main \in {"Release", "ReleaseAndClose"}
  /\ Straddles \/ device = NoEdge
  /\ now' = now + 1
  /\ releases' = Append(releases, now + 1)
  /\ woken' = TRUE
  /\ main' = IF main = "Release" THEN "Idle" ELSE "PostClose"
  /\ UNCHANGED <<closeAsked, orders, inhibited, closed>> /\ MainOnly

\* A request that wakes nobody.
Fault_PostClose ==
  /\ main = "PostClose"
  /\ closeAsked' = TRUE
  /\ main' = "Joining"
  /\ UNCHANGED <<now, releases, woken, orders, inhibited, closed>> /\ MainOnly

\* close() posts its request; the owner then joins the keyer thread.
PostClose ==
  /\ main = "PostClose"
  /\ closeAsked' = TRUE /\ woken' = TRUE
  /\ main' = "Joining"
  /\ UNCHANGED <<now, releases, orders, inhibited, closed>> /\ MainOnly

-----------------------------------------------------------------------------
(* The keyer thread: what it reads and what it sends. *)

\* m_stamps and the history as of a time: the last edge of that kind, 0 if there is none.
Stamp(edge, asOf) ==
  LET at == {h.at : h \in {x \in history : x.edge = edge /\ x.at <= asOf}} IN
  IF at = {} THEN 0 ELSE CHOOSE t \in at : \A u \in at : u <= t

\* sendIambic() and sendUltimatic(): the element wanted as of a time.  memory: a dit let go of was
\* held for longer than the dit memory's delay.
Choose(prev, look, heard, asOf, memory) ==
  LET ditDown == Stamp("DitDown", asOf)
      ditUp == Stamp("DitUp", asOf)
      dahDown == Stamp("DahDown", asOf)
      dahUp == Stamp("DahUp", asOf)
      ditHeld == ditDown > ditUp
      dahHeld == dahDown > dahUp
      dit == \/ ditHeld
             \/ /\ prev = "Dah" /\ mode \in {"IambicA", "IambicB"} /\ ditDown > heard
             \/ /\ prev = "Dah" /\ mode = "IambicB" /\ memory
                /\ (ditDown > look /\ ditUp > look) \/ (~dahHeld /\ ditUp > heard)
      dah == \/ dahHeld
             \/ /\ prev = "Dit" /\ mode = "IambicB"
                /\ (dahDown > look /\ dahUp > look) \/ (~ditHeld /\ dahUp > heard)
  IN IF dit /\ dah THEN IF mode = "Ultimatic" THEN IF dahDown > ditDown THEN "Dah" ELSE "Dit"
                        ELSE IF prev = NoElement THEN IF dahDown < ditDown THEN "Dah" ELSE "Dit"
                        ELSE IF prev = "Dit" THEN "Dah" ELSE "Dit"
     ELSE IF dit THEN "Dit" ELSE IF dah THEN "Dah" ELSE NoElement

\* missedFirstElement(): the first press since the last burst was found over.
Missed(endDue) ==
  LET presses == {h \in history : IsDown(h.edge) /\ h.at > endDue} IN
  IF endDue = 0 \/ presses = {} THEN NoElement
  ELSE LeverOf((CHOOSE h \in presses : \A x \in presses : h.at <= x.at).edge)

\* muteSidetoneMonitor(), delayedUnmuteSidetoneMonitor()
Mute == monitor' = [muted |-> TRUE, armed |-> FALSE]
ArmRestore == monitor' = [monitor EXCEPT !.armed = TRUE]

\* A frame sent: the radio is keyed or not; "Twice" where it is told what it was told already.
SendKzd == air' = IF air = "Up" THEN "Down" ELSE "Twice"
SendKzu == air' = IF air = "Down" THEN "Up" ELSE "Twice"

KeyerOnly == UNCHANGED <<now, mode, deviceVars, mainVars>>
QueuesKept == UNCHANGED queueVars
GoTo(pc) == keyer' = [keyer EXCEPT !.pc = pc]

\* m_firstElementMutex
LockFree == device = NoEdge

-----------------------------------------------------------------------------
(* The keyer thread: processNextEvent(). *)

\* Where applyPendingReleases() is called: before each pass, before each reading of the paddles, and
\* before the keyer ends.
AppliesReleases == keyer.pc \in {"Top", "First", "Reread", "Gap", "Closing"}

Releasing(at) ==
  /\ AppliesReleases /\ LockFree /\ releases # <<>>
  /\ at = Head(releases) /\ releases' = Tail(releases)

\* applyRelease() for a straight key: a key pressed after the release was asked for stays; one pressed
\* before is let go, and its KZU queued behind what is queued.
ReleaseStraightKey ==
  \E at \in 1..now :
    /\ Straight /\ Releasing(at)
    /\ IF key.down /\ key.at <= at
       THEN key' = [key EXCEPT !.down = FALSE] /\ PushEvent("Release")
       ELSE UNCHANGED <<key, events, lost, woken>>
    /\ keyer' = [keyer EXCEPT !.released = (keyer.pc = "Top")]
    /\ UNCHANGED <<first, history, closeAsked, k4Keyed, air, monitor, extra>> /\ KeyerOnly

\* A release that ends only the lever the element was begun with.
Fault_ReleasePaddles ==
  \E at \in 1..now :
    /\ ~Straight /\ Releasing(at)
    /\ first' = IF first.at # 0 /\ first.at <= at THEN [at |-> 0, elt |-> NoElement] ELSE first
    /\ history' = history \cup {[at |-> at, edge |-> "DitUp"]}
    /\ extra' = IF \E h \in history : IsDown(h.edge) /\ h.at > at THEN 0 ELSE 1
    /\ keyer' = [keyer EXCEPT !.released = (keyer.pc = "Top")]
    /\ UNCHANGED <<key, events, lost, closeAsked, woken, k4Keyed, air, monitor>> /\ KeyerOnly

\* applyRelease() for paddles: they read as let go from the time the release was asked for.
ReleasePaddles ==
  \E at \in 1..now :
    /\ ~Straight /\ Releasing(at)
    /\ first' = IF first.at # 0 /\ first.at <= at THEN [at |-> 0, elt |-> NoElement] ELSE first
    /\ history' = history \cup {[at |-> at, edge |-> e] : e \in {"DitUp", "DahUp"}}
    /\ extra' = IF \E h \in history : IsDown(h.edge) /\ h.at > at THEN 0 ELSE 1
    /\ keyer' = [keyer EXCEPT !.released = (keyer.pc = "Top")]
    /\ UNCHANGED <<key, events, lost, closeAsked, woken, k4Keyed, air, monitor>> /\ KeyerOnly

\* The releases asked for are applied.
Drained ==
  /\ keyer.pc = "Top" /\ releases = <<>>
  /\ GoTo("Pop")
  /\ UNCHANGED <<key, first, history, queueVars, k4Keyed, air, monitor, extra>> /\ KeyerOnly

\* A new call of processNextEvent().
NextPass == keyer' = Pass(keyer.endDue)

Pops(event) ==
  /\ keyer.pc = "Pop" /\ events # <<>>
  /\ event = Head(events) /\ events' = Tail(events)
  /\ UNCHANGED <<lost, releases, closeAsked, woken>>

\* straightKeyUpOnAir(), endStraightKeyOnAir(): the KZU, if the radio is keyed.
KeyUpOnAir == k4Keyed' = FALSE /\ IF k4Keyed THEN SendKzu ELSE UNCHANGED air

\* A press keyed without looking whether the radio is keyed still.
Fault_KeyStraightDown ==
  /\ Straight /\ Pops("DitDown")
  /\ k4Keyed' = TRUE
  /\ SendKzd /\ Mute
  /\ NextPass
  /\ UNCHANGED <<key, first, history, extra>> /\ KeyerOnly

\* sendStraightKey(): two presses with no key-up between them are that key-up lost to a full queue.
\* In one step KZU and KZD leave the radio keyed.
KeyStraightDown ==
  /\ Straight /\ Pops("DitDown")
  /\ k4Keyed' = TRUE
  /\ IF k4Keyed THEN UNCHANGED air ELSE SendKzd
  /\ Mute
  /\ NextPass
  /\ UNCHANGED <<key, first, history, extra>> /\ KeyerOnly

KeyStraightUp ==
  /\ Straight /\ Pops("DitUp")
  /\ KeyUpOnAir
  /\ IF k4Keyed THEN ArmRestore ELSE UNCHANGED monitor
  /\ NextPass
  /\ UNCHANGED <<key, first, history, extra>> /\ KeyerOnly

KeyReleased ==
  /\ Pops("Release")
  /\ KeyUpOnAir /\ UNCHANGED monitor
  /\ NextPass
  /\ UNCHANGED <<key, first, history, extra>> /\ KeyerOnly

\* A burst that calls off the restore before it knows that it sends anything.
Fault_BeginBurst ==
  /\ ~Straight
  /\ \E edge \in Edges : Pops(edge)
  /\ keyer' = [Pass(keyer.endDue) EXCEPT !.pc = "First"]
  /\ monitor' = [monitor EXCEPT !.armed = FALSE]
  /\ UNCHANGED <<key, first, history, k4Keyed, air, extra>> /\ KeyerOnly

\* An edge of the paddles only says that it is time to read them.
BeginBurst ==
  /\ ~Straight
  /\ \E edge \in Edges : Pops(edge)
  /\ keyer' = [Pass(keyer.endDue) EXCEPT !.pc = "First"]
  /\ UNCHANGED <<key, first, history, k4Keyed, air, monitor, extra>> /\ KeyerOnly

\* Nothing is queued but the request to close.
PopClose ==
  /\ keyer.pc = "Pop" /\ events = <<>> /\ closeAsked
  /\ closeAsked' = FALSE
  /\ GoTo("Closing")
  /\ UNCHANGED <<key, first, history, events, lost, releases, woken, k4Keyed, air, monitor, extra>>
  /\ KeyerOnly

\* What the last releases queued goes out first; whatever happened, the radio is not left keyed.
Exit ==
  /\ keyer.pc = "Closing" /\ releases = <<>>
  /\ events' = <<>>
  /\ KeyUpOnAir
  /\ GoTo("Exited")
  /\ UNCHANGED <<key, first, history, lost, releases, closeAsked, woken, monitor, extra>> /\ KeyerOnly

\* Nothing is queued, and the monitor's restore may be due; it is where the wait for it has ended.
RestoreMonitor ==
  /\ keyer.pc = "Pop" /\ events = <<>> /\ ~closeAsked /\ monitor.armed
  /\ monitor' = [muted |-> FALSE, armed |-> FALSE]
  /\ NextPass
  /\ UNCHANGED <<key, first, history, k4Keyed, air, extra>> /\ QueuesKept /\ KeyerOnly

NothingQueued ==
  /\ keyer.pc = "Pop" /\ events = <<>> /\ ~closeAsked
  /\ ~(monitor.armed /\ keyer.timedOut)
  /\ IF keyer.released THEN NextPass ELSE GoTo("Reconcile")
  /\ UNCHANGED <<key, first, history, k4Keyed, air, monitor, extra>> /\ QueuesKept /\ KeyerOnly

\* Lost edges not looked for.
Fault_NothingLost ==
  /\ keyer.pc = "Reconcile"
  /\ IF events = <<>> THEN GoTo("Wait") ELSE GoTo("Top")
  /\ UNCHANGED <<key, first, history, k4Keyed, air, monitor, extra>> /\ QueuesKept /\ KeyerOnly

\* reconcileLostEdges(): after an edge was lost the key itself is read, once nothing is queued.
NothingLost ==
  /\ keyer.pc = "Reconcile" /\ ~lost
  /\ IF events = <<>> THEN GoTo("Wait") ELSE GoTo("Top")
  /\ UNCHANGED <<key, first, history, k4Keyed, air, monitor, extra>> /\ QueuesKept /\ KeyerOnly

NotYetReconciled ==
  /\ keyer.pc = "Reconcile" /\ lost /\ LockFree /\ events # <<>>
  /\ GoTo("Top")
  /\ UNCHANGED <<key, first, history, k4Keyed, air, monitor, extra>> /\ QueuesKept /\ KeyerOnly

Reconcile ==
  /\ keyer.pc = "Reconcile" /\ lost /\ LockFree /\ events = <<>>
  /\ lost' = FALSE
  /\ IF k4Keyed /\ ~key.down THEN KeyUpOnAir /\ ArmRestore ELSE UNCHANGED <<k4Keyed, air, monitor>>
  /\ GoTo("Wait")
  /\ UNCHANGED <<key, first, history, events, releases, closeAsked, woken, extra>> /\ KeyerOnly

Wake ==
  /\ keyer.pc = "Wait" /\ woken
  /\ woken' = FALSE
  /\ keyer' = [keyer EXCEPT !.pc = "Top"]
  /\ UNCHANGED <<key, first, history, events, lost, releases, closeAsked, k4Keyed, air, monitor, extra>>
  /\ KeyerOnly

\* The wait for the restore's time.
TimeOut ==
  /\ keyer.pc = "Wait" /\ monitor.armed
  /\ keyer' = [keyer EXCEPT !.pc = "Top", !.timedOut = TRUE]
  /\ UNCHANGED <<key, first, history, k4Keyed, air, monitor, extra>> /\ QueuesKept /\ KeyerOnly

-----------------------------------------------------------------------------
(* The keyer thread: sendBurst(). *)

BurstOnly == UNCHANGED <<key, history, queueVars, k4Keyed>> /\ KeyerOnly

CountElement == extra' = IF extra \in {0, 4} THEN extra ELSE extra + 1

\* startElement() of a burst's first element, whose sidetone may be on its way since the press.
BeginFirstElement(elt, start) ==
  /\ first' = [at |-> 0, elt |-> NoElement]
  /\ keyer' = [keyer EXCEPT !.pc = "Heard", !.elt = elt, !.look = start, !.heard = start, !.endDue = 0]
  /\ SendKzd /\ Mute /\ CountElement
  /\ BurstOnly

\* The first element: what the paddles say, or else one whose sidetone can no longer be cancelled, or
\* else a press the last burst's end overlooked.
FirstElement ==
  /\ keyer.pc = "First" /\ releases = <<>> /\ LockFree
  /\ LET elt == Choose(NoElement, 0, 0, now, FALSE)
         start == IF first.at # 0 THEN first.at ELSE now
     IN \/ elt # NoElement /\ BeginFirstElement(elt, start)
        \/ elt = NoElement /\ first.at # 0 /\ BeginFirstElement(first.elt, first.at)
        \/ /\ elt = NoElement /\ Missed(keyer.endDue) # NoElement
           /\ BeginFirstElement(Missed(keyer.endDue), now)

\* Nothing to send: a sidetone scheduled is cancelled.
NoFirstElement ==
  /\ keyer.pc = "First" /\ releases = <<>> /\ LockFree
  /\ Choose(NoElement, 0, 0, now, FALSE) = NoElement
  /\ Missed(keyer.endDue) = NoElement
  /\ first' = [at |-> 0, elt |-> NoElement]
  /\ NextPass
  /\ UNCHANGED <<air, monitor, extra>> /\ BurstOnly

\* waitUntilSidetoneHeard(): a later element is heard some time after its key down.
Hear ==
  /\ keyer.pc = "Tone"
  /\ keyer' = [keyer EXCEPT !.pc = "Heard", !.heard = now]
  /\ UNCHANGED <<first, air, monitor, extra>> /\ BurstOnly

\* ... and then the time at which the paddles are read again is waited for.
ReadDue ==
  /\ keyer.pc = "Heard"
  /\ keyer' = [keyer EXCEPT !.pc = "Reread", !.due = now,
                            !.look = IF keyer.prev = NoElement THEN keyer.look ELSE now]
  /\ UNCHANGED <<first, air, monitor, extra>> /\ BurstOnly

\* The paddles as of that time may call for the other element.
Reread ==
  /\ keyer.pc = "Reread" /\ releases = <<>>
  /\ \E memory \in BOOLEAN :
       LET again == Choose(keyer.prev, keyer.prevLook, keyer.prevHeard, keyer.due, memory) IN
       keyer' = [keyer EXCEPT !.pc = "Sounding", !.due = 0,
                              !.elt = IF again = NoElement THEN keyer.elt ELSE again]
  /\ UNCHANGED <<first, air, monitor, extra>> /\ BurstOnly

\* confirmElement(): the time the next element is decided at, before or after this one's key up.
DecisionDue ==
  /\ keyer.pc \in {"Sounding", "Gap"} /\ keyer.due = 0
  /\ keyer' = [keyer EXCEPT !.due = now]
  /\ UNCHANGED <<first, air, monitor, extra>> /\ BurstOnly

\* endElement()
EndElement ==
  /\ keyer.pc = "Sounding"
  /\ SendKzu
  /\ keyer' = [keyer EXCEPT !.pc = "Gap", !.prev = keyer.elt, !.prevLook = keyer.look, !.prevHeard = keyer.heard]
  /\ UNCHANGED <<first, monitor, extra>> /\ BurstOnly

Decides(elt) ==
  /\ keyer.pc = "Gap" /\ keyer.due # 0 /\ releases = <<>>
  /\ \E memory \in BOOLEAN :
       elt = Choose(keyer.prev, keyer.prevLook, keyer.prevHeard, keyer.due, memory)

NextElement ==
  /\ \E elt \in Levers :
       /\ Decides(elt)
       /\ keyer' = [keyer EXCEPT !.pc = "Tone", !.elt = elt, !.due = 0]
  /\ SendKzd /\ CountElement
  /\ UNCHANGED <<first, monitor>> /\ BurstOnly

EndBurst ==
  /\ Decides(NoElement)
  /\ keyer' = Pass(keyer.due)
  /\ ArmRestore
  /\ UNCHANGED <<first, air, extra>> /\ BurstOnly

-----------------------------------------------------------------------------
Keyer ==
  \/ ReleaseStraightKey \/ ReleasePaddles \/ Drained
  \/ KeyStraightDown \/ KeyStraightUp \/ KeyReleased \/ BeginBurst
  \/ PopClose \/ Exit \/ RestoreMonitor \/ NothingQueued
  \/ NothingLost \/ NotYetReconciled \/ Reconcile \/ Wake \/ TimeOut
  \/ FirstElement \/ NoFirstElement \/ Hear \/ ReadDue \/ Reread
  \/ DecisionDue \/ EndElement \/ NextElement \/ EndBurst

Main == Inhibit \/ Permit \/ Escape \/ Close \/ PushRelease \/ PostClose

Device == (\E edge \in Edges : Edge(edge)) \/ StraightEdge \/ PaddleEdge

Next == Keyer \/ Main \/ Device

Spec == Init /\ [][Next]_vars

\* The threads run; the operator need not press, release or close anything.
FairSpec ==
  /\ Spec
  /\ WF_vars(Keyer)
  /\ WF_vars(PushRelease \/ PostClose)
  /\ WF_vars(StraightEdge \/ PaddleEdge)

-----------------------------------------------------------------------------
KeyerType ==
  [pc : {"Top", "Pop", "Reconcile", "Wait", "Closing", "Exited", "First", "Tone", "Heard", "Reread", "Sounding", "Gap"},
   released : BOOLEAN, timedOut : BOOLEAN, elt : Levers \cup {NoElement}, look : Nat, heard : Nat,
   prev : Levers \cup {NoElement}, prevLook : Nat, prevHeard : Nat, due : Nat, endDue : Nat]

QueuesOK ==
  /\ events \in Seq(Edges \cup {"Release"}) /\ Len(events) <= QueueSize
  /\ releases \in Seq(Nat)
  /\ lost \in BOOLEAN /\ closeAsked \in BOOLEAN /\ woken \in BOOLEAN

DeviceOK ==
  /\ now \in Nat /\ edges \in Nat /\ mode \in Modes
  /\ held \subseteq Levers /\ device \in Edges \cup {NoEdge}
  /\ key \in [down : BOOLEAN, at : Nat]
  /\ first \in [at : Nat, elt : Levers \cup {NoElement}]
  /\ history \subseteq [at : Nat, edge : Edges]
  /\ extra \in 0..4

MainOK ==
  /\ main \in {"Idle", "Release", "ReleaseAndClose", "PostClose", "Joining"}
  /\ orders \in Nat /\ inhibited \in BOOLEAN /\ closed \in BOOLEAN

RadioOK ==
  /\ k4Keyed \in BOOLEAN /\ air \in {"Up", "Down", "Twice"}
  /\ monitor \in [muted : BOOLEAN, armed : BOOLEAN]

TypeOK == DeviceOK /\ QueuesOK /\ MainOK /\ RadioOK /\ keyer \in KeyerType

\* The keyer waits with no post to wake it, and no other thread is inside one of its calls.
Settled == keyer.pc = "Wait" /\ ~woken /\ device = NoEdge /\ main = "Idle"

\* The radio is never left keyed: a keyer that sleeps has read every edge and every release, and leaves
\* the radio keyed only for a straight key that is held and may key; a keyer that ended, never.  An
\* edge lost to a full queue does not change that.
NeverLeftKeyed ==
  /\ Settled => events = <<>> /\ releases = <<>>
  /\ Settled /\ air = "Down" => key.down /\ "Dit" \in held /\ ~inhibited
  /\ keyer.pc = "Exited" => air = "Up"

\* The radio never sees two KZDs in a row, nor two KZUs (sendStraightKey()), and is keyed exactly while
\* the keyer is in an element or has a straight key down.
AirAlternates ==
  /\ air # "Twice"
  /\ air = "Down" <=> k4Keyed \/ keyer.pc \in {"Tone", "Heard", "Reread", "Sounding"}

\* A release ends the burst (paddlekeyer.h): with no edge after it at most one more element is begun,
\* the one decided as of a time before it or owed to the memories.
ReleaseEndsBurst == extra <= 2

\* A K4 whose monitor was muted for the paddles' keying is to get it back.
MonitorComesBack == Settled /\ ~Straight /\ monitor.muted => monitor.armed

\* What must not key stops keying: for good while inhibited, and a keyer asked to close ends, or
\* the thread that joins it would wait for ever.
KeyingEnds ==
  /\ <>[]inhibited => <>[](air = "Up")
  /\ closed ~> (keyer.pc = "Exited")
=============================================================================

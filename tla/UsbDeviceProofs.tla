-------------------------- MODULE UsbDeviceProofs --------------------------
(***************************************************************************)
(* Safety of UsbDevice for every choice of its constants: the EP02 reader  *)
(* transfers only on the open handle, the KPOD+ and QK4's keyer do not key *)
(* together, and an open device has its reader on it.                      *)
(***************************************************************************)
EXTENDS UsbDevice, SequenceTheorems, TLAPS

-----------------------------------------------------------------------------
(* The calls queued to the USB thread. *)

Calls == {"Open", "Close", "Lost"}

HasClose(s) == \E i \in 1 .. Len(s) : s[i] = "Close"

HasEnd(s) == \E i \in 1 .. Len(s) : s[i] \in {"Close", "Lost"}

\* Whatever is opened is closed behind it.
Undone(s) == \A i \in 1 .. Len(s) : s[i] = "Open" => \E j \in i .. Len(s) : s[j] = "Close"

LEMMA TailKeeps ==
  ASSUME NEW s \in Seq(Calls), s # <<>>
  PROVE  /\ Head(s) \in Calls /\ Tail(s) \in Seq(Calls)
         /\ HasClose(s) /\ Head(s) # "Close" => HasClose(Tail(s))
         /\ HasEnd(s) /\ Head(s) \notin {"Close", "Lost"} => HasEnd(Tail(s))
         /\ Undone(s) => Undone(Tail(s))
         /\ Undone(s) /\ Head(s) = "Open" => HasClose(Tail(s))
<1>1. /\ Len(s) \in Nat \ {0} /\ Head(s) = s[1]
      /\ Tail(s) \in Seq(Calls) /\ Len(Tail(s)) = Len(s) - 1
      /\ \A i \in 1 .. Len(s) - 1 : Tail(s)[i] = s[i + 1]
      /\ \A i \in 1 .. Len(s) : s[i] \in Calls
  OBVIOUS
<1>2. ASSUME NEW k \in 1 .. Len(s), k # 1
      PROVE  k - 1 \in 1 .. Len(Tail(s)) /\ Tail(s)[k - 1] = s[k]
  <2>1. k - 1 \in 1 .. Len(s) - 1 /\ (k - 1) + 1 = k
    BY <1>1, <1>2
  <2>. QED  BY <1>1, <2>1
<1>3. HasClose(s) /\ Head(s) # "Close" => HasClose(Tail(s))
  BY <1>1, <1>2 DEF HasClose
<1>4. HasEnd(s) /\ Head(s) \notin {"Close", "Lost"} => HasEnd(Tail(s))
  BY <1>1, <1>2 DEF HasEnd
<1>5. ASSUME Undone(s), NEW i \in 1 .. Len(Tail(s)), Tail(s)[i] = "Open"
      PROVE  \E j \in i .. Len(Tail(s)) : Tail(s)[j] = "Close"
  <2>1. i + 1 \in 1 .. Len(s) /\ s[i + 1] = "Open"
    BY <1>1, <1>5
  <2>2. PICK j \in i + 1 .. Len(s) : s[j] = "Close"
    BY <1>5, <2>1 DEF Undone
  <2>3. j - 1 \in i .. Len(Tail(s)) /\ Tail(s)[j - 1] = "Close"
    BY <1>1, <2>2
  <2>. QED  BY <2>3
<1>6. ASSUME Undone(s), Head(s) = "Open" PROVE HasClose(Tail(s))
  <2>1. PICK j \in 1 .. Len(s) : s[j] = "Close"
    BY <1>1, <1>6 DEF Undone
  <2>. QED  BY <1>1, <1>2, <1>6, <2>1 DEF HasClose
<1>. QED  BY <1>1, <1>3, <1>4, <1>5, <1>6 DEF Undone

LEMMA AppendKeeps ==
  ASSUME NEW s \in Seq(Calls), NEW c \in Calls
  PROVE  /\ Append(s, c) \in Seq(Calls)
         /\ HasClose(s) => HasClose(Append(s, c))
         /\ HasEnd(s) => HasEnd(Append(s, c))
         /\ Undone(s) /\ c # "Open" => Undone(Append(s, c))
         /\ c = "Close" => HasClose(Append(s, c)) /\ Undone(Append(s, c))
         /\ c # "Open" => HasEnd(Append(s, c))
<1>. DEFINE t == Append(s, c)
<1>1. /\ Len(s) \in Nat /\ t \in Seq(Calls) /\ Len(t) = Len(s) + 1 /\ t[Len(s) + 1] = c
      /\ \A i \in 1 .. Len(s) : t[i] = s[i]
  BY AppendProperties
<1>. HIDE DEF t
<1>2. HasClose(s) => HasClose(t)
  BY <1>1 DEF HasClose
<1>3. HasEnd(s) => HasEnd(t)
  BY <1>1 DEF HasEnd
<1>4. ASSUME Undone(s), c # "Open", NEW i \in 1 .. Len(t), t[i] = "Open"
      PROVE  \E j \in i .. Len(t) : t[j] = "Close"
  <2>1. i \in 1 .. Len(s) /\ s[i] = "Open"
    BY <1>1, <1>4
  <2>2. PICK j \in i .. Len(s) : s[j] = "Close"
    BY <1>4, <2>1 DEF Undone
  <2>. QED  BY <1>1, <2>1, <2>2
<1>5. c = "Close" => HasClose(t) /\ Undone(t)
  BY <1>1 DEF HasClose, Undone
<1>6. c # "Open" => HasEnd(t)
  BY <1>1 DEF HasEnd, Calls
<1>. QED  BY <1>1, <1>2, <1>3, <1>4, <1>5, <1>6 DEF t, Undone

-----------------------------------------------------------------------------
(* The inductive invariant. *)

\* The reader has the open handle or none, and none while it is being released.
ReaderHandle ==
  /\ ep02.handle \in {0, worker.handle}
  /\ worker.pc = "Releasing" => ep02.handle = 0

Live == worker.pc = "Idle" /\ worker.handle # 0

\* With the gate down whatever is open, or will be opened by a call already queued, is closed again.
\* KeyingIsGated says it only of what is open, and the call that opens it would break it.
ClosedAgain == ~gate => Undone(toWorker) /\ (Live => HasClose(toWorker))

\* A reader that has no handle of an open device, or is about to forget it, has told the USB thread,
\* or that thread closes the device anyway.
TeardownDue == ~SlowReader /\ Live /\ (ep02.handle = 0 \/ ep02.pc = "Clear") => HasEnd(toWorker)

IInv == TypeOK /\ ReaderHandle /\ HandleIsLive /\ ClosedAgain /\ TeardownDue

-----------------------------------------------------------------------------
(* The steps.  Each lemma is about the part of the invariant its name tells. *)

LEMMA InitIInv == Init => IInv
<1>. SUFFICES ASSUME Init PROVE IInv
  OBVIOUS
<1>1. toMain \in Seq({Arrived, Removed} \cup {Info(b) : b \in BOOLEAN})
  <2>1. PICK b \in BOOLEAN : toMain = <<Info(b)>>
    BY DEF Init
  <2>. QED  BY <2>1
<1>2. toWorker \in Seq({"Open", "Close", "Lost"}) /\ Len(toWorker) = 0
  BY DEF Init
<1>3. TypeOK
  <2>1. PICK b \in {0, 1} : /\ bus = [now |-> b, last |-> b]
                            /\ worker = [pc |-> "Idle", at |-> b, handle |-> 0, on |-> 0, opened |-> 0]
    BY DEF Init
  <2>2. b \in Nat /\ b <= b /\ 0 <= b
    OBVIOUS
  <2>3. bus \in [now : Nat, last : Nat] /\ bus.now \in {0, bus.last}
    BY <2>1, <2>2
  <2>4. /\ worker \in [pc : {"Idle", "Releasing"}, at : Nat, handle : Nat, on : Nat, opened : Nat]
        /\ worker.at <= bus.last /\ worker.on <= bus.last
        /\ worker.handle \in {0, worker.opened} /\ worker.pc # "Releasing"
    BY <2>1, <2>2
  <2>5. policy \in [present : BOOLEAN, open : BOOLEAN, enabled : BOOLEAN]
    BY DEF Init
  <2>6. ep02 \in [pc : {"Look", "Lock", "Transfer", "Tell", "Clear"}, handle : Nat, h : Nat]
    BY DEF Init
  <2>. QED  BY <1>1, <1>2, <2>3, <2>4, <2>5, <2>6 DEF Init, TypeOK
<1>. QED  BY <1>2, <1>3 DEF Init, IInv, ReaderHandle, HandleIsLive, ClosedAgain, Live, TeardownDue, Undone

Signals == {Arrived, Removed} \cup {Info(b) : b \in BOOLEAN}

Workers == [pc : {"Idle", "Releasing"}, at : Nat, handle : Nat, on : Nat, opened : Nat]

Readers == [pc : {"Look", "Lock", "Transfer", "Tell", "Clear"}, handle : Nat, h : Nat]

Policies == [present : BOOLEAN, open : BOOLEAN, enabled : BOOLEAN]

\* What a caller of apply() is told to do, whatever the event.
Decisions == {d \in [s : Policies, open : BOOLEAN, close : BOOLEAN] : ~(d.open /\ d.close)}

LEMMA ApplyDecides ==
  ASSUME NEW s \in Policies
  PROVE  {Detected(s), Lost(s), Opened(s), Enabled(s), Disabled(s)} \subseteq Decisions
<1>1. ASSUME NEW t \in Policies, NEW o \in BOOLEAN, NEW c \in BOOLEAN, ~(o /\ c)
      PROVE  Decision(t, o, c) \in Decisions
  BY <1>1 DEF Decision, Decisions
<1>2. /\ s.present \in BOOLEAN /\ s.open \in BOOLEAN /\ s.enabled \in BOOLEAN
      /\ \A o, p, e \in BOOLEAN : [present |-> p, open |-> o, enabled |-> e] \in Policies
      /\ s = [present |-> s.present, open |-> s.open, enabled |-> s.enabled]
  BY DEF Policies
<1>3. /\ [s EXCEPT !.present = TRUE] \in Policies
      /\ [s EXCEPT !.present = FALSE, !.open = FALSE] \in Policies
      /\ [s EXCEPT !.open = TRUE] \in Policies
      /\ [s EXCEPT !.enabled = TRUE] \in Policies
      /\ [s EXCEPT !.enabled = FALSE, !.open = FALSE] \in Policies
  BY DEF Policies
<1>4. Detected(s) \in Decisions
  BY <1>1, <1>2, <1>3 DEF Detected, Nothing
<1>5. Lost(s) \in Decisions
  BY <1>1, <1>2, <1>3 DEF Lost
<1>6. Opened(s) \in Decisions
  BY <1>1, <1>3 DEF Opened, Nothing
<1>7. Enabled(s) \in Decisions
  BY <1>1, <1>2, <1>3 DEF Enabled, Nothing
<1>8. Disabled(s) \in Decisions
  BY <1>1, <1>2, <1>3 DEF Disabled, Nothing
<1>. QED  BY <1>4, <1>5, <1>6, <1>7, <1>8

\* A decision carried out leaves the invariant alone: the gate goes down only with a Close queued, and
\* an Open is queued only with the gate up.
LEMMA ApplyKeeps ==
  ASSUME IInv, NEW d \in Decisions, NEW p \in BOOLEAN, ApplyKpodPlus(d, p), polling' \in BOOLEAN,
         toMain' \in Seq({Arrived, Removed} \cup {Info(b) : b \in BOOLEAN}), toggles' \in Nat,
         UNCHANGED <<worker, ep02, bus, glitches>>
  PROVE  IInv'
<1>. DEFINE opens == IF d.open /\ ~p THEN Append(toWorker, "Open") ELSE toWorker
<1>1. toWorker \in Seq(Calls) /\ d \in [s : Policies, open : BOOLEAN, close : BOOLEAN] /\ ~(d.open /\ d.close)
  BY DEF IInv, TypeOK, Calls, Decisions
<1>2. toWorker' = IF d.close THEN Append(toWorker, "Close") ELSE opens
  <2>1. \A c \in Calls : toWorker \o <<c>> = Append(toWorker, c)
    BY <1>1 DEF Calls
  <2>2. toWorker \o <<>> = toWorker /\ Append(toWorker, "Open") \o <<>> = Append(toWorker, "Open")
    BY <1>1, AppendKeeps DEF Calls
  <2>. QED  BY <1>1, <2>1, <2>2 DEF ApplyKpodPlus, Calls
<1>3. /\ toWorker' \in Seq(Calls)
      /\ HasEnd(toWorker) => HasEnd(toWorker')
      /\ HasClose(toWorker) => HasClose(toWorker')
  BY <1>1, <1>2, AppendKeeps DEF Calls
<1>4. policy' \in Policies /\ gate' \in BOOLEAN
  BY <1>1 DEF ApplyKpodPlus, IInv, TypeOK, Policies
<1>5. TypeOK'
  BY <1>3, <1>4 DEF IInv, TypeOK, Calls, Policies
<1>6. ClosedAgain'
  <2>1. CASE d.close
    BY <1>1, <1>2, <2>1, AppendKeeps DEF ClosedAgain, Calls
  <2>2. CASE ~d.close /\ ~d.open
    BY <1>1, <1>2, <2>2 DEF ApplyKpodPlus, IInv, ClosedAgain, Live, TypeOK
  <2>3. CASE ~d.close /\ d.open
    BY <2>3 DEF ApplyKpodPlus, ClosedAgain
  <2>. QED  BY <1>1, <2>1, <2>2, <2>3
<1>7. TeardownDue'
  BY <1>3 DEF IInv, TeardownDue, Live
<1>. QED  BY <1>5, <1>6, <1>7 DEF IInv, ReaderHandle, HandleIsLive

LEMMA MainKeeps ==
  ASSUME IInv, MainStep \/ Toggle
  PROVE  IInv'
<1>0. policy \in Policies /\ polling \in BOOLEAN /\ toMain \in Seq(Signals) /\ toggles \in Nat
  BY DEF IInv, TypeOK, Policies, Signals
<1>1. ASSUME NEW k, Hears(k) PROVE toMain' \in Seq(Signals)
  BY <1>0, <1>1 DEF Hears
<1>2. CASE HearInfo
  <2>1. toMain' \in Seq(Signals)
    BY <1>1, <1>2 DEF HearInfo
  <2>2. PICK d \in Decisions : ApplyKpodPlus(d, polling)
    BY <1>0, <1>2, ApplyDecides DEF HearInfo
  <2>. QED  BY <1>0, <1>2, <2>1, <2>2, ApplyKeeps DEF HearInfo, MainOnly, Signals
<1>3. CASE HearArrived
  <2>1. toMain' \in Seq(Signals)
    BY <1>1, <1>3 DEF HearArrived
  <2>2. Opened(policy) \in Decisions
    BY <1>0, ApplyDecides
  <2>. QED  BY <1>0, <1>3, <2>1, <2>2, ApplyKeeps DEF HearArrived, MainOnly, Signals
<1>4. CASE HearRemoved
  <2>1. toMain' \in Seq(Signals)
    BY <1>1, <1>4 DEF HearRemoved
  <2>2. polling' = FALSE /\ UNCHANGED <<policy, gate, toWorker, toggles, worker, ep02, bus, glitches>>
    BY <1>4 DEF HearRemoved, MainOnly
  <2>3. TypeOK'
    BY <2>1, <2>2 DEF Signals, IInv, TypeOK
  <2>. QED  BY <2>2, <2>3 DEF IInv, ReaderHandle, HandleIsLive, ClosedAgain, TeardownDue, Live
<1>5. CASE Toggle
  <2>1. PICK d \in Decisions : ApplyKpodPlus(d, polling)
    BY <1>0, <1>5, ApplyDecides DEF Toggle
  <2>. QED  BY <1>0, <1>5, <2>1, ApplyKeeps DEF Toggle, MainOnly, Signals
<1>. QED  BY <1>2, <1>3, <1>4, <1>5 DEF MainStep

LEMMA TwoMore ==
  ASSUME NEW S, NEW q \in Seq(S), NEW a \in S, NEW b \in S
  PROVE  q \o <<a, b>> \in Seq(S)
<1>1. <<a, b>> \in Seq(S)
  OBVIOUS
<1>. QED  BY <1>1, ConcatProperties

LEMMA WorkerKeeps ==
  ASSUME IInv, WorkerStep
  PROVE  IInv'
<1>1. /\ toWorker \in Seq(Calls) /\ toMain \in Seq(Signals)
      /\ \A b \in BOOLEAN : Append(toMain, Info(b)) \in Seq(Signals)
      /\ Append(toMain, Removed) \in Seq(Signals)
      /\ toMain \o <<Info(TRUE), Arrived>> \in Seq(Signals)
  <2>1. /\ toWorker \in Seq(Calls) /\ toMain \in Seq(Signals)
        /\ Arrived \in Signals /\ Removed \in Signals /\ \A b \in BOOLEAN : Info(b) \in Signals
    BY DEF IInv, TypeOK, Calls, Signals
  <2>2. toMain \o <<Info(TRUE), Arrived>> \in Seq(Signals)
    BY <2>1, TwoMore
  <2>3. \A x \in Signals : Append(toMain, x) \in Seq(Signals)
    BY <2>1
  <2>. QED  BY <2>1, <2>2, <2>3
<1>0. worker \in Workers /\ ep02 \in Readers /\ bus.now \in Nat /\ bus.last \in Nat
  BY DEF IInv, TypeOK, Workers, Readers
<1>2. ASSUME NEW c, Called(c), toWorker' = Tail(toWorker)
      PROVE  /\ toWorker' \in Seq(Calls)
             /\ c \notin {"Close", "Lost"} => (HasEnd(toWorker) => HasEnd(toWorker'))
             /\ c # "Close" => (HasClose(toWorker) => HasClose(toWorker'))
             /\ Undone(toWorker) => Undone(toWorker')
             /\ Undone(toWorker) /\ c = "Open" => HasClose(toWorker')
  BY <1>1, <1>2, TailKeeps DEF Called
<1>3. ASSUME NEW q \in Seq(Calls)
      PROVE  /\ Append(q, "Close") \in Seq(Calls)
             /\ HasClose(Append(q, "Close")) /\ Undone(Append(q, "Close")) /\ HasEnd(Append(q, "Close"))
  BY <1>3, AppendKeeps DEF Calls
<1>4. CASE OpenDevice
  <2>. USE <1>4
  <2>1. toWorker' \in Seq(Calls) /\ toMain' \in Seq(Signals)
    BY <1>1, <1>2 DEF OpenDevice
  <2>2. CASE UNCHANGED <<worker, ep02, toMain>>
    <3>1. UNCHANGED <<worker, ep02, toMain, glitches, policy, polling, gate, bus, toggles>>
      BY <2>2 DEF OpenDevice, WorkerOnly, mainVars
    <3>2. /\ Undone(toWorker) => Undone(toWorker')
          /\ HasClose(toWorker) => HasClose(toWorker')
          /\ HasEnd(toWorker) => HasEnd(toWorker')
      BY <1>2 DEF OpenDevice
    <3>3. TypeOK'
      BY <2>1, <3>1 DEF IInv, TypeOK, Calls
    <3>. QED  BY <3>1, <3>2, <3>3 DEF IInv, ReaderHandle, HandleIsLive, ClosedAgain, TeardownDue, Live
  <2>3. CASE ~UNCHANGED <<worker, ep02, toMain>>
    <3>1. /\ worker.handle = 0 /\ worker.pc = "Idle"
          /\ worker' = [worker EXCEPT !.handle = worker.opened + 1, !.on = worker.at, !.opened = worker.opened + 1]
          /\ ep02' = [ep02 EXCEPT !.handle = worker.opened + 1]
      BY <2>3 DEF OpenDevice, OpenSucceeds, SetDeviceHandle, Called
    <3>6. /\ worker' \in Workers /\ worker'.at = worker.at /\ worker'.on = worker.at /\ worker'.pc = worker.pc
          /\ worker'.handle = worker'.opened /\ ep02' \in Readers
      <4>1. worker.opened \in Nat /\ worker.opened + 1 \in Nat /\ worker.at \in Nat
        BY <1>0 DEF Workers
      <4>2. /\ worker' \in Workers /\ worker'.at = worker.at /\ worker'.on = worker.at
            /\ worker'.pc = worker.pc /\ worker'.handle = worker'.opened
        BY <1>0, <3>1, <4>1 DEF Workers
      <4>3. ep02' \in Readers
        BY <1>0, <3>1, <4>1 DEF Readers
      <4>. QED  BY <4>2, <4>3
    <3>2. TypeOK'
      BY <2>1, <3>1, <3>6 DEF Workers, Readers, OpenDevice, WorkerOnly, mainVars, IInv, TypeOK, Calls, Signals
    <3>3. ReaderHandle' /\ HandleIsLive'
      BY <3>1 DEF IInv, TypeOK, ReaderHandle, HandleIsLive
    <3>4. ClosedAgain'
      BY <1>2 DEF OpenDevice, WorkerOnly, mainVars, IInv, ClosedAgain, Live
    <3>5. TeardownDue'
      BY <3>1 DEF OpenDevice, IInv, TypeOK, TeardownDue
    <3>. QED  BY <3>2, <3>3, <3>4, <3>5 DEF IInv
  <2>. QED  BY <2>2, <2>3
<1>5. ASSUME NEW w, w \in {worker, Forgotten}, CloseDevice(w)
      PROVE  /\ worker' \in Workers /\ ep02' \in Readers
             /\ worker'.at <= bus.last /\ worker'.on <= bus.last
             /\ worker'.handle = worker.handle /\ worker'.handle \in {0, worker'.opened}
             /\ worker'.pc = "Releasing" => worker'.handle # 0
             /\ ReaderHandle' /\ HandleIsLive' /\ ~Live'
  <2>1. /\ w \in Workers /\ w.at <= bus.last /\ w.on = worker.on /\ w.handle = worker.handle
        /\ w.opened = worker.opened /\ w.pc = worker.pc
    BY <1>0, <1>5 DEF Forgotten, Workers, IInv, TypeOK
  <2>2. CASE worker.handle = 0
    BY <1>0, <1>5, <2>1, <2>2 DEF CloseDevice, IInv, TypeOK, ReaderHandle, HandleIsLive, Live
  <2>3. CASE worker.handle # 0
    <3>1. worker' = [w EXCEPT !.pc = "Releasing"] /\ ep02' = [ep02 EXCEPT !.handle = 0]
      BY <1>5, <2>1, <2>3 DEF CloseDevice, SetDeviceHandle
    <3>2. /\ worker' \in Workers /\ worker'.at = w.at /\ worker'.on = w.on /\ worker'.handle = w.handle
          /\ worker'.opened = w.opened /\ worker'.pc = "Releasing"
          /\ ep02' \in Readers /\ ep02'.handle = 0 /\ ep02'.pc = ep02.pc /\ ep02'.h = ep02.h
      BY <1>0, <2>1, <3>1 DEF Workers, Readers
    <3>. QED  BY <2>1, <2>3, <3>2 DEF IInv, TypeOK, ReaderHandle, HandleIsLive, Live
  <2>. QED  BY <2>2, <2>3
<1>6. CASE CloseCalled
  <2>1. CloseDevice(worker) /\ toWorker' \in Seq(Calls) /\ (Undone(toWorker) => Undone(toWorker'))
    BY <1>2, <1>6 DEF CloseCalled
  <2>. QED  BY <1>5, <1>6, <2>1 DEF CloseCalled, WorkerOnly, mainVars, IInv, TypeOK, Workers, Readers, ClosedAgain, TeardownDue, Calls
<1>7. CASE ReleaseHandle
  <2>1. worker' = [worker EXCEPT !.pc = "Idle", !.handle = 0] /\ worker.pc = "Releasing" /\ ep02.pc # "Transfer"
    BY <1>7 DEF ReleaseHandle
  <2>2. TypeOK'
    <3>1. /\ worker' \in Workers /\ worker'.at = worker.at /\ worker'.on = worker.on
          /\ worker'.handle = 0 /\ worker'.pc = "Idle"
      BY <1>0, <2>1 DEF Workers
    <3>. QED  BY <1>1, <1>7, <3>1 DEF ReleaseHandle, WorkerOnly, mainVars, IInv, TypeOK, Workers, Signals
  <2>3. ReaderHandle' /\ HandleIsLive' /\ ~Live'
    BY <1>7, <2>1 DEF ReleaseHandle, IInv, TypeOK, ReaderHandle, HandleIsLive, Live
  <2>. QED  BY <1>7, <2>2, <2>3 DEF ReleaseHandle, WorkerOnly, mainVars, IInv, ClosedAgain, TeardownDue
<1>8. ASSUME NEW calls \in Seq(Calls), worker.handle # 0 \/ worker.at # 0, HandleLostDevice(calls), UNCHANGED <<ep02, mainVars, bus, toggles>>,
             glitches' \in Nat, worker.pc = "Idle"
      PROVE  IInv'
  <2>1. /\ worker' = Forgotten /\ toMain' = Append(toMain, Info(FALSE)) /\ toWorker' = Append(calls, "Close")
    BY <1>8 DEF HandleLostDevice
  <2>2. /\ worker' \in Workers /\ worker'.at <= bus.last /\ worker'.on = worker.on /\ worker'.handle = worker.handle
        /\ worker'.opened = worker.opened /\ worker'.pc = worker.pc
    <3>1. worker' = [worker EXCEPT !.at = 0]
      BY <2>1 DEF Forgotten
    <3>2. /\ worker' \in Workers /\ worker'.at = 0 /\ worker'.on = worker.on
          /\ worker'.handle = worker.handle /\ worker'.opened = worker.opened /\ worker'.pc = worker.pc
      BY <1>0, <3>1 DEF Workers
    <3>. QED  BY <1>0, <3>2
  <2>3. TypeOK'
    BY <1>1, <1>3, <1>8, <2>1, <2>2 DEF mainVars, IInv, TypeOK, Workers, Calls, Signals
  <2>4. ReaderHandle' /\ HandleIsLive'
    BY <1>8, <2>2 DEF IInv, ReaderHandle, HandleIsLive
  <2>. QED  BY <1>3, <1>8, <2>1, <2>3, <2>4 DEF IInv, ClosedAgain, TeardownDue
<1>9. CASE TransferError
  <2>1. worker.pc = "Idle" /\ Tail(toWorker) \in Seq(Calls)
        /\ (Undone(toWorker) => Undone(Tail(toWorker)))
    BY <1>1, <1>9, TailKeeps DEF TransferError, Called
  <2>2. CASE worker.at = 0 /\ worker.handle = 0
    BY <1>9, <2>1, <2>2 DEF TransferError, HandleLostDevice, WorkerOnly, mainVars, IInv, TypeOK, ReaderHandle,
       HandleIsLive, ClosedAgain, TeardownDue, Live, Calls
  <2>3. CASE worker.handle # 0 \/ worker.at # 0
    BY <1>8, <1>9, <2>1, <2>3 DEF TransferError, WorkerOnly, mainVars, IInv, TypeOK
  <2>. QED  BY <2>2, <2>3
<1>10. CASE PollFails
  <2>1. glitches' \in Nat
    BY <1>10 DEF PollFails, Fails, IInv, TypeOK
  <2>. QED  BY <1>1, <1>8, <1>10, <2>1 DEF PollFails, WorkerOnly, mainVars
<1>11. CASE PresenceArrival
  <2>1. worker' = [worker EXCEPT !.at = bus.now] /\ toMain' = Append(toMain, Info(TRUE))
        /\ UNCHANGED <<toWorker, ep02, glitches, policy, polling, gate, bus, toggles>>
    BY <1>11 DEF PresenceArrival, WorkerOnly, mainVars
  <2>2. TypeOK'
    <3>1. /\ worker' \in Workers /\ worker'.at = bus.now /\ worker'.on = worker.on
          /\ worker'.handle = worker.handle /\ worker'.opened = worker.opened /\ worker'.pc = worker.pc
      BY <1>0, <2>1 DEF Workers
    <3>2. bus.now <= bus.last
      BY <1>0 DEF IInv, TypeOK
    <3>. QED  BY <1>1, <2>1, <3>1, <3>2 DEF IInv, TypeOK, Workers, Signals
  <2>. QED  BY <1>0, <2>1, <2>2 DEF Workers, IInv, TypeOK, ReaderHandle, HandleIsLive, ClosedAgain, TeardownDue, Live
<1>12. CASE PresenceLoss
  <2>1. CloseDevice(Forgotten) /\ toMain' \in Seq(Signals)
    BY <1>1, <1>12 DEF PresenceLoss
  <2>. QED  BY <1>5, <1>12, <2>1 DEF PresenceLoss, WorkerOnly, mainVars, IInv, TypeOK, Workers, Readers, ClosedAgain, TeardownDue,
       Signals
<1>. QED  BY <1>4, <1>6, <1>7, <1>9, <1>10, <1>11, <1>12 DEF WorkerStep

LEMMA Ep02Keeps ==
  ASSUME IInv, Ep02Step
  PROVE  IInv'
<1>1. toWorker \in Seq(Calls) /\ UNCHANGED <<policy, polling, gate, toMain, worker, bus, toggles>>
  BY DEF IInv, TypeOK, Calls, Ep02Step, Look, Lock, TransferEnds, TransferFails, Tell, Clear, Ep02Only, mainVars
<1>2. CASE Tell
  <2>1. toWorker' = Append(toWorker, "Lost") /\ ep02' = [ep02 EXCEPT !.pc = "Clear"]
    BY <1>2 DEF Tell, Goes
  <2>2. /\ toWorker' \in Seq(Calls) /\ HasEnd(toWorker')
        /\ Undone(toWorker) => Undone(toWorker')
        /\ HasClose(toWorker) => HasClose(toWorker')
    BY <1>1, <2>1, AppendKeeps DEF Calls
  <2>. QED  BY <1>1, <1>2, <2>1, <2>2 DEF Tell, IInv, TypeOK, ReaderHandle, HandleIsLive, ClosedAgain, TeardownDue,
       Live, Calls
<1>3. CASE ~Tell
  <2>1. toWorker' = toWorker /\ glitches' \in Nat
    BY <1>3 DEF Ep02Step, Look, Lock, TransferEnds, TransferFails, Clear, Fails, IInv, TypeOK
  <2>2. TypeOK'
    <3>1. ep02 \in Readers
      BY DEF IInv, TypeOK, Readers
    <3>2. ep02' \in Readers
      <4>2. /\ ep02.pc \in {"Look", "Lock", "Transfer", "Tell", "Clear"} /\ ep02.handle \in Nat /\ ep02.h \in Nat
            /\ ep02 = [pc |-> ep02.pc, handle |-> ep02.handle, h |-> ep02.h]
        BY <3>1 DEF Readers
      <4>3. CASE Look
        BY <3>1, <4>2, <4>3 DEF Look, Readers
      <4>4. CASE Lock
        BY <3>1, <4>2, <4>4 DEF Lock, Readers
      <4>5. CASE TransferEnds \/ TransferFails
        BY <3>1, <4>5 DEF TransferEnds, TransferFails, Goes, Readers
      <4>6. CASE Clear
        BY <3>1, <4>6 DEF Clear, Readers
      <4>. QED  BY <1>3, <4>3, <4>4, <4>5, <4>6 DEF Ep02Step
    <3>. QED  BY <1>1, <2>1, <3>2 DEF IInv, TypeOK, Readers
  <2>3. ReaderHandle' /\ HandleIsLive'
    BY <1>1, <1>3 DEF Ep02Step, Look, Lock, TransferEnds, TransferFails, Clear, Goes, IInv, TypeOK, ReaderHandle,
       HandleIsLive
  <2>4. ep02'.handle = 0 \/ ep02'.pc = "Clear" => ep02.handle = 0 \/ ep02.pc = "Clear"
    BY <1>3 DEF Ep02Step, Look, Lock, TransferEnds, TransferFails, Clear, Goes, IInv, TypeOK
  <2>. QED  BY <1>1, <2>1, <2>2, <2>3, <2>4 DEF IInv, ClosedAgain, TeardownDue, Live
<1>. QED  BY <1>2, <1>3

LEMMA StepIInv == IInv /\ [Next]_vars => IInv'
<1>. SUFFICES ASSUME IInv, [Next]_vars PROVE IInv'
  OBVIOUS
<1>1. CASE UNCHANGED vars
  BY <1>1 DEF vars, mainVars, IInv, TypeOK, ReaderHandle, HandleIsLive, ClosedAgain, TeardownDue, Live
<1>2. CASE Unplug \/ Plug
  <2>1. UNCHANGED <<policy, polling, gate, toWorker, toMain, worker, ep02, toggles, glitches>>
    BY <1>2 DEF Unplug, Plug, CableOnly, mainVars
  <2>2. bus' \in [now : Nat, last : Nat] /\ bus'.now \in {0, bus'.last} /\ bus.last <= bus'.last
    BY <1>2 DEF Unplug, Plug, IInv, TypeOK
  <2>. QED  BY <2>1, <2>2 DEF IInv, TypeOK, ReaderHandle, HandleIsLive, ClosedAgain, TeardownDue, Live
<1>. QED  BY <1>1, <1>2, MainKeeps, WorkerKeeps, Ep02Keeps DEF Next

LEMMA IInvHolds == Spec => []IInv
  BY InitIInv, StepIInv, PTL DEF Spec

-----------------------------------------------------------------------------
\* The states stay what they are meant to be, and a release always has a handle to release.
THEOREM TypeCorrect == Spec => []TypeOK
<1>1. IInv => TypeOK
  BY DEF IInv
<1>. QED  BY <1>1, IInvHolds, PTL

\* kpodplusdevice.cpp, USB-010: the EP02 reader never transfers on a handle that has been closed, or
\* closed and opened again, since it looked.
THEOREM LiveHandle == Spec => []HandleIsLive
<1>1. IInv => HandleIsLive
  BY DEF IInv
<1>. QED  BY <1>1, IInvHolds, PTL

\* applyKpodPlus(): the KPOD+ and QK4's own keyer key the radio together only until a close already
\* asked for is carried out, for any number of openings, unpluggings and failed transfers.
THEOREM GatedKeying == Spec => []KeyingIsGated
<1>1. IInv => KeyingIsGated
  <2>1. TypeOK => DOMAIN toWorker = 1 .. Len(toWorker) /\ worker.pc \in {"Idle", "Releasing"}
    BY DEF TypeOK
  <2>. QED  BY <2>1 DEF IInv, KeyingIsGated, ClosedAgain, Live, HasClose
<1>. QED  BY <1>1, IInvHolds, PTL

\* run() tells of the error before it forgets the handle: if the EP02 thread is never stopped between
\* the two for a whole reopening, an open device has its reader on it once things have settled.
THEOREM ReaderNotDeaf ==
  ASSUME ~SlowReader
  PROVE  Spec => []NoDeafReader
<1>1. IInv => NoDeafReader
  <2>1. toWorker = <<>> => ~HasEnd(toWorker)
    BY DEF HasEnd
  <2>. QED  BY <2>1 DEF IInv, NoDeafReader, Settled, ReaderHandle, TeardownDue, Live
<1>. QED  BY <1>1, IInvHolds, PTL

-----------------------------------------------------------------------------
(* What the facade knows of the session, once it has heard all that was sent. *)

\* Whether the device is polled before and after a signal is heard: an arrival begins a session, a
\* removal ends one, and nothing else does either.
Heard(before, signal, after) ==
  /\ signal.kind = "Arrived" => before = 0 /\ after = 1
  /\ signal.kind = "Removed" => before = 1 /\ after = 0
  /\ signal.kind \notin {"Arrived", "Removed"} => after = before

\* Hearing the signals of q one by one takes the facade from one to the other, each time lawfully.
Takes(from, q, to) ==
  \E f \in [0 .. Len(q) -> {0, 1}] :
    /\ f[0] = from /\ f[Len(q)] = to
    /\ \A i \in 1 .. Len(q) : Heard(f[i - 1], q[i], f[i])

Bit(b) == IF b THEN 1 ELSE 0

\* Nothing less is inductive: a removal may be heard long after the next arrival was sent.
SessionsInOrder == Takes(Bit(polling), toMain, Bit(worker.handle # 0))

LEMMA TakesNothing == \A b \in {0, 1} : Takes(b, <<>>, b)
<1> SUFFICES ASSUME NEW b \in {0, 1} PROVE Takes(b, <<>>, b)
  OBVIOUS
<1> DEFINE f == [i \in 0 .. 0 |-> b]
<1>1. Len(<<>>) = 0 /\ 1 .. 0 = {}
  OBVIOUS
<1>2. f \in [0 .. 0 -> {0, 1}] /\ f[0] = b
  OBVIOUS
<1> HIDE DEF f
<1>3. QED
  BY <1>1, <1>2 DEF Takes

LEMMA HearsFirst ==
  ASSUME NEW S, NEW q \in Seq(S), q # <<>>, NEW from, NEW to, Takes(from, q, to)
  PROVE  \E mid \in {0, 1} : Heard(from, Head(q), mid) /\ Takes(mid, Tail(q), to)
<1>1. /\ Len(q) \in Nat \ {0} /\ Head(q) = q[1] /\ Tail(q) \in Seq(S) /\ Len(Tail(q)) = Len(q) - 1
      /\ \A i \in 1 .. Len(q) - 1 : Tail(q)[i] = q[i + 1]
  OBVIOUS
<1>2. PICK f \in [0 .. Len(q) -> {0, 1}] :
        /\ f[0] = from /\ f[Len(q)] = to
        /\ \A i \in 1 .. Len(q) : Heard(f[i - 1], q[i], f[i])
  BY DEF Takes
<1> DEFINE g == [i \in 0 .. Len(Tail(q)) |-> f[i + 1]]
<1>3. g \in [0 .. Len(Tail(q)) -> {0, 1}] /\ g[0] = f[1] /\ g[Len(Tail(q))] = to
  BY <1>1, <1>2
<1>4. ASSUME NEW i \in 1 .. Len(Tail(q))
      PROVE  Heard(g[i - 1], Tail(q)[i], g[i])
  <2>1. i + 1 \in 1 .. Len(q) /\ (i + 1) - 1 = i /\ Tail(q)[i] = q[i + 1] /\ g[i - 1] = f[i] /\ g[i] = f[i + 1]
    BY <1>1
  <2>2. QED
    BY <1>2, <2>1
<1>5. Takes(f[1], Tail(q), to)
  BY <1>3, <1>4 DEF Takes
<1>6. Heard(from, Head(q), f[1]) /\ f[1] \in {0, 1}
  <2>1. 1 \in 1 .. Len(q) /\ 1 - 1 = 0
    BY <1>1
  <2>2. QED
    BY <1>1, <1>2, <2>1
<1>7. QED
  BY <1>5, <1>6

LEMMA HearsLast ==
  ASSUME NEW S, NEW q \in Seq(S), NEW s \in S, NEW from, NEW mid \in {0, 1}, NEW to \in {0, 1},
         Takes(from, q, mid), Heard(mid, s, to)
  PROVE  Takes(from, Append(q, s), to)
<1> DEFINE t == Append(q, s)
<1>1. /\ Len(q) \in Nat /\ Len(t) = Len(q) + 1 /\ t[Len(q) + 1] = s
      /\ \A i \in 1 .. Len(q) : t[i] = q[i]
  BY AppendProperties
<1> HIDE DEF t
<1>2. PICK f \in [0 .. Len(q) -> {0, 1}] :
        /\ f[0] = from /\ f[Len(q)] = mid
        /\ \A i \in 1 .. Len(q) : Heard(f[i - 1], q[i], f[i])
  BY DEF Takes
<1> DEFINE g == [i \in 0 .. Len(t) |-> IF i \in 0 .. Len(q) THEN f[i] ELSE to]
<1>3. g \in [0 .. Len(t) -> {0, 1}] /\ g[0] = from /\ g[Len(t)] = to
  BY <1>1, <1>2
<1>4. ASSUME NEW i \in 1 .. Len(t)
      PROVE  Heard(g[i - 1], t[i], g[i])
  <2>1. CASE i \in 1 .. Len(q)
    <3>1. g[i - 1] = f[i - 1] /\ g[i] = f[i] /\ t[i] = q[i]
      BY <1>1, <2>1
    <3>2. QED
      BY <1>2, <2>1, <3>1
  <2>2. CASE i = Len(q) + 1
    <3>1. g[i - 1] = mid /\ g[i] = to /\ t[i] = s
      BY <1>1, <1>2, <2>2
    <3>2. QED
      BY <3>1
  <2>3. QED
    BY <1>1, <2>1, <2>2
<1>5. QED
  BY <1>3, <1>4 DEF Takes, t

LEMMA TwoMoreIsTwice ==
  ASSUME NEW S, NEW q \in Seq(S), NEW a \in S, NEW b \in S
  PROVE  q \o <<a, b>> = Append(Append(q, a), b)
OBVIOUS

LEMMA SignalKinds ==
  /\ Arrived \in Signals /\ Arrived.kind = "Arrived"
  /\ Removed \in Signals /\ Removed.kind = "Removed"
  /\ \A b \in BOOLEAN : Info(b) \in Signals /\ Info(b).kind = "Info"
BY DEF Signals, Arrived, Removed, Info

LEMMA InitInOrder == Init => SessionsInOrder
<1> SUFFICES ASSUME Init PROVE SessionsInOrder
  OBVIOUS
<1>1. PICK b \in BOOLEAN : toMain = <<Info(b)>>
  BY DEF Init
<1>2. toMain = Append(<<>>, Info(b)) /\ <<>> \in Seq(Signals) /\ Info(b) \in Signals
  BY <1>1, SignalKinds, EmptySeq
<1>3. Heard(0, Info(b), 0)
  BY SignalKinds DEF Heard
<1>4. Takes(0, toMain, 0)
  BY <1>2, <1>3, TakesNothing, HearsLast
<1>5. polling = FALSE /\ worker.handle = 0
  BY DEF Init
<1>6. QED
  BY <1>4, <1>5 DEF SessionsInOrder, Bit

\* A signal heard is the next one due: in particular a removal is heard only while polling.
LEMMA HearKeepsOrder ==
  ASSUME TypeOK, SessionsInOrder, MainStep
  PROVE  SessionsInOrder' /\ (HearRemoved => polling)
<1>1. toMain \in Seq(Signals) /\ toMain # <<>> /\ toMain' = Tail(toMain) /\ UNCHANGED worker
  BY DEF TypeOK, Signals, MainStep, HearInfo, HearArrived, HearRemoved, Hears, MainOnly
<1>2. PICK mid \in {0, 1} : /\ Heard(Bit(polling), Head(toMain), mid)
                           /\ Takes(mid, Tail(toMain), Bit(worker.handle # 0))
  BY <1>1, HearsFirst DEF SessionsInOrder
<1>3. CASE HearInfo
  <2>1. Head(toMain).kind = "Info" /\ polling' = polling
    BY <1>3 DEF HearInfo, Hears
  <2>2. mid = Bit(polling')
    BY <1>2, <2>1 DEF Heard
  <2>3. ~HearRemoved
    BY <2>1 DEF HearRemoved, Hears
  <2>4. QED
    BY <1>1, <1>2, <2>2, <2>3 DEF SessionsInOrder
<1>4. CASE HearArrived
  <2>1. Head(toMain).kind = "Arrived" /\ polling' = TRUE
    BY <1>4 DEF HearArrived, Hears
  <2>2. mid = Bit(polling')
    BY <1>2, <2>1 DEF Heard, Bit
  <2>3. ~HearRemoved
    BY <2>1 DEF HearRemoved, Hears
  <2>4. QED
    BY <1>1, <1>2, <2>2, <2>3 DEF SessionsInOrder
<1>5. CASE HearRemoved
  <2>1. Head(toMain).kind = "Removed" /\ polling' = FALSE
    BY <1>5 DEF HearRemoved, Hears
  <2>2. mid = Bit(polling') /\ polling
    BY <1>2, <2>1 DEF Heard, Bit
  <2>3. QED
    BY <1>1, <1>2, <2>2 DEF SessionsInOrder
<1>6. QED
  BY <1>3, <1>4, <1>5 DEF MainStep

LEMMA WorkerKeepsOrder ==
  ASSUME TypeOK, SessionsInOrder, WorkerStep
  PROVE  SessionsInOrder'
<1> DEFINE up == Bit(worker.handle # 0)
<1>1. /\ toMain \in Seq(Signals) /\ polling' = polling /\ worker \in Workers
      /\ Takes(Bit(polling), toMain, up) /\ up \in {0, 1}
  BY DEF TypeOK, Signals, Workers, SessionsInOrder, Bit, WorkerStep, OpenDevice, CloseCalled, ReleaseHandle,
         TransferError, PollFails, PresenceArrival, PresenceLoss, WorkerOnly, mainVars
<1>2. ASSUME NEW b \in BOOLEAN, toMain' = Append(toMain, Info(b)), worker'.handle = worker.handle
      PROVE  SessionsInOrder'
  <2>1. Heard(up, Info(b), up)
    BY SignalKinds DEF Heard
  <2>2. QED
    BY <1>1, <1>2, <2>1, HearsLast, SignalKinds DEF SessionsInOrder
<1>3. ASSUME toMain' = toMain, worker'.handle = worker.handle
      PROVE  SessionsInOrder'
  BY <1>1, <1>3 DEF SessionsInOrder
<1>4. ASSUME NEW w \in {worker, Forgotten}, CloseDevice(w)
      PROVE  worker'.handle = worker.handle
  BY <1>1, <1>4 DEF CloseDevice, Forgotten, Workers
<1>5. ASSUME NEW calls, HandleLostDevice(calls)
      PROVE  SessionsInOrder'
  <2>1. Forgotten.handle = worker.handle
    BY <1>1 DEF Forgotten, Workers
  <2>2. QED
    BY <1>2, <1>3, <1>5, <2>1 DEF HandleLostDevice
<1>6. CASE OpenDevice
  <2>1. CASE UNCHANGED <<worker, ep02, toMain>>
    BY <1>3, <2>1
  <2>2. CASE ~UNCHANGED <<worker, ep02, toMain>>
    <3>1. /\ worker.handle = 0
          /\ worker' = [worker EXCEPT !.handle = worker.opened + 1, !.on = worker.at, !.opened = worker.opened + 1]
          /\ toMain' = toMain \o <<Info(TRUE), Arrived>>
      BY <1>6, <2>2 DEF OpenDevice, OpenSucceeds
    <3>2. worker'.handle # 0
      BY <1>1, <3>1 DEF Workers
    <3>3. toMain' = Append(Append(toMain, Info(TRUE)), Arrived) /\ Append(toMain, Info(TRUE)) \in Seq(Signals)
      <4>1. Info(TRUE) \in Signals /\ Arrived \in Signals
        BY SignalKinds
      <4>2. \A a, b \in Signals : toMain \o <<a, b>> = Append(Append(toMain, a), b)
        BY <1>1, TwoMoreIsTwice
      <4>3. \A a \in Signals : Append(toMain, a) \in Seq(Signals)
        BY <1>1
      <4>4. QED
        BY <3>1, <4>1, <4>2, <4>3
    <3>4. Heard(0, Info(TRUE), 0) /\ Heard(0, Arrived, 1) /\ up = 0
      BY <3>1, SignalKinds DEF Heard, Bit
    <3>5. Takes(Bit(polling), Append(toMain, Info(TRUE)), 0)
      BY <1>1, <3>4, HearsLast, SignalKinds
    <3>6. Takes(Bit(polling), toMain', 1)
      BY <3>3, <3>4, <3>5, HearsLast, SignalKinds
    <3>7. QED
      BY <1>1, <3>2, <3>6 DEF SessionsInOrder, Bit
  <2>3. QED
    BY <2>1, <2>2
<1>7. CASE ReleaseHandle
  <2>1. /\ worker.handle # 0 /\ worker'.handle = 0 /\ toMain' = Append(toMain, Removed)
    BY <1>1, <1>7 DEF ReleaseHandle, TypeOK, Workers
  <2>2. Heard(1, Removed, 0) /\ up = 1
    BY <2>1, SignalKinds DEF Heard, Bit
  <2>3. Takes(Bit(polling), toMain', 0)
    BY <1>1, <2>1, <2>2, HearsLast, SignalKinds
  <2>4. QED
    BY <1>1, <2>1, <2>3 DEF SessionsInOrder, Bit
<1>8. CASE CloseCalled
  BY <1>3, <1>4, <1>8 DEF CloseCalled
<1>9. CASE TransferError \/ PollFails
  BY <1>5, <1>9 DEF TransferError, PollFails
<1>10. CASE PresenceArrival
  BY <1>1, <1>2, <1>10 DEF PresenceArrival, Workers
<1>11. CASE PresenceLoss
  BY <1>2, <1>4, <1>11 DEF PresenceLoss
<1>12. QED
  BY <1>6, <1>7, <1>8, <1>9, <1>10, <1>11 DEF WorkerStep

LEMMA StepInOrder == TypeOK /\ SessionsInOrder /\ [Next]_vars => SessionsInOrder'
<1> SUFFICES ASSUME TypeOK, SessionsInOrder, [Next]_vars PROVE SessionsInOrder'
  OBVIOUS
<1>1. CASE Toggle \/ Ep02Step \/ Unplug \/ Plug \/ UNCHANGED vars
  <2>1. UNCHANGED <<polling, toMain, worker>>
    BY <1>1 DEF Toggle, MainOnly, Ep02Step, Look, Lock, TransferEnds, TransferFails, Tell, Clear, Ep02Only,
       Unplug, Plug, CableOnly, mainVars, vars
  <2>2. QED
    BY <2>1 DEF SessionsInOrder
<1>2. QED
  BY <1>1, HearKeepsOrder, WorkerKeepsOrder DEF Next

LEMMA InOrderHolds == Spec => []SessionsInOrder
  BY InitInOrder, StepInOrder, TypeCorrect, PTL DEF Spec

\* kpodplusdevice.cpp, onDeviceArrived and onDeviceRemoved: with every signal heard the facade polls
\* exactly while the USB thread has the device open, however often it was opened and lost meanwhile.
THEOREM FacadeIsRight == Spec => []FacadeKnows
<1>1. TypeOK /\ SessionsInOrder => FacadeKnows
  <2>1. ASSUME SessionsInOrder, toMain = <<>>
        PROVE  Bit(polling) = Bit(worker.handle # 0)
    BY <2>1 DEF SessionsInOrder, Takes
  <2>2. ASSUME TypeOK, SessionsInOrder, Settled
        PROVE  polling = (worker.handle # 0)
    <3>1. polling \in BOOLEAN /\ toMain = <<>>
      BY <2>2 DEF TypeOK, Settled
    <3>2. Bit(polling) = Bit(worker.handle # 0)
      BY <2>1, <2>2, <3>1
    <3>3. CASE worker.handle # 0
      BY <3>1, <3>2, <3>3 DEF Bit
    <3>4. CASE worker.handle = 0
      BY <3>1, <3>2, <3>4 DEF Bit
    <3>5. QED
      BY <3>3, <3>4
  <2>3. QED
    BY <2>2 DEF FacadeKnows
<1>2. QED
  BY <1>1, InOrderHolds, TypeCorrect, PTL

\* closeDevice() reports a removal once for each session: no removal is heard that ends none.
THEOREM OneRemoval == Spec => RemovedOnce
<1>1. TypeOK /\ SessionsInOrder /\ [Next]_vars => [HearRemoved => polling]_vars
  BY HearKeepsOrder DEF MainStep
<1>2. QED
  BY <1>1, InOrderHolds, TypeCorrect, PTL DEF Spec, RemovedOnce
=============================================================================

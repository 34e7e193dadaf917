--------------------------- MODULE TransmitProofs ---------------------------
(***************************************************************************)
(* Safety of TransmitControl for every choice of its constants, by         *)
(* induction on its steps: IInv, its types and what bounds them, then      *)
(* Settling, Ordered and Rooms, each on top of the ones before.  A         *)
(* decision is used only through the results of TransmitOwnerProofs, and a *)
(* queue only through what is last in it (Ends) and what is not (NoneOf).  *)
(***************************************************************************)
EXTENDS TransmitControl, TransmitOwnerProofs, SequenceTheorems, WellFoundedInduction

-----------------------------------------------------------------------------
(* Sequences of messages. *)

LEMMA OnlyTyped ==
  ASSUME NEW S, NEW cond \in BOOLEAN, NEW step, cond => step \in S
  PROVE  Only(cond, step) \in Seq(S)
BY DEF Only

LEMMA ConcatTyped ==
  ASSUME NEW S, NEW s \in Seq(S), NEW t \in Seq(S)
  PROVE  s \o t \in Seq(S)
OBVIOUS

\* apply() turns a decision into tasks of the main thread.
LEMMA StepsTyped ==
  ASSUME NEW e \in Effects
  PROVE  Steps(e) \in Seq(MainTask)
<1> DEFINE a1 == Only(e.setSource /\ e.gateActive, [do |-> "Source", src |-> e.source])
           a2 == Only(e.sendTx, [do |-> "TX"])
           a3 == Only(e.setGate, [do |-> "Gate", on |-> e.gateActive])
           a4 == Only(e.abortCw, [do |-> "Abort"])
           a5 == Only(e.sendRx /\ ~e.abortCw, [do |-> "RX"])
           a6 == Only(e.setSource /\ ~e.gateActive, [do |-> "Switch", src |-> e.source])
<1>1. /\ [do |-> "Source", src |-> e.source] \in MainTask
      /\ [do |-> "Switch", src |-> e.source] \in MainTask
      /\ [do |-> "Gate", on |-> e.gateActive] \in MainTask
      /\ [do |-> "TX"] \in MainTask /\ [do |-> "RX"] \in MainTask /\ [do |-> "Abort"] \in MainTask
  BY DEF Effects, MainTask
<1>2. /\ (e.setSource /\ e.gateActive) \in BOOLEAN /\ (e.setSource /\ ~e.gateActive) \in BOOLEAN
      /\ (e.sendRx /\ ~e.abortCw) \in BOOLEAN
      /\ e.sendTx \in BOOLEAN /\ e.setGate \in BOOLEAN /\ e.abortCw \in BOOLEAN
  BY DEF Effects
<1>3. /\ a1 \in Seq(MainTask) /\ a2 \in Seq(MainTask) /\ a3 \in Seq(MainTask)
      /\ a4 \in Seq(MainTask) /\ a5 \in Seq(MainTask) /\ a6 \in Seq(MainTask)
  BY <1>1, <1>2, OnlyTyped
<1> HIDE DEF a1, a2, a3, a4, a5, a6
<1>4. a1 \o a2 \o a3 \o a4 \o a5 \o a6 \in Seq(MainTask)
  BY <1>3, ConcatTyped
<1>5. QED
  BY <1>4 DEF Steps, a1, a2, a3, a4, a5, a6

-----------------------------------------------------------------------------
(* The inductive invariant.  IndicatorHonest and ConfirmedIsHeard are       *)
(* inductive only together with the types: a decision is sound only in a    *)
(* State the arbiter can be in.                                             *)

IInv == TypeOK /\ IndicatorHonest /\ ConfirmedIsHeard

LEMMA ArbiterReachable == IInv => Reachable(arb)
BY DEF IInv, TypeOK, ConfirmedIsHeard, Reachable

LEMMA ApplySound ==
  ASSUME IInv, NEW r, Decision(arb, r), NEW andThen \in Seq(MainTask), Apply(r, andThen)
  PROVE  /\ Reachable(arb')
         /\ indicator' = (arb'.owner # "None")
         /\ LawfulStep(arb.owner, arb'.owner)
         /\ todo' \in Seq(MainTask)
         /\ ep' \in Nat
<1>1. Sound(arb, r)
  BY ArbiterReachable, EveryDecisionSound
<1>2. Steps(r.e) \in Seq(MainTask)
  BY <1>1, StepsTyped DEF Sound
<1>3. todo' \in Seq(MainTask)
  BY <1>2, ConcatTyped DEF Apply
<1>4. ep' \in Nat
  BY DEF Apply, NextEpisode, IInv, TypeOK
<1>5. indicator' = (arb'.owner # "None")
  BY <1>1 DEF Apply, Sound, IInv, IndicatorHonest, TypeOK
<1>6. QED
  BY <1>1, <1>3, <1>4, <1>5 DEF Apply, Sound

\* A step that leaves the main thread's state alone, or changes it by a decision.
LEMMA InvFromParts ==
  ASSUME Reachable(arb'), indicator' = (arb'.owner # "None"),
         rsTx' \in BOOLEAN, link' \in BOOLEAN,
         arb'.radioConfirmed => rsTx',
         todo' \in Seq(MainTask), mainQ' \in Seq(Event), txQ' \in Seq(TxCall), ioQ' \in Seq(IoCall),
         pipe' \in [gate : BOOLEAN, source : AudioSource, mic : BOOLEAN, ep : Nat],
         radio' \in [tx : BOOLEAN, cat : BOOLEAN, ep : Nat],
         buf' \in [block : {"None"} \cup AudioSource, left : BOOLEAN],
         ep' \in Nat, sessions' \in Nat, overtaken' \in BOOLEAN
  PROVE  IInv'
BY DEF IInv, TypeOK, IndicatorHonest, ConfirmedIsHeard, Reachable

LEMMA RequestPreserves ==
  ASSUME IInv, NEW r, Request(arb, r), Requested(r)
  PROVE  IInv'
<1>1. << >> \in Seq(MainTask)
  OBVIOUS
<1>2. Apply(r, << >>) /\ Decision(arb, r)
  BY DEF Requested, Decision
<1>3. /\ Reachable(arb') /\ indicator' = (arb'.owner # "None")
      /\ todo' \in Seq(MainTask) /\ ep' \in Nat
  BY <1>1, <1>2, ApplySound
<1>4. arb' = r.s /\ rsTx' = rsTx
  BY <1>2 DEF Apply, Requested
<1>5. arb'.radioConfirmed => rsTx'
  BY <1>4, ArbiterReachable, ConfirmedByRadioOnly DEF IInv, ConfirmedIsHeard
<1>6. UNCHANGED <<mainQ, pipe, txQ, link, ioQ, radio, sessions, rsTx, buf, overtaken>>
  BY DEF Requested, ioVars
<1>7. QED
  BY <1>3, <1>5, <1>6, InvFromParts DEF IInv, TypeOK

LEMMA RequestsPreserve == ASSUME IInv, Requests PROVE IInv'
<1>1. Producers \subseteq Producer
  BY ControlAssumption DEF Producer
<1>2. ASSUME NEW site \in CallSites, EngageRequest(site[1], site[2])
      PROVE  IInv'
  <2>1. site[1] \in Producer /\ site[2] \in KeyingRoute
    BY <1>1, <1>2 DEF EngageRequest, CallSites, KeyingRoute, Route
  <2>2. Request(arb, Engage(arb, site[1], site[2]))
    BY <2>1 DEF Request
  <2>3. QED
    BY <1>2, <2>2, RequestPreserves DEF EngageRequest
<1>3. ASSUME NEW who \in Owner, Requested(Release(arb, who))
      PROVE  IInv'
  BY <1>3, RequestPreserves DEF Request
<1>4. ASSUME NEW who \in Producers, ReleaseRequest(who)
      PROVE  IInv'
  <2>1. who \in Owner
    BY <1>1 DEF Producer
  <2>2. QED
    BY <1>3, <1>4, <2>1 DEF ReleaseRequest
<1>5. CASE XmitStops
  <2>1. arb.owner \in Owner
    BY DEF IInv, TypeOK, State
  <2>2. QED
    BY <1>3, <1>5, <2>1 DEF XmitStops
<1>6. CASE Escape
  BY <1>6, RequestPreserves DEF Escape, Request
<1>7. CASE CatStopsRadio
  <2>1. todo' \in Seq(MainTask)
    <3>1. [do |-> "RX"] \in MainTask
      BY DEF MainTask
    <3>2. QED
      BY <1>7, <3>1 DEF CatStopsRadio
  <2>2. UNCHANGED <<arb, indicator, rsTx, ep, mainQ, pipe, txQ, link, ioQ, radio, sessions, buf, overtaken>>
    BY <1>7 DEF CatStopsRadio, ioVars
  <2>3. QED
    BY <2>1, <2>2, ArbiterReachable, InvFromParts DEF IInv, TypeOK, IndicatorHonest, ConfirmedIsHeard
<1>8. QED
  BY <1>2, <1>4, <1>5, <1>6, <1>7 DEF Requests

-----------------------------------------------------------------------------
(* The handler the main thread is in. *)

LEMMA TaskTyped ==
  ASSUME IInv, NEW what, Doing(what)
  PROVE  /\ Head(todo) \in MainTask /\ Head(todo).do = what
         /\ todo' \in Seq(MainTask)
BY DEF Doing, IInv, TypeOK

\* A step that leaves arbiter, indicator and RadioState alone.
LEMMA QuietPreserves ==
  ASSUME IInv, UNCHANGED <<arb, indicator, rsTx, ep>>,
         link' \in BOOLEAN, sessions' \in Nat, overtaken' \in BOOLEAN,
         buf' \in [block : {"None"} \cup AudioSource, left : BOOLEAN],
         todo' \in Seq(MainTask), mainQ' \in Seq(Event), txQ' \in Seq(TxCall), ioQ' \in Seq(IoCall),
         pipe' \in [gate : BOOLEAN, source : AudioSource, mic : BOOLEAN, ep : Nat],
         radio' \in [tx : BOOLEAN, cat : BOOLEAN, ep : Nat]
  PROVE  IInv'
BY ArbiterReachable, InvFromParts DEF IInv, TypeOK, IndicatorHonest, ConfirmedIsHeard

\* Superseding switches changes neither how many calls are posted nor of which kind they are.
LEMMA SupersededTyped ==
  ASSUME txQ \in Seq(TxCall)
  PROVE  /\ Superseded \in Seq(TxCall) /\ Len(Superseded) = Len(txQ)
         /\ \A i \in 1 .. Len(txQ) :
              /\ Superseded[i].kind = txQ[i].kind
              /\ txQ[i].kind # "Switch" => Superseded[i] = txQ[i]
<1> DEFINE new(i) == IF txQ[i].kind = "Switch" THEN [txQ[i] EXCEPT !.current = FALSE] ELSE txQ[i]
<1>1. Len(txQ) \in Nat /\ DOMAIN txQ = 1 .. Len(txQ)
  OBVIOUS
<1>2. ASSUME NEW i \in 1 .. Len(txQ)
      PROVE  new(i) \in TxCall /\ new(i).kind = txQ[i].kind
  <2>1. txQ[i] \in TxCall
    OBVIOUS
  <2>2. QED
    BY <2>1 DEF TxCall
<1>3. Superseded = [i \in 1 .. Len(txQ) |-> new(i)]
  BY <1>1 DEF Superseded
<1> HIDE DEF new
<1>4. Superseded \in Seq(TxCall) /\ Len(Superseded) = Len(txQ)
  BY <1>1, <1>2, <1>3
<1>5. QED
  BY <1>2, <1>3, <1>4 DEF new

LEMMA CallTyped ==
  /\ Reconcile \in TxCall /\ Stop \in TxCall /\ MicAccess \in TxCall
  /\ \A on \in BOOLEAN : ep \in Nat => Gate(on) \in TxCall
  /\ \A src \in AudioSource : SwitchTo(src) \in TxCall
BY DEF Reconcile, Stop, MicAccess, Gate, SwitchTo, TxCall

LEMMA ApplyStepPreserves == ASSUME IInv, ApplyStep PROVE IInv'
<1>1. CASE SetTxSource
  <2> DEFINE src == Head(todo).src
  <2>1. src \in AudioSource /\ todo' \in Seq(MainTask)
    BY <1>1, TaskTyped DEF SetTxSource, MainTask
  <2>2. pipe' \in [gate : BOOLEAN, source : AudioSource, mic : BOOLEAN, ep : Nat]
    BY <1>1, <2>1 DEF SetTxSource, IInv, TypeOK
  <2>3. Only(pipe.source # src, Reconcile) \in Seq(TxCall)
    BY OnlyTyped, CallTyped
  <2>4. txQ' \in Seq(TxCall)
    BY <1>1, <2>3, SupersededTyped, ConcatTyped DEF SetTxSource, IInv, TypeOK
  <2>5. UNCHANGED <<ioQ, arb, indicator, rsTx, ep, mainQ, link, radio, sessions, buf, overtaken>>
    BY <1>1 DEF SetTxSource, MainRuns
  <2>6. QED
    BY <2>1, <2>2, <2>4, <2>5, QuietPreserves DEF IInv, TypeOK
<1>2. CASE PostPttActive
  <2>1. Head(todo).on \in BOOLEAN /\ todo' \in Seq(MainTask)
    BY <1>2, TaskTyped DEF PostPttActive, MainTask
  <2>2. txQ' \in Seq(TxCall)
    BY <1>2, <2>1, CallTyped DEF PostPttActive, IInv, TypeOK
  <2>3. UNCHANGED <<pipe, ioQ, arb, indicator, rsTx, ep, mainQ, link, radio, sessions, buf, overtaken>>
    BY <1>2 DEF PostPttActive, MainRuns
  <2>4. QED
    BY <2>1, <2>2, <2>3, QuietPreserves DEF IInv, TypeOK
<1>3. CASE SetTxSourceAfterPtt
  <2>1. Head(todo).src \in AudioSource /\ todo' \in Seq(MainTask)
    BY <1>3, TaskTyped DEF SetTxSourceAfterPtt, MainTask
  <2>2. txQ' \in Seq(TxCall)
    BY <1>3, <2>1, CallTyped, SupersededTyped DEF SetTxSourceAfterPtt, IInv, TypeOK
  <2>3. UNCHANGED <<pipe, ioQ, arb, indicator, rsTx, ep, mainQ, link, radio, sessions, buf, overtaken>>
    BY <1>3 DEF SetTxSourceAfterPtt, MainRuns
  <2>4. QED
    BY <2>1, <2>2, <2>3, QuietPreserves DEF IInv, TypeOK
<1>4. CASE SendTxRx
  <2>1. Head(todo).do \in {"TX", "RX"} /\ todo' \in Seq(MainTask)
    BY <1>4, TaskTyped DEF SendTxRx
  <2>2. Command(Head(todo).do) \in IoCall
    BY <2>1 DEF Command, IoCall, AudioSource, IInv, TypeOK
  <2>3. ioQ' \in Seq(IoCall)
    BY <1>4, <2>2 DEF SendTxRx, IInv, TypeOK
  <2>4. UNCHANGED <<pipe, txQ, arb, indicator, rsTx, ep, mainQ, link, radio, sessions, buf, overtaken>>
    BY <1>4 DEF SendTxRx, MainRuns
  <2>5. QED
    BY <2>1, <2>3, <2>4, QuietPreserves DEF IInv, TypeOK
<1>5. CASE SendAbort
  <2>1. todo' \in Seq(MainTask)
    BY <1>5, TaskTyped DEF SendAbort
  <2>2. Command("Abort") \in IoCall
    BY DEF Command, IoCall, AudioSource, IInv, TypeOK
  <2>3. ioQ' \in Seq(IoCall)
    BY <1>5, <2>2 DEF SendAbort, IInv, TypeOK
  <2>4. UNCHANGED <<pipe, txQ, arb, indicator, rsTx, ep, mainQ, link, radio, sessions, buf, overtaken>>
    BY <1>5 DEF SendAbort, MainRuns
  <2>5. QED
    BY <2>1, <2>3, <2>4, QuietPreserves DEF IInv, TypeOK
<1>6. CASE StopAudio
  <2>1. todo' \in Seq(MainTask)
    BY <1>6, TaskTyped DEF StopAudio
  <2>2. txQ' \in Seq(TxCall)
    BY <1>6, CallTyped DEF StopAudio, IInv, TypeOK
  <2>3. UNCHANGED <<pipe, ioQ, arb, indicator, rsTx, ep, mainQ, link, radio, sessions, buf, overtaken>>
    BY <1>6 DEF StopAudio, MainRuns
  <2>4. QED
    BY <2>1, <2>2, <2>3, QuietPreserves DEF IInv, TypeOK
<1>7. QED
  BY <1>1, <1>2, <1>3, <1>4, <1>5, <1>6 DEF ApplyStep

\* The radio's echo, and the loss of the link.
LEMMA HearEchoPreserves ==
  ASSUME IInv, NEW kind, NEW tx \in BOOLEAN, HearEcho(kind, tx)
  PROVE  IInv'
<1>1. mainQ' \in Seq(Event) /\ UNCHANGED <<pipe, txQ, link, ioQ, radio, sessions, buf, overtaken>>
  BY DEF HearEcho, Delivered, ioVars, IInv, TypeOK
<1>2. CASE rsTx = tx
  BY <1>1, <1>2, QuietPreserves DEF HearEcho, IInv, TypeOK
<1>3. CASE rsTx # tx
  <2>1. << >> \in Seq(MainTask)
    OBVIOUS
  <2>2. Apply(RadioReports(arb, tx), << >>) /\ rsTx' = tx
    BY <1>3 DEF HearEcho
  <2>3. Decision(arb, RadioReports(arb, tx))
    BY DEF Decision
  <2>4. /\ Reachable(arb') /\ indicator' = (arb'.owner # "None")
        /\ todo' \in Seq(MainTask) /\ ep' \in Nat
    BY <2>1, <2>2, <2>3, ApplySound
  <2>5. arb'.radioConfirmed => rsTx'
    BY <2>2, ArbiterReachable, ConfirmedByRadioOnly DEF Apply
  <2>6. QED
    BY <1>1, <2>2, <2>4, <2>5, InvFromParts DEF IInv, TypeOK
<1>4. QED
  BY <1>2, <1>3

LEMMA HearLostPreserves == ASSUME IInv, HearLost PROVE IInv'
<1>1. mainQ' \in Seq(Event) /\ UNCHANGED <<pipe, txQ, link, ioQ, radio, sessions, buf, overtaken>>
  BY DEF HearLost, Delivered, ioVars, IInv, TypeOK
<1>2. <<[do |-> "Stop"]>> \in Seq(MainTask)
  BY DEF MainTask
<1>3. Apply(ReleaseAll(arb), <<[do |-> "Stop"]>>) /\ rsTx' = FALSE
  BY DEF HearLost
<1>4. Decision(arb, ReleaseAll(arb))
  BY DEF Decision, Request
<1>5. /\ Reachable(arb') /\ indicator' = (arb'.owner # "None")
      /\ todo' \in Seq(MainTask) /\ ep' \in Nat
  BY <1>2, <1>3, <1>4, ApplySound
<1>6. arb'.radioConfirmed => rsTx'
  BY <1>3, ArbiterReachable, ConfirmedByRadioOnly DEF Apply
<1>7. QED
  BY <1>1, <1>3, <1>5, <1>6, InvFromParts DEF IInv, TypeOK

-----------------------------------------------------------------------------
(* The other threads. *)

LEMMA TxStepPreserves == ASSUME IInv, TxStep PROVE IInv'
<1> DEFINE Pipe == [gate : BOOLEAN, source : AudioSource, mic : BOOLEAN, ep : Nat]
<1>1. ASSUME NEW kind, Take(kind)
      PROVE  Head(txQ) \in TxCall /\ Head(txQ).kind = kind /\ Tail(txQ) \in Seq(TxCall)
  BY <1>1 DEF Take, IInv, TypeOK
<1>2. \A p \in Pipe : Reconciled(p) \subseteq Pipe
  BY DEF Reconciled
<1>3. ASSUME NEW flushed \in BOOLEAN, UNCHANGED buf \/ Buffers(flushed) \/ buf' = Empty
      PROVE  buf' \in [block : {"None"} \cup AudioSource, left : BOOLEAN]
  <2>1. buf' = buf \/ buf' = Empty
    BY <1>3 DEF Buffers
  <2>2. buf \in [block : {"None"} \cup AudioSource, left : BOOLEAN]
    BY DEF IInv, TypeOK
  <2>3. Empty \in [block : {"None"} \cup AudioSource, left : BOOLEAN]
    BY DEF Empty
  <2>4. QED
    BY <2>1, <2>2, <2>3
<1>4. ASSUME txQ' \in Seq(TxCall), pipe' \in Pipe, OnlyTx,
             NEW flushed \in BOOLEAN, UNCHANGED buf \/ Buffers(flushed) \/ buf' = Empty
      PROVE  IInv'
  BY <1>3, <1>4, QuietPreserves DEF OnlyTx, mainVars, ioVars, IInv, TypeOK
<1>5. CASE SetPttActive
  <2>1. Head(txQ).on \in BOOLEAN /\ Head(txQ).ep \in Nat /\ txQ' \in Seq(TxCall)
    BY <1>1, <1>5 DEF SetPttActive, TxCall
  <2>2. [pipe EXCEPT !.gate = Head(txQ).on, !.ep = IF Head(txQ).on THEN Head(txQ).ep ELSE 0] \in Pipe
    BY <2>1 DEF IInv, TypeOK
  <2>3. QED
    BY <1>2, <1>4, <1>5, <2>1, <2>2 DEF SetPttActive
<1>6. CASE SwitchSource
  <2>1. Head(txQ).src \in AudioSource /\ Head(txQ).current \in BOOLEAN /\ Tail(txQ) \in Seq(TxCall)
    BY <1>1, <1>6 DEF SwitchSource, TxCall
  <2>2. pipe' \in Pipe
    BY <1>6, <2>1 DEF SwitchSource, IInv, TypeOK
  <2>3. txQ' \in Seq(TxCall)
    <3> DEFINE changes == Head(txQ).current /\ Head(txQ).src # pipe.source
    <3>1. changes \in BOOLEAN
      BY <2>1
    <3> HIDE DEF changes
    <3>2. Only(changes, Reconcile) \in Seq(TxCall)
      BY <3>1, OnlyTyped, CallTyped
    <3>3. QED
      BY <1>6, <2>1, <3>2, ConcatTyped DEF SwitchSource, changes
  <2>4. QED
    BY <1>4, <1>6, <2>2, <2>3 DEF SwitchSource
<1>7. CASE ReconcileMic
  BY <1>1, <1>2, <1>4, <1>7 DEF ReconcileMic, IInv, TypeOK
<1>8. CASE StopPipeline
  <2>1. Off \in Pipe
    BY DEF Off, AudioSource
  <2>2. QED
    BY <1>1, <1>4, <1>8, <2>1 DEF StopPipeline
<1>9. QED
  BY <1>5, <1>6, <1>7, <1>8 DEF TxStep

\* What the TX thread does with a block of audio.
LEMMA BlockSteps ==
  ASSUME IInv, TakeBlock \/ SendBlock
  PROVE  /\ UNCHANGED <<arb, indicator, rsTx, todo, ep, mainQ, pipe, txQ, link, radio, sessions, overtaken>>
         /\ UNCHANGED ioQ \/ \E src \in AudioSource : ioQ' = Append(ioQ, Packet(src, pipe.ep))
         /\ buf' \in [block : {"None"} \cup AudioSource, left : BOOLEAN]
<1>1. UNCHANGED <<arb, indicator, rsTx, todo, ep, mainQ, pipe, txQ, link, radio, sessions, overtaken>>
  BY DEF TakeBlock, SendBlock, AudioOnly, mainVars
<1>2. CASE TakeBlock
  <2>1. UNCHANGED ioQ /\ buf' = [buf EXCEPT !.block = pipe.source]
    BY <1>2 DEF TakeBlock
  <2>2. QED
    BY <1>1, <2>1 DEF IInv, TypeOK
<1>3. CASE SendBlock
  <2>1. (buf.left \/ buf.block = "Microphone") \in BOOLEAN /\ {"Microphone", "Tci"} = AudioSource
    BY DEF AudioSource
  <2>2. UNCHANGED ioQ \/ \E src \in AudioSource : ioQ' = Append(ioQ, Packet(src, pipe.ep))
    BY <1>3, <2>1 DEF SendBlock
  <2>3. \E left \in BOOLEAN : buf' = [block |-> "None", left |-> left]
    <3>1. \A left \in BOOLEAN : (left /\ buf.block = "Microphone") \in BOOLEAN
      OBVIOUS
    <3>2. QED
      BY <1>3, <2>1, <3>1 DEF SendBlock
  <2>4. QED
    BY <1>1, <2>2, <2>3
<1>4. QED
  BY <1>2, <1>3

LEMMA BlockPreserves == ASSUME IInv, TakeBlock \/ SendBlock PROVE IInv'
<1>1. \A src \in AudioSource : Packet(src, pipe.ep) \in IoCall
  BY DEF Packet, IoCall, IInv, TypeOK
<1>2. ioQ' \in Seq(IoCall)
  <2>1. UNCHANGED ioQ \/ \E src \in AudioSource : ioQ' = Append(ioQ, Packet(src, pipe.ep))
    BY BlockSteps
  <2>2. ioQ \in Seq(IoCall)
    BY DEF IInv, TypeOK
  <2>3. ASSUME NEW c \in IoCall PROVE Append(ioQ, c) \in Seq(IoCall)
    BY <2>2
  <2>4. QED
    BY <1>1, <2>1, <2>2, <2>3
<1>3. QED
  BY <1>2, BlockSteps, QuietPreserves DEF IInv, TypeOK

LEMMA RadioBecomesTyped ==
  ASSUME IInv, NEW r \in [tx : BOOLEAN, cat : BOOLEAN, ep : Nat], RadioBecomes(r)
  PROVE  /\ radio' \in [tx : BOOLEAN, cat : BOOLEAN, ep : Nat]
         /\ mainQ' \in Seq(Event)
<1>1. Report("TX", r.ep) \in Event /\ Report("RX", radio.ep) \in Event
  BY DEF Report, Event, IInv, TypeOK
<1>2. QED
  BY <1>1 DEF RadioBecomes, IInv, TypeOK

LEMMA IoStepPreserves == ASSUME IInv, IoStep PROVE IInv'
<1> DEFINE Radio == [tx : BOOLEAN, cat : BOOLEAN, ep : Nat]
<1>1. OnlyIo
  BY DEF IoStep, IoDrops, IoSendsTx, IoSendsRx, IoSendsAudio
<1>2. Head(ioQ) \in IoCall /\ ioQ' \in Seq(IoCall)
  BY <1>1 DEF OnlyIo, IInv, TypeOK
<1>3. Head(ioQ).ep \in Nat /\ Silent \in Radio
  BY <1>2 DEF IoCall, Silent
<1>4. radio' \in Radio /\ mainQ' \in Seq(Event)
  <2>1. CASE IoDrops
    BY <2>1 DEF IoDrops, IInv, TypeOK
  <2>2. CASE IoSendsTx
    BY <1>3, <2>2, RadioBecomesTyped DEF IoSendsTx
  <2>3. CASE IoSendsRx
    BY <1>3, <2>3, RadioBecomesTyped DEF IoSendsRx
  <2>4. CASE IoSendsAudio
    <3>1. [radio EXCEPT !.tx = TRUE, !.ep = Head(ioQ).ep] \in Radio
      BY <1>3 DEF IInv, TypeOK
    <3>2. QED
      BY <2>4, <3>1, RadioBecomesTyped DEF IoSendsAudio
  <2>5. QED
    BY <2>1, <2>2, <2>3, <2>4 DEF IoStep
<1>5. UNCHANGED <<arb, indicator, rsTx, todo, ep, pipe, txQ, link, sessions, buf, overtaken>>
  BY <1>1 DEF OnlyIo, mainVars
<1>6. QED
  BY <1>2, <1>4, <1>5, QuietPreserves DEF IInv, TypeOK

LEMMA EnvironmentPreserves == ASSUME IInv, Environment PROVE IInv'
<1> DEFINE Radio == [tx : BOOLEAN, cat : BOOLEAN, ep : Nat]
<1>1. Silent \in Radio /\ [tx |-> TRUE, cat |-> FALSE, ep |-> 0] \in Radio
  BY DEF Silent
<1>2. CASE RadioNoticesSilence \/ RadioKeysItself \/ RadioUnkeysItself
  <2>1. radio' \in Radio /\ mainQ' \in Seq(Event) /\ OnlyRadio
    BY <1>1, <1>2, RadioBecomesTyped DEF RadioNoticesSilence, RadioKeysItself, RadioUnkeysItself
  <2>2. QED
    BY <2>1, QuietPreserves DEF OnlyRadio, mainVars, IInv, TypeOK
<1>3. CASE LinkLost
  <2>1. Report("Lost", 0) \in Event
    BY DEF Report, Event
  <2>2. mainQ' \in Seq(Event)
    BY <1>3, <2>1 DEF LinkLost, IInv, TypeOK
  <2>3. radio' \in Radio /\ link' \in BOOLEAN
    BY <1>1, <1>3 DEF LinkLost
  <2>4. UNCHANGED <<arb, indicator, rsTx, todo, ep, pipe, txQ, ioQ, sessions, buf, overtaken>>
    BY <1>3 DEF LinkLost, mainVars
  <2>5. QED
    BY <2>2, <2>3, <2>4, QuietPreserves DEF IInv, TypeOK
<1>4. CASE LinkUp
  <2>1. link' \in BOOLEAN /\ sessions' \in Nat /\ overtaken' \in BOOLEAN
    BY <1>4 DEF LinkUp, StopDue, IInv, TypeOK
  <2>2. UNCHANGED <<arb, indicator, rsTx, todo, ep, mainQ, pipe, txQ, ioQ, radio, buf>>
    BY <1>4 DEF LinkUp, mainVars
  <2>3. QED
    BY <2>1, <2>2, QuietPreserves DEF IInv, TypeOK
<1>5. CASE MicDeviceLost
  <2>1. pipe' \in [gate : BOOLEAN, source : AudioSource, mic : BOOLEAN, ep : Nat]
    BY <1>5 DEF MicDeviceLost, IInv, TypeOK
  <2>2. UNCHANGED <<arb, indicator, rsTx, todo, ep, mainQ, txQ, link, ioQ, radio, sessions, overtaken>>
    BY <1>5 DEF MicDeviceLost, OnlyTx, mainVars, ioVars
  <2>3. buf' \in [block : {"None"} \cup AudioSource, left : BOOLEAN]
    BY <1>5 DEF MicDeviceLost, Empty
  <2>4. QED
    BY <2>1, <2>2, <2>3, QuietPreserves DEF IInv, TypeOK
<1>6. CASE MicAccessAnswered
  <2>1. txQ' \in Seq(TxCall)
    BY <1>6, CallTyped DEF MicAccessAnswered, IInv, TypeOK
  <2>2. UNCHANGED <<arb, indicator, rsTx, todo, ep, mainQ, pipe, link, ioQ, radio, sessions, buf, overtaken>>
    BY <1>6 DEF MicAccessAnswered, mainVars, ioVars
  <2>3. QED
    BY <2>1, <2>2, QuietPreserves DEF IInv, TypeOK
<1>7. QED
  BY <1>2, <1>3, <1>4, <1>5, <1>6 DEF Environment

-----------------------------------------------------------------------------
(* The theorems. *)

LEMMA InvInit == Init => IInv
<1> SUFFICES ASSUME Init PROVE IInv
  OBVIOUS
<1>1. Idle \in State /\ Paired(Idle) /\ Idle.radioConfirmed = FALSE /\ Idle.owner = "None"
  BY DEF Idle, State, Owner, Route, Paired
<1>2. /\ Off \in [gate : BOOLEAN, source : AudioSource, mic : BOOLEAN, ep : Nat]
      /\ Empty \in [block : {"None"} \cup AudioSource, left : BOOLEAN]
      /\ Silent \in [tx : BOOLEAN, cat : BOOLEAN, ep : Nat]
  BY DEF Off, Empty, Silent, AudioSource
<1>3. /\ << >> \in Seq(MainTask) /\ << >> \in Seq(Event)
      /\ << >> \in Seq(TxCall) /\ << >> \in Seq(IoCall)
  OBVIOUS
<1>4. TypeOK
  BY <1>1, <1>2, <1>3 DEF Init, TypeOK
<1>5. IndicatorHonest /\ ConfirmedIsHeard
  BY <1>1 DEF Init, IndicatorHonest, ConfirmedIsHeard
<1>6. QED
  BY <1>4, <1>5 DEF IInv

LEMMA InvNext == IInv /\ [Next]_vars => IInv'
<1> SUFFICES ASSUME IInv, [Next]_vars PROVE IInv'
  OBVIOUS
<1>1. CASE Requests
  BY <1>1, RequestsPreserve
<1>2. CASE MainStep
  BY <1>2, ApplyStepPreserves, HearEchoPreserves, HearLostPreserves DEF MainStep
<1>3. CASE TxStep
  BY <1>3, TxStepPreserves
<1>4. CASE TakeBlock \/ SendBlock
  BY <1>4, BlockPreserves
<1>5. CASE IoStep
  BY <1>5, IoStepPreserves
<1>6. CASE Environment
  BY <1>6, EnvironmentPreserves
<1>7. CASE UNCHANGED vars
  BY <1>7, QuietPreserves DEF vars, IInv, TypeOK
<1>8. QED
  BY <1>1, <1>2, <1>3, <1>4, <1>5, <1>6, <1>7 DEF Next

\* The inductive invariant holds in every behaviour.
THEOREM Invariance == Spec => []IInv
BY InvInit, InvNext, PTL DEF Spec

\* The types, and the pairing of holder and route: nobody holds the transmitter by a route that is
\* not a producer's, whatever the order of requests and echoes (transmitowner.h).
THEOREM TypeCorrect == Spec => []TypeOK
<1>1. IInv => TypeOK
  BY DEF IInv
<1>2. QED
  BY <1>1, Invariance, PTL

\* The PTT indicator is lit exactly while somebody holds the transmitter (the transmittingChanged at
\* the end of apply()), and an acknowledged transmission is one RadioState shows as transmitting, so
\* that the radio's next RX; is not filtered out before it reaches the arbiter (INT-002).
THEOREM ShownTruly == Spec => []ShownAsItIs
<1>1. IInv => ShownAsItIs
  BY DEF IInv, ShownAsItIs
<1>2. QED
  BY <1>1, Invariance, PTL

-----------------------------------------------------------------------------
(* Refinement: the arbiter, executed across four threads, is the lock of    *)
(* module TransmitLock.                                                     *)

\* A step of the program hands the transmitter on lawfully, or leaves it where it is.
LEMMA HandedOnLawfully ==
  ASSUME IInv, [Next]_vars
  PROVE  LawfulStep(arb.owner, arb.owner')
<1>1. arb' = arb => LawfulStep(arb.owner, arb.owner')
  BY DEF LawfulStep
<1>2. << >> \in Seq(MainTask) /\ <<[do |-> "Stop"]>> \in Seq(MainTask)
  BY DEF MainTask
<1>3. ASSUME NEW r, Request(arb, r), Requested(r)
      PROVE  LawfulStep(arb.owner, arb.owner')
  BY <1>2, <1>3, ApplySound DEF Requested, Decision
<1>4. CASE Requests
  <2>1. Producers \subseteq Producer
    BY ControlAssumption DEF Producer
  <2>2. ASSUME NEW site \in CallSites, EngageRequest(site[1], site[2])
        PROVE  LawfulStep(arb.owner, arb.owner')
    <3>1. site[1] \in Producer /\ site[2] \in KeyingRoute
      BY <2>1, <2>2 DEF EngageRequest, CallSites, KeyingRoute, Route
    <3>2. Request(arb, Engage(arb, site[1], site[2]))
      BY <3>1 DEF Request
    <3>3. QED
      BY <1>3, <2>2, <3>2 DEF EngageRequest
  <2>3. ASSUME NEW who \in Producers, ReleaseRequest(who)
        PROVE  LawfulStep(arb.owner, arb.owner')
    <3>1. Request(arb, Release(arb, who))
      BY <2>1 DEF Producer, Request
    <3>2. QED
      BY <1>3, <2>3, <3>1 DEF ReleaseRequest
  <2>4. CASE XmitStops
    <3>1. Request(arb, Release(arb, arb.owner))
      BY DEF Request, IInv, TypeOK, State
    <3>2. QED
      BY <1>3, <2>4, <3>1 DEF XmitStops
  <2>5. CASE Escape
    <3>1. Request(arb, OperatorStop(arb))
      BY DEF Request
    <3>2. QED
      BY <1>3, <2>5, <3>1 DEF Escape
  <2>6. CASE CatStopsRadio
    BY <1>1, <2>6 DEF CatStopsRadio
  <2>7. QED
    BY <1>4, <2>2, <2>3, <2>4, <2>5, <2>6 DEF Requests
<1>5. CASE MainStep
  <2>1. CASE ApplyStep
    BY <1>1, <2>1 DEF ApplyStep, SetTxSource, PostPttActive, SetTxSourceAfterPtt, SendTxRx, SendAbort,
                      StopAudio, MainRuns
  <2>2. ASSUME NEW kind, NEW tx \in BOOLEAN, HearEcho(kind, tx)
        PROVE  LawfulStep(arb.owner, arb.owner')
    <3>1. CASE rsTx = tx
      BY <1>1, <2>2, <3>1 DEF HearEcho
    <3>2. CASE rsTx # tx
      <4>1. Decision(arb, RadioReports(arb, tx)) /\ Apply(RadioReports(arb, tx), << >>)
        BY <2>2, <3>2 DEF Decision, HearEcho
      <4>2. QED
        BY <1>2, <4>1, ApplySound
    <3>3. QED
      BY <3>1, <3>2
  <2>3. CASE HearLost
    <3>1. Decision(arb, ReleaseAll(arb)) /\ Apply(ReleaseAll(arb), <<[do |-> "Stop"]>>)
      BY <2>3 DEF Decision, Request, HearLost
    <3>2. QED
      BY <1>2, <3>1, ApplySound
  <2>4. QED
    BY <1>5, <2>1, <2>2, <2>3 DEF MainStep
<1>6. CASE TxStep
  BY <1>1, <1>6 DEF TxStep, SetPttActive, SwitchSource, ReconcileMic, StopPipeline, OnlyTx, mainVars
<1>7. CASE TakeBlock \/ SendBlock
  BY <1>1, <1>7 DEF TakeBlock, SendBlock, AudioOnly, mainVars
<1>8. CASE IoStep
  BY <1>1, <1>8 DEF IoStep, IoDrops, IoSendsTx, IoSendsRx, IoSendsAudio, OnlyIo, mainVars
<1>9. CASE Environment
  BY <1>1, <1>9 DEF Environment, RadioNoticesSilence, RadioKeysItself, RadioUnkeysItself, LinkLost,
                    LinkUp, MicDeviceLost, MicAccessAnswered, OnlyRadio, OnlyTx, mainVars
<1>10. CASE UNCHANGED vars
  BY <1>1, <1>10 DEF vars
<1>11. QED
  BY <1>4, <1>5, <1>6, <1>7, <1>8, <1>9, <1>10 DEF Next

\* The transmitter has one holder at a time; only the operator takes it from somebody, and only from
\* somebody who is not the operator (transmitowner.h, engage).
THEOREM TransmitImplementsLock == Spec => ImplementsLock
<1>1. Init => Lock!Init
  BY DEF Init, Idle, Lock!Init
<1>2. IInv /\ IInv' /\ [Next]_vars => [Lock!Next]_(arb.owner)
  <2> SUFFICES ASSUME IInv, IInv', [Next]_vars, arb.owner' # arb.owner
               PROVE  Lock!Next
    OBVIOUS
  <2>1. LawfulStep(arb.owner, arb.owner')
    BY HandedOnLawfully
  <2>2. arb.owner \in Owner /\ arb.owner' \in Owner
    BY DEF IInv, TypeOK, State
  <2>3. CASE arb.owner' = "None"
    BY <2>3 DEF Lock!Next, Lock!Drop
  <2>4. CASE arb.owner = "None"
    BY <2>2, <2>4 DEF Lock!Next, Lock!Take, Owner, IsLocal
  <2>5. CASE IsLocal(arb.owner') /\ ~IsLocal(arb.owner) /\ arb.owner # "None"
    BY <2>2, <2>5 DEF Lock!Next, Lock!Preempt, Owner, IsLocal
  <2>6. QED
    BY <2>1, <2>3, <2>4, <2>5 DEF LawfulStep
<1>3. QED
  BY <1>1, <1>2, Invariance, PTL DEF Spec, ImplementsLock, Lock!Spec

-----------------------------------------------------------------------------
(* What a queue will have done once it has been carried out.                *)

NoneOf(q, W) == \A i \in 1 .. Len(q) : q[i] \notin W

\* The last of the W in q is a V.
Ends(q, W, V) == \E i \in 1 .. Len(q) : q[i] \in V /\ \A j \in i + 1 .. Len(q) : q[j] \notin W

\* No B comes after an A.
NoneAfter(q, A, B) == \A i \in 1 .. Len(q) : q[i] \in A => \A j \in i + 1 .. Len(q) : q[j] \notin B

LEMMA EmptyEnds ==
  ASSUME NEW W, NEW V
  PROVE  NoneOf(<<>>, W) /\ ~Ends(<<>>, W, V) /\ NoneAfter(<<>>, W, V)
BY DEF NoneOf, Ends, NoneAfter

LEMMA AppendEnds ==
  ASSUME NEW S, NEW q \in Seq(S), NEW c \in S, NEW W, NEW V \in SUBSET W
  PROVE  /\ NoneOf(Append(q, c), W) <=> NoneOf(q, W) /\ c \notin W
         /\ Ends(Append(q, c), W, V) <=> c \in V \/ (c \notin W /\ Ends(q, W, V))
<1> DEFINE t == Append(q, c)
<1>1. /\ Len(q) \in Nat /\ Len(t) = Len(q) + 1 /\ t[Len(q) + 1] = c
      /\ \A i \in 1 .. Len(q) : t[i] = q[i]
  BY AppendProperties
<1> HIDE DEF t
<1>2. \A i \in 1 .. Len(t) : i \in 1 .. Len(q) \/ i = Len(q) + 1
  BY <1>1
<1>3. NoneOf(t, W) <=> NoneOf(q, W) /\ c \notin W
  BY <1>1, <1>2 DEF NoneOf
<1>4. ASSUME Ends(t, W, V)
      PROVE  c \in V \/ (c \notin W /\ Ends(q, W, V))
  <2>1. PICK i \in 1 .. Len(t) : t[i] \in V /\ \A j \in i + 1 .. Len(t) : t[j] \notin W
    BY <1>4 DEF Ends
  <2>2. CASE i = Len(q) + 1
    BY <1>1, <2>1, <2>2
  <2>3. CASE i \in 1 .. Len(q)
    <3>1. Len(q) + 1 \in i + 1 .. Len(t) /\ \A j \in i + 1 .. Len(q) : j \in i + 1 .. Len(t) /\ j \in 1 .. Len(q)
      BY <1>1, <2>3
    <3>2. c \notin W /\ q[i] \in V /\ \A j \in i + 1 .. Len(q) : q[j] \notin W
      BY <1>1, <2>1, <2>3, <3>1
    <3>3. QED
      BY <2>3, <3>2 DEF Ends
  <2>4. QED
    BY <1>2, <2>2, <2>3
<1>5. ASSUME c \in V
      PROVE  Ends(t, W, V)
  <2>1. Len(q) + 1 \in 1 .. Len(t) /\ (Len(q) + 1) + 1 .. Len(t) = {}
    BY <1>1
  <2>2. QED
    BY <1>1, <1>5, <2>1 DEF Ends
<1>6. ASSUME c \notin W, Ends(q, W, V)
      PROVE  Ends(t, W, V)
  <2>1. PICK i \in 1 .. Len(q) : q[i] \in V /\ \A j \in i + 1 .. Len(q) : q[j] \notin W
    BY <1>6 DEF Ends
  <2>2. i \in 1 .. Len(t) /\ t[i] \in V /\ \A j \in i + 1 .. Len(t) : j \in i + 1 .. Len(q) \/ j = Len(q) + 1
    BY <1>1, <2>1
  <2>3. \A j \in i + 1 .. Len(q) : t[j] = q[j]
    BY <1>1, <2>1
  <2>4. QED
    BY <1>1, <1>6, <2>1, <2>2, <2>3 DEF Ends
<1>7. QED
  BY <1>3, <1>4, <1>5, <1>6 DEF t

LEMMA TailEnds ==
  ASSUME NEW S, NEW q \in Seq(S), q # <<>>, NEW W, NEW V \in SUBSET W
  PROVE  /\ NoneOf(q, W) <=> Head(q) \notin W /\ NoneOf(Tail(q), W)
         /\ Ends(q, W, V) <=> Ends(Tail(q), W, V) \/ (Head(q) \in V /\ NoneOf(Tail(q), W))
<1> DEFINE t == Tail(q)
<1>1. /\ Len(q) \in Nat \ {0} /\ Head(q) = q[1] /\ Len(t) = Len(q) - 1
      /\ \A i \in 1 .. Len(t) : t[i] = q[i + 1]
  OBVIOUS
<1> HIDE DEF t
<1>2. /\ 1 \in 1 .. Len(q)
      /\ \A i \in 1 .. Len(t) : i + 1 \in 1 .. Len(q) /\ i + 1 # 1
      /\ \A i \in 1 .. Len(q) : i # 1 => i - 1 \in 1 .. Len(t) /\ t[i - 1] = q[i]
  <2>1. 1 \in 1 .. Len(q) /\ \A i \in 1 .. Len(t) : i + 1 \in 1 .. Len(q) /\ i + 1 # 1
    BY <1>1
  <2>2. ASSUME NEW i \in 1 .. Len(q), i # 1
        PROVE  i - 1 \in 1 .. Len(t) /\ t[i - 1] = q[i]
    <3>1. i - 1 \in 1 .. Len(t) /\ (i - 1) + 1 = i
      BY <1>1, <2>2
    <3>2. QED
      BY <1>1, <3>1
  <2>3. QED
    BY <2>1, <2>2
<1>3. NoneOf(q, W) <=> Head(q) \notin W /\ NoneOf(t, W)
  BY <1>1, <1>2 DEF NoneOf
<1>4. ASSUME Ends(q, W, V)
      PROVE  Ends(t, W, V) \/ (Head(q) \in V /\ NoneOf(t, W))
  <2>1. PICK i \in 1 .. Len(q) : q[i] \in V /\ \A j \in i + 1 .. Len(q) : q[j] \notin W
    BY <1>4 DEF Ends
  <2>2. CASE i = 1
    <3>1. \A k \in 1 .. Len(t) : k + 1 \in i + 1 .. Len(q)
      BY <1>1, <2>2
    <3>2. NoneOf(t, W)
      BY <1>1, <2>1, <3>1 DEF NoneOf
    <3>3. QED
      BY <1>1, <2>1, <2>2, <3>2
  <2>3. CASE i # 1
    <3>1. i - 1 \in 1 .. Len(t) /\ t[i - 1] \in V
      BY <1>2, <2>1, <2>3
    <3>2. \A k \in (i - 1) + 1 .. Len(t) : k + 1 \in i + 1 .. Len(q) /\ k \in 1 .. Len(t)
      BY <1>1, <2>3
    <3>3. \A k \in (i - 1) + 1 .. Len(t) : t[k] \notin W
      BY <1>1, <2>1, <3>2
    <3>4. QED
      BY <3>1, <3>3 DEF Ends
  <2>4. QED
    BY <2>2, <2>3
<1>5. ASSUME Ends(t, W, V)
      PROVE  Ends(q, W, V)
  <2>1. PICK i \in 1 .. Len(t) : t[i] \in V /\ \A j \in i + 1 .. Len(t) : t[j] \notin W
    BY <1>5 DEF Ends
  <2>2. i + 1 \in 1 .. Len(q) /\ q[i + 1] \in V
    BY <1>1, <2>1
  <2>3. \A j \in (i + 1) + 1 .. Len(q) : j - 1 \in i + 1 .. Len(t) /\ j \in 1 .. Len(q) /\ j # 1
    BY <1>1, <2>1
  <2>4. \A j \in (i + 1) + 1 .. Len(q) : q[j] \notin W
    BY <1>2, <2>1, <2>3
  <2>5. QED
    BY <2>2, <2>4 DEF Ends
<1>6. ASSUME Head(q) \in V, NoneOf(t, W)
      PROVE  Ends(q, W, V)
  <2>1. \A j \in 1 + 1 .. Len(q) : j \in 1 .. Len(q) /\ j # 1
    BY <1>1
  <2>2. \A j \in 1 + 1 .. Len(q) : q[j] \notin W
    BY <1>2, <1>6, <2>1 DEF NoneOf
  <2>3. QED
    BY <1>1, <1>2, <1>6, <2>2 DEF Ends
<1>7. QED
  BY <1>3, <1>4, <1>5, <1>6 DEF t

LEMMA NoneKept ==
  ASSUME NEW S, NEW q \in Seq(S), NEW W
  PROVE  /\ \A c \in S : NoneOf(Append(q, c), W) <=> NoneOf(q, W) /\ c \notin W
         /\ q # <<>> => (NoneOf(q, W) <=> Head(q) \notin W /\ NoneOf(Tail(q), W))
<1>1. {} \in SUBSET W
  OBVIOUS
<1>2. ASSUME NEW c \in S
      PROVE  NoneOf(Append(q, c), W) <=> NoneOf(q, W) /\ c \notin W
  BY <1>1, AppendEnds
<1>3. ASSUME q # <<>>
      PROVE  NoneOf(q, W) <=> Head(q) \notin W /\ NoneOf(Tail(q), W)
  BY <1>1, <1>3, TailEnds
<1>4. QED
  BY <1>2, <1>3

LEMMA OrderKept ==
  ASSUME NEW S, NEW q \in Seq(S), NEW c \in S, NEW A, NEW B, NoneAfter(q, A, B)
  PROVE  /\ NoneOf(q, A) \/ c \notin B => NoneAfter(Append(q, c), A, B)
         /\ q # <<>> => NoneAfter(Tail(q), A, B) /\ (Head(q) \in A => NoneOf(Tail(q), B))
<1>1. ASSUME NoneOf(q, A) \/ c \notin B
      PROVE  NoneAfter(Append(q, c), A, B)
  <2> DEFINE t == Append(q, c)
  <2>1. /\ Len(q) \in Nat /\ Len(t) = Len(q) + 1 /\ t[Len(q) + 1] = c
        /\ \A i \in 1 .. Len(q) : t[i] = q[i]
    BY AppendProperties
  <2> HIDE DEF t
  <2>2. ASSUME NEW i \in 1 .. Len(t), t[i] \in A, NEW j \in i + 1 .. Len(t)
        PROVE  t[j] \notin B
    <3>1. i \in 1 .. Len(q) /\ q[i] \in A
      BY <2>1, <2>2
    <3>2. CASE j \in i + 1 .. Len(q)
      <4>1. j \in 1 .. Len(q)
        BY <3>1, <3>2
      <4>2. QED
        BY <2>1, <3>1, <3>2, <4>1 DEF NoneAfter
    <3>3. CASE j = Len(q) + 1
      BY <1>1, <2>1, <3>1, <3>3 DEF NoneOf
    <3>4. QED
      BY <2>1, <2>2, <3>2, <3>3
  <2>3. QED
    BY <2>2 DEF NoneAfter, t
<1>2. ASSUME q # <<>>
      PROVE  NoneAfter(Tail(q), A, B) /\ (Head(q) \in A => NoneOf(Tail(q), B))
  <2> DEFINE t == Tail(q)
  <2>1. /\ Len(q) \in Nat \ {0} /\ Head(q) = q[1] /\ Len(t) = Len(q) - 1
        /\ \A i \in 1 .. Len(t) : t[i] = q[i + 1]
    BY <1>2
  <2> HIDE DEF t
  <2>2. ASSUME NEW i \in 1 .. Len(t), t[i] \in A, NEW j \in i + 1 .. Len(t)
        PROVE  t[j] \notin B
    <3>1. i + 1 \in 1 .. Len(q) /\ q[i + 1] \in A /\ j + 1 \in (i + 1) + 1 .. Len(q) /\ t[j] = q[j + 1]
      BY <2>1, <2>2
    <3>2. QED
      BY <3>1 DEF NoneAfter
  <2>3. ASSUME Head(q) \in A, NEW j \in 1 .. Len(t)
        PROVE  t[j] \notin B
    <3>1. 1 \in 1 .. Len(q) /\ j + 1 \in 1 + 1 .. Len(q) /\ t[j] = q[j + 1]
      BY <2>1
    <3>2. QED
      BY <2>1, <2>3, <3>1 DEF NoneAfter
  <2>4. QED
    BY <2>2, <2>3 DEF NoneAfter, NoneOf, t
<1>3. QED
  BY <1>1, <1>2

\* The well-ordering of the naturals, for a set.
LEMMA LeastOf ==
  ASSUME NEW S \in SUBSET Nat, S # {}
  PROVE  \E m \in S : \A k \in S : m <= k
<1> DEFINE R == OpToRel(<, Nat)
<1>1. IsWellFoundedOn(R, Nat)
  BY NatLessThanWellFounded
<1>2. \A x, y \in Nat : y < x => <<y, x>> \in R
  BY DEF OpToRel
<1> HIDE DEF R
<1>3. PICK m \in S : \A k \in S : <<k, m>> \notin R
  BY <1>1, WFMin
<1>4. ASSUME NEW k \in S
      PROVE  m <= k
  <2>1. k \in Nat /\ m \in Nat
    OBVIOUS
  <2>2. ~ (k < m)
    BY <1>2, <1>3, <2>1
  <2>3. QED
    BY <2>1, <2>2
<1>5. QED
  BY <1>4

\* Of the W in q one is the last.
LEMMA EndsSomehow ==
  ASSUME NEW S, NEW q \in Seq(S), NEW W, NEW V \in SUBSET W
  PROVE  NoneOf(q, W) \/ Ends(q, W, V) \/ Ends(q, W, W \ V)
<1> SUFFICES ASSUME ~NoneOf(q, W) PROVE Ends(q, W, V) \/ Ends(q, W, W \ V)
  OBVIOUS
<1>1. Len(q) \in Nat
  OBVIOUS
<1> DEFINE T == {n \in 0 .. Len(q) : Len(q) - n \in 1 .. Len(q) /\ q[Len(q) - n] \in W}
<1>2. T \in SUBSET Nat /\ T # {}
  <2>1. PICK i \in 1 .. Len(q) : q[i] \in W
    BY DEF NoneOf
  <2>2. Len(q) - i \in 0 .. Len(q) /\ Len(q) - (Len(q) - i) = i
    BY <1>1
  <2>3. Len(q) - i \in T
    BY <2>1, <2>2
  <2>4. \A n \in T : n \in Nat
    BY <1>1
  <2> HIDE DEF T
  <2>5. QED
    BY <2>3, <2>4
<1>3. PICK m \in T : \A k \in T : m <= k
  BY <1>2, LeastOf
<1> DEFINE i == Len(q) - m
<1>4. i \in 1 .. Len(q) /\ q[i] \in W
  BY <1>3
<1>5. ASSUME NEW j \in i + 1 .. Len(q), q[j] \in W
      PROVE  FALSE
  <2>1. j \in 1 .. Len(q) /\ Len(q) - j \in 0 .. Len(q) /\ Len(q) - (Len(q) - j) = j /\ Len(q) - j < m
    BY <1>1, <1>4, <1>3
  <2>2. Len(q) - j \in T
    BY <1>5, <2>1
  <2>3. m \in Nat /\ Len(q) - j \in Nat
    BY <1>2, <2>2
  <2>4. m <= Len(q) - j
    BY <1>3, <2>2
  <2>5. QED
    BY <1>1, <2>1, <2>3, <2>4
<1>6. QED
  BY <1>4, <1>5 DEF Ends

LEMMA EndsMeans ==
  ASSUME NEW q, NEW W, NEW V \in SUBSET W
  PROVE  Ends(q, W, V) => ~NoneOf(q, W)
BY DEF Ends, NoneOf

LEMMA OnlyEnds ==
  ASSUME NEW S, NEW q \in Seq(S), NEW cond \in BOOLEAN, NEW c \in S, NEW W, NEW V \in SUBSET W
  PROVE  /\ q \o Only(cond, c) \in Seq(S)
         /\ NoneOf(q \o Only(cond, c), W) <=> NoneOf(q, W) /\ (cond => c \notin W)
         /\ Ends(q \o Only(cond, c), W, V) <=> (cond /\ c \in V) \/ (Ends(q, W, V) /\ (cond => c \notin W))
<1>1. CASE cond
  <2>1. q \o Only(cond, c) = Append(q, c)
    BY <1>1, AppendIsConcat DEF Only
  <2>2. /\ NoneOf(Append(q, c), W) <=> NoneOf(q, W) /\ c \notin W
        /\ Ends(Append(q, c), W, V) <=> c \in V \/ (c \notin W /\ Ends(q, W, V))
    BY AppendEnds
  <2>3. Append(q, c) \in Seq(S)
    OBVIOUS
  <2>4. QED
    BY <1>1, <2>1, <2>2, <2>3
<1>2. CASE ~cond
  <2>1. q \o Only(cond, c) = q
    BY <1>2, ConcatEmptySeq DEF Only
  <2>2. QED
    BY <1>2, <2>1
<1>3. QED
  BY <1>1, <1>2

-----------------------------------------------------------------------------
(* What is left of a handler of the main thread, by what it is about. *)

GateTasks == {t \in MainTask : t.do \in {"Gate", "Stop"}}
OpenTasks == {t \in MainTask : t.do = "Gate" /\ t.on}
KeyTasks == {t \in MainTask : t.do \in {"TX", "RX", "Abort"}}
TxTasks == {t \in MainTask : t.do = "TX"}
SourceTasks == {t \in MainTask : t.do \in {"Source", "Switch"}}
SourceTask(src) == {t \in SourceTasks : t.src = src}
StopTasks == {t \in MainTask : t.do = "Stop"}

\* What apply() executes, about one thing at a time.
LEMMA StepsEnd ==
  ASSUME NEW e \in Effects, NEW W, NEW V \in SUBSET W
  PROVE  LET source == [do |-> "Source", src |-> e.source]
             switch == [do |-> "Switch", src |-> e.source]
             gate == [do |-> "Gate", on |-> e.gateActive]
             tx == [do |-> "TX"]
             abort == [do |-> "Abort"]
             rx == [do |-> "RX"]
             Last(cond, x, before) == (cond /\ x \in V) \/ (before /\ (cond => x \notin W))
         IN  /\ NoneOf(Steps(e), W) <=>
                   /\ e.setSource /\ e.gateActive => source \notin W
                   /\ e.sendTx => tx \notin W
                   /\ e.setGate => gate \notin W
                   /\ e.abortCw => abort \notin W
                   /\ e.sendRx /\ ~e.abortCw => rx \notin W
                   /\ e.setSource /\ ~e.gateActive => switch \notin W
             /\ Ends(Steps(e), W, V) <=>
                   Last(e.setSource /\ ~e.gateActive, switch,
                     Last(e.sendRx /\ ~e.abortCw, rx,
                       Last(e.abortCw, abort,
                         Last(e.setGate, gate,
                           Last(e.sendTx, tx, e.setSource /\ e.gateActive /\ source \in V)))))
<1> DEFINE x1 == [do |-> "Source", src |-> e.source]
           x2 == [do |-> "TX"]
           x3 == [do |-> "Gate", on |-> e.gateActive]
           x4 == [do |-> "Abort"]
           x5 == [do |-> "RX"]
           x6 == [do |-> "Switch", src |-> e.source]
           c1 == e.setSource /\ e.gateActive
           c2 == e.sendTx
           c3 == e.setGate
           c4 == e.abortCw
           c5 == e.sendRx /\ ~e.abortCw
           c6 == e.setSource /\ ~e.gateActive
           q1 == <<>> \o Only(c1, x1)
           q2 == q1 \o Only(c2, x2)
           q3 == q2 \o Only(c3, x3)
           q4 == q3 \o Only(c4, x4)
           q5 == q4 \o Only(c5, x5)
           q6 == q5 \o Only(c6, x6)
<1>1. /\ x1 \in MainTask /\ x2 \in MainTask /\ x3 \in MainTask
      /\ x4 \in MainTask /\ x5 \in MainTask /\ x6 \in MainTask
  BY DEF Effects, MainTask
<1>2. /\ c1 \in BOOLEAN /\ c2 \in BOOLEAN /\ c3 \in BOOLEAN
      /\ c4 \in BOOLEAN /\ c5 \in BOOLEAN /\ c6 \in BOOLEAN
  BY DEF Effects
<1>3. Steps(e) = q6
  <2>1. Only(c1, x1) \in Seq(MainTask)
    BY <1>1, <1>2, OnlyTyped
  <2>2. q1 = Only(c1, x1)
    BY <2>1, ConcatEmptySeq
  <2>3. QED
    BY <2>2 DEF Steps
<1> HIDE DEF x1, x2, x3, x4, x5, x6, c1, c2, c3, c4, c5, c6
<1>4. <<>> \in Seq(MainTask) /\ NoneOf(<<>>, W) /\ ~Ends(<<>>, W, V)
  BY EmptyEnds
<1>more. \A q \in Seq(MainTask), cond \in BOOLEAN, x \in MainTask :
           /\ q \o Only(cond, x) \in Seq(MainTask)
           /\ NoneOf(q \o Only(cond, x), W) <=> NoneOf(q, W) /\ (cond => x \notin W)
           /\ Ends(q \o Only(cond, x), W, V) <=> (cond /\ x \in V) \/ (Ends(q, W, V) /\ (cond => x \notin W))
  BY OnlyEnds
<1>first. /\ q1 \in Seq(MainTask)
          /\ NoneOf(q1, W) <=> NoneOf(<<>>, W) /\ (c1 => x1 \notin W)
          /\ Ends(q1, W, V) <=> (c1 /\ x1 \in V) \/ (Ends(<<>>, W, V) /\ (c1 => x1 \notin W))
  BY <1>1, <1>2, <1>4, <1>more
<1> HIDE DEF q1
<1>5. /\ q1 \in Seq(MainTask)
      /\ NoneOf(q1, W) <=> (c1 => x1 \notin W)
      /\ Ends(q1, W, V) <=> (c1 /\ x1 \in V)
  BY <1>4, <1>first
<1>6. /\ q2 \in Seq(MainTask)
      /\ NoneOf(q2, W) <=> NoneOf(q1, W) /\ (c2 => x2 \notin W)
      /\ Ends(q2, W, V) <=> (c2 /\ x2 \in V) \/ (Ends(q1, W, V) /\ (c2 => x2 \notin W))
  BY <1>1, <1>2, <1>5, <1>more
<1> HIDE DEF q2
<1>7. /\ q3 \in Seq(MainTask)
      /\ NoneOf(q3, W) <=> NoneOf(q2, W) /\ (c3 => x3 \notin W)
      /\ Ends(q3, W, V) <=> (c3 /\ x3 \in V) \/ (Ends(q2, W, V) /\ (c3 => x3 \notin W))
  BY <1>1, <1>2, <1>6, <1>more
<1> HIDE DEF q3
<1>8. /\ q4 \in Seq(MainTask)
      /\ NoneOf(q4, W) <=> NoneOf(q3, W) /\ (c4 => x4 \notin W)
      /\ Ends(q4, W, V) <=> (c4 /\ x4 \in V) \/ (Ends(q3, W, V) /\ (c4 => x4 \notin W))
  BY <1>1, <1>2, <1>7, <1>more
<1> HIDE DEF q4
<1>9. /\ q5 \in Seq(MainTask)
      /\ NoneOf(q5, W) <=> NoneOf(q4, W) /\ (c5 => x5 \notin W)
      /\ Ends(q5, W, V) <=> (c5 /\ x5 \in V) \/ (Ends(q4, W, V) /\ (c5 => x5 \notin W))
  BY <1>1, <1>2, <1>8, <1>more
<1> HIDE DEF q5
<1>10. /\ NoneOf(q6, W) <=> NoneOf(q5, W) /\ (c6 => x6 \notin W)
       /\ Ends(q6, W, V) <=> (c6 /\ x6 \in V) \/ (Ends(q5, W, V) /\ (c6 => x6 \notin W))
  BY <1>1, <1>2, <1>9, <1>more
<1> HIDE DEF q6
<1>11. /\ NoneOf(q6, W) <=> /\ c1 => x1 \notin W
                            /\ c2 => x2 \notin W
                            /\ c3 => x3 \notin W
                            /\ c4 => x4 \notin W
                            /\ c5 => x5 \notin W
                            /\ c6 => x6 \notin W
  BY <1>5, <1>6, <1>7, <1>8, <1>9, <1>10
<1> DEFINE Last(cond, x, before) == (cond /\ x \in V) \/ (before /\ (cond => x \notin W))
<1>12. Ends(q6, W, V) <=> Last(c6, x6, Last(c5, x5, Last(c4, x4, Last(c3, x3, Last(c2, x2, c1 /\ x1 \in V)))))
  BY <1>5, <1>6, <1>7, <1>8, <1>9, <1>10
<1>13. QED
  BY <1>3, <1>11, <1>12 DEF x1, x2, x3, x4, x5, x6, c1, c2, c3, c4, c5, c6

LEMMA HandlerEnds ==
  ASSUME NEW e \in Effects
  PROVE  /\ NoneOf(Steps(e), GateTasks) <=> ~e.setGate
         /\ Ends(Steps(e), GateTasks, OpenTasks) <=> e.setGate /\ e.gateActive
         /\ NoneOf(Steps(e), KeyTasks) <=> ~e.sendTx /\ ~e.sendRx /\ ~e.abortCw
         /\ Ends(Steps(e), KeyTasks, TxTasks) <=> e.sendTx /\ ~e.sendRx /\ ~e.abortCw
         /\ NoneOf(Steps(e), TxTasks) <=> ~e.sendTx
         /\ NoneOf(Steps(e), SourceTasks) <=> ~e.setSource
         /\ \A src \in AudioSource :
              Ends(Steps(e), SourceTasks, SourceTask(src)) <=> e.setSource /\ e.source = src
         /\ NoneOf(Steps(e), StopTasks)
<1> DEFINE source == [do |-> "Source", src |-> e.source]
           switch == [do |-> "Switch", src |-> e.source]
           gate == [do |-> "Gate", on |-> e.gateActive]
           tx == [do |-> "TX"]
           abort == [do |-> "Abort"]
           rx == [do |-> "RX"]
<1>1. /\ source \in MainTask /\ switch \in MainTask /\ gate \in MainTask
      /\ tx \in MainTask /\ rx \in MainTask /\ abort \in MainTask
  BY DEF Effects, MainTask
<1>2. /\ source.do = "Source" /\ switch.do = "Switch" /\ gate.do = "Gate"
      /\ tx.do = "TX" /\ rx.do = "RX" /\ abort.do = "Abort"
      /\ source.src = e.source /\ switch.src = e.source /\ gate.on = e.gateActive
  OBVIOUS
<1>3. /\ e.setSource \in BOOLEAN /\ e.gateActive \in BOOLEAN /\ e.sendTx \in BOOLEAN
      /\ e.setGate \in BOOLEAN /\ e.abortCw \in BOOLEAN /\ e.sendRx \in BOOLEAN
  BY DEF Effects
<1> HIDE DEF source, switch, gate, tx, abort, rx
<1>4. \A x \in MainTask : /\ x \in GateTasks <=> x.do \in {"Gate", "Stop"}
                          /\ x \in OpenTasks <=> x.do = "Gate" /\ x.on
                          /\ x \in KeyTasks <=> x.do \in {"TX", "RX", "Abort"}
                          /\ x \in TxTasks <=> x.do = "TX"
                          /\ x \in SourceTasks <=> x.do \in {"Source", "Switch"}
                          /\ x \in StopTasks <=> x.do = "Stop"
  BY DEF GateTasks, OpenTasks, KeyTasks, TxTasks, SourceTasks, StopTasks
<1>5. \A src : \A x \in MainTask : x \in SourceTask(src) <=> x.do \in {"Source", "Switch"} /\ x.src = src
  BY DEF SourceTasks, SourceTask
<1> DEFINE None(W) == /\ e.setSource /\ e.gateActive => source \notin W
                      /\ e.sendTx => tx \notin W
                      /\ e.setGate => gate \notin W
                      /\ e.abortCw => abort \notin W
                      /\ e.sendRx /\ ~e.abortCw => rx \notin W
                      /\ e.setSource /\ ~e.gateActive => switch \notin W
           Last(cond, x, before, W, V) == (cond /\ x \in V) \/ (before /\ (cond => x \notin W))
           End(W, V) == Last(e.setSource /\ ~e.gateActive, switch,
                          Last(e.sendRx /\ ~e.abortCw, rx,
                            Last(e.abortCw, abort,
                              Last(e.setGate, gate,
                                Last(e.sendTx, tx, e.setSource /\ e.gateActive /\ source \in V, W, V),
                              W, V), W, V), W, V), W, V)
<1>6. ASSUME NEW W, NEW V \in SUBSET W
      PROVE  (NoneOf(Steps(e), W) <=> None(W)) /\ (Ends(Steps(e), W, V) <=> End(W, V))
  BY StepsEnd DEF source, switch, gate, tx, abort, rx
<1>7. /\ OpenTasks \subseteq GateTasks /\ TxTasks \subseteq KeyTasks
      /\ \A src : SourceTask(src) \subseteq SourceTasks
  BY DEF GateTasks, OpenTasks, KeyTasks, TxTasks, SourceTask
<1>8. /\ NoneOf(Steps(e), GateTasks) <=> None(GateTasks)
      /\ Ends(Steps(e), GateTasks, OpenTasks) <=> End(GateTasks, OpenTasks)
      /\ NoneOf(Steps(e), KeyTasks) <=> None(KeyTasks)
      /\ Ends(Steps(e), KeyTasks, TxTasks) <=> End(KeyTasks, TxTasks)
      /\ NoneOf(Steps(e), TxTasks) <=> None(TxTasks)
      /\ NoneOf(Steps(e), SourceTasks) <=> None(SourceTasks)
      /\ NoneOf(Steps(e), StopTasks) <=> None(StopTasks)
  BY <1>6, <1>7
<1>9. ASSUME NEW src \in AudioSource
      PROVE  Ends(Steps(e), SourceTasks, SourceTask(src)) <=> e.setSource /\ e.source = src
  <2>1. Ends(Steps(e), SourceTasks, SourceTask(src)) <=> End(SourceTasks, SourceTask(src))
    BY <1>6, <1>7
  <2>2. End(SourceTasks, SourceTask(src)) <=> e.setSource /\ e.source = src
    BY <1>1, <1>2, <1>3, <1>4, <1>5
  <2>3. QED
    BY <2>1, <2>2
<1>10. (None(GateTasks) <=> ~e.setGate) /\ (End(GateTasks, OpenTasks) <=> e.setGate /\ e.gateActive)
  BY <1>1, <1>2, <1>3, <1>4
<1>11. /\ None(KeyTasks) <=> ~e.sendTx /\ ~e.sendRx /\ ~e.abortCw
       /\ End(KeyTasks, TxTasks) <=> e.sendTx /\ ~e.sendRx /\ ~e.abortCw
       /\ None(TxTasks) <=> ~e.sendTx
  BY <1>1, <1>2, <1>3, <1>4
<1>12. (None(SourceTasks) <=> ~e.setSource) /\ None(StopTasks)
  BY <1>1, <1>2, <1>3, <1>4
<1>13. QED
  BY <1>8, <1>9, <1>10, <1>11, <1>12

-----------------------------------------------------------------------------
(* What is posted to the other threads, by what it is about. *)

GateCalls == {c \in TxCall : c.kind \in {"Gate", "Stop"}}
OpenCalls == {c \in TxCall : c.kind = "Gate" /\ c.on}
OpenFor(n) == {c \in OpenCalls : c.ep = n}
GateFor(n) == {c \in TxCall : c.kind = "Gate" /\ c.ep = n}
MicCalls == {c \in TxCall : c.kind \in {"Gate", "Stop", "Reconcile"}}
StopCalls == {c \in TxCall : c.kind = "Stop"}
SwitchCalls == {c \in TxCall : c.kind = "Switch" /\ c.current}
SwitchCall(src) == {c \in SwitchCalls : c.src = src}
KeyCalls == {c \in IoCall : c.kind \in {"TX", "RX", "Abort"}}
TxCalls == {c \in IoCall : c.kind = "TX"}
AudioFor(n) == {c \in IoCall : c.kind = "Audio" /\ c.ep = n}
Losses == {m \in Event : m.kind = "Lost"}

\* A source write touches no call but the switches, and none of them counts any longer.
LEMMA SupersededEnds ==
  ASSUME txQ \in Seq(TxCall), NEW W, \A c \in TxCall : c \in W => c.kind # "Switch", NEW V \in SUBSET W
  PROVE  /\ NoneOf(Superseded, W) <=> NoneOf(txQ, W)
         /\ Ends(Superseded, W, V) <=> Ends(txQ, W, V)
<1>1. /\ Superseded \in Seq(TxCall) /\ Len(Superseded) = Len(txQ)
      /\ \A i \in 1 .. Len(txQ) :
           /\ Superseded[i].kind = txQ[i].kind
           /\ txQ[i].kind # "Switch" => Superseded[i] = txQ[i]
  BY SupersededTyped
<1>2. Len(txQ) \in Nat
  OBVIOUS
<1>3. ASSUME NEW i \in 1 .. Len(txQ)
      PROVE  (Superseded[i] \in W <=> txQ[i] \in W) /\ (Superseded[i] \in V <=> txQ[i] \in V)
  <2>1. txQ[i] \in TxCall /\ Superseded[i] \in TxCall
    BY <1>1
  <2>2. CASE txQ[i].kind = "Switch"
    BY <1>1, <2>1, <2>2
  <2>3. CASE txQ[i].kind # "Switch"
    BY <1>1, <2>3
  <2>4. QED
    BY <2>2, <2>3
<1>4. NoneOf(Superseded, W) <=> NoneOf(txQ, W)
  BY <1>1, <1>3 DEF NoneOf
<1>5. \A i \in 1 .. Len(txQ) : \A j \in i + 1 .. Len(txQ) : j \in 1 .. Len(txQ)
  BY <1>2
<1>6. ASSUME NEW i \in 1 .. Len(txQ)
      PROVE  (\A j \in i + 1 .. Len(txQ) : Superseded[j] \notin W)
               <=> (\A j \in i + 1 .. Len(txQ) : txQ[j] \notin W)
  BY <1>3, <1>5
<1>7. Ends(Superseded, W, V) <=> Ends(txQ, W, V)
  BY <1>1, <1>3, <1>6 DEF Ends
<1>8. QED
  BY <1>4, <1>7

LEMMA NoSwitchCounts ==
  ASSUME txQ \in Seq(TxCall)
  PROVE  NoneOf(Superseded, SwitchCalls)
<1>1. Len(Superseded) = Len(txQ) /\ DOMAIN txQ = 1 .. Len(txQ)
  BY SupersededTyped
<1>2. ASSUME NEW i \in 1 .. Len(txQ)
      PROVE  Superseded[i] \notin SwitchCalls
  <2>1. Superseded[i] = IF txQ[i].kind = "Switch" THEN [txQ[i] EXCEPT !.current = FALSE] ELSE txQ[i]
    BY <1>1 DEF Superseded
  <2>2. txQ[i] \in TxCall
    BY <1>2
  <2>3. CASE txQ[i].kind = "Switch"
    <3>1. [txQ[i] EXCEPT !.current = FALSE].current = FALSE
      BY <2>2, <2>3 DEF TxCall
    <3>2. QED
      BY <2>1, <2>3, <3>1 DEF SwitchCalls
  <2>4. CASE txQ[i].kind # "Switch"
    BY <2>1, <2>4 DEF SwitchCalls
  <2>5. QED
    BY <2>3, <2>4
<1>3. QED
  BY <1>1, <1>2 DEF NoneOf

\* The loss of the link, on its way to the main thread.
LEMMA LostIs ==
  ASSUME mainQ \in Seq(Event)
  PROVE  LostPending <=> ~NoneOf(mainQ, Losses)
BY DEF LostPending, NoneOf, Losses

LEMMA LostIsNext ==
  ASSUME mainQ' \in Seq(Event)
  PROVE  LostPending' <=> ~NoneOf(mainQ', Losses)
BY DEF LostPending, NoneOf, Losses

-----------------------------------------------------------------------------
(* The steps in which the main thread decides. *)

\* It starts on the effects of a decision, `andThen` behind them.
Decided(r, andThen) ==
  /\ Decision(arb, r) /\ r.e \in Effects
  /\ todo = <<>> /\ todo' = Steps(r.e) \o andThen
  /\ arb' = r.s /\ ep' = NextEpisode(r.s)
  /\ UNCHANGED <<pipe, buf, txQ, link, ioQ, radio, overtaken>>

LEMMA RequestDecides ==
  ASSUME IInv, NEW r, Request(arb, r), Requested(r)
  PROVE  Decided(r, <<>>) /\ mainQ' = mainQ /\ todo' = Steps(r.e)
<1>1. Decision(arb, r)
  BY DEF Decision
<1>2. r.e \in Effects
  BY <1>1, ArbiterReachable, EveryDecisionSound DEF Sound
<1>3. Steps(r.e) \o <<>> = Steps(r.e)
  BY <1>2, StepsTyped, ConcatEmptySeq
<1>4. QED
  BY <1>1, <1>2, <1>3 DEF Decided, Requested, Apply, Idling, ioVars

LEMMA RequestsDecide ==
  ASSUME IInv, Requests
  PROVE  \/ \E r : /\ Decided(r, <<>>) /\ mainQ' = mainQ /\ todo' = Steps(r.e)
                   /\ link \/ r.s.owner \in {"None", arb.owner}
                   /\ r.s.owner = "Xmit" => arb.owner = "None" \/ (Inert(r.e) /\ r.s.owner = arb.owner)
                   /\ r.s.owner = "TciClient" => r.s.route \in {"StreamedFromHere", arb.route}
         \/ CatStopsRadio
<1> DEFINE Fits(r) ==
       /\ link \/ r.s.owner \in {"None", arb.owner}
       /\ r.s.owner = "Xmit" => arb.owner = "None" \/ (Inert(r.e) /\ r.s.owner = arb.owner)
       /\ r.s.owner = "TciClient" => r.s.route \in {"StreamedFromHere", arb.route}
<1>1. Producers \subseteq Producer
  BY ControlAssumption DEF Producer
<1>2. ASSUME NEW r, Request(arb, r), Requested(r), Fits(r)
      PROVE  \E x : Decided(x, <<>>) /\ mainQ' = mainQ /\ todo' = Steps(x.e) /\ Fits(x)
  BY <1>2, RequestDecides
<1> DEFINE Still(r) == r.s.owner = arb.owner /\ r.s.route = arb.route /\ Inert(r.e)
<1>3. Still(Ignore(arb)) /\ Still(Refuse(arb))
  <2>1. /\ Ignore(arb).s = arb /\ Ignore(arb).e.sendTx = FALSE /\ Ignore(arb).e.sendRx = FALSE
        /\ Ignore(arb).e.abortCw = FALSE /\ Ignore(arb).e.setGate = FALSE /\ Ignore(arb).e.setSource = FALSE
    BY DEF Ignore, NoEffects
  <2>2. /\ Refuse(arb).s = arb /\ Refuse(arb).e.sendTx = FALSE /\ Refuse(arb).e.sendRx = FALSE
        /\ Refuse(arb).e.abortCw = FALSE /\ Refuse(arb).e.setGate = FALSE /\ Refuse(arb).e.setSource = FALSE
    BY DEF Refuse, NoEffects
  <2>3. QED
    BY <2>1, <2>2 DEF Inert
<1>4. \A r : Still(r) \/ r.s.owner = "None" => Fits(r)
  OBVIOUS
<1>5. ASSUME NEW site \in CallSites, EngageRequest(site[1], site[2])
      PROVE  \E x : Decided(x, <<>>) /\ mainQ' = mainQ /\ todo' = Steps(x.e) /\ Fits(x)
  <2> DEFINE r == Engage(arb, site[1], site[2])
  <2>1. site[1] \in Producer /\ site[2] \in KeyingRoute
    BY <1>1, <1>5 DEF EngageRequest, CallSites, KeyingRoute, Route
  <2>2. Request(arb, r)
    BY <2>1 DEF Request
  <2>3. site[1] = "TciClient" => site[2] = "StreamedFromHere"
    BY DEF CallSites
  <2>4. Requested(r) /\ link /\ (site[1] = "Xmit" => arb.owner = "None")
    BY <1>5 DEF EngageRequest
  <2>5. r = Transition(arb, site[1], site[2])
    BY <1>5 DEF EngageRequest, Engage
  <2>6. r.s.owner = site[1] /\ r.s.route = site[2]
    BY <2>5 DEF Transition
  <2> HIDE DEF r
  <2>7. Fits(r)
    BY <2>3, <2>4, <2>6
  <2>8. QED
    BY <1>2, <2>2, <2>4, <2>7
<1>6. Transition(arb, "None", "None").s.owner = "None"
  BY DEF Transition
<1>7. ASSUME NEW who \in Owner, Requested(Release(arb, who))
      PROVE  \E x : Decided(x, <<>>) /\ mainQ' = mainQ /\ todo' = Steps(x.e) /\ Fits(x)
  <2> DEFINE r == Release(arb, who)
  <2>1. Still(r) \/ r.s.owner = "None"
    BY <1>3, <1>6 DEF Release
  <2>2. Request(arb, r) /\ Requested(r)
    BY <1>7 DEF Request
  <2> HIDE DEF r
  <2>3. Fits(r)
    BY <1>4, <2>1
  <2>4. QED
    BY <1>2, <2>2, <2>3
<1>8. ASSUME NEW who \in Producers, ReleaseRequest(who)
      PROVE  \E x : Decided(x, <<>>) /\ mainQ' = mainQ /\ todo' = Steps(x.e) /\ Fits(x)
  BY <1>1, <1>7, <1>8 DEF Producer, ReleaseRequest
<1>9. ASSUME XmitStops
      PROVE  \E x : Decided(x, <<>>) /\ mainQ' = mainQ /\ todo' = Steps(x.e) /\ Fits(x)
  BY <1>7, <1>9 DEF XmitStops, IInv, TypeOK, State
<1>10. ASSUME Escape
       PROVE  \E x : Decided(x, <<>>) /\ mainQ' = mainQ /\ todo' = Steps(x.e) /\ Fits(x)
  <2> DEFINE r == OperatorStop(arb)
  <2>1. r.s.owner = "None"
    BY DEF OperatorStop, Transition
  <2>2. Request(arb, r) /\ Requested(r)
    BY <1>10 DEF Escape, Request
  <2> HIDE DEF r
  <2>3. Fits(r)
    BY <1>4, <2>1
  <2>4. QED
    BY <1>2, <2>2, <2>3
<1>11. QED
  BY <1>5, <1>8, <1>9, <1>10 DEF Requests

LEMMA EchoDecides ==
  ASSUME IInv, NEW kind \in {"TX", "RX"}, NEW tx \in BOOLEAN, HearEcho(kind, tx)
  PROVE  /\ mainQ # <<>> /\ Head(mainQ) \notin Losses /\ mainQ' = Tail(mainQ)
         /\ \/ UNCHANGED <<arb, todo, ep, pipe, txQ, link, ioQ, radio>>
            \/ \E r : /\ Decided(r, <<>>) /\ todo' = Steps(r.e)
                      /\ \/ r.s.owner \in {"None", "Radio"}
                         \/ Inert(r.e) /\ r.s.owner = arb.owner /\ r.s.route = arb.route
<1>1. /\ mainQ # <<>> /\ Head(mainQ).kind = kind /\ mainQ' = Tail(mainQ) /\ todo = <<>>
      /\ UNCHANGED <<pipe, buf, txQ, link, ioQ, radio, overtaken>>
  BY DEF HearEcho, Delivered, Idling, ioVars
<1>2. Head(mainQ) \notin Losses
  BY <1>1 DEF Losses
<1>3. CASE rsTx = tx
  BY <1>1, <1>2, <1>3 DEF HearEcho
<1>4. CASE rsTx # tx
  <2> DEFINE r == RadioReports(arb, tx)
  <2>1. Apply(r, <<>>) /\ Decision(arb, r)
    BY <1>4 DEF HearEcho, Decision
  <2>2. r.e \in Effects
    BY <2>1, ArbiterReachable, EveryDecisionSound DEF Sound
  <2>3. Steps(r.e) \o <<>> = Steps(r.e)
    BY <2>2, StepsTyped, ConcatEmptySeq
  <2>4. r.s.owner \in {"None", "Radio"} \/ (Inert(r.e) /\ r.s.owner = arb.owner /\ r.s.route = arb.route)
    <3>1. /\ Ignore(arb).s = arb /\ Ignore(arb).e.sendTx = FALSE /\ Ignore(arb).e.sendRx = FALSE
          /\ Ignore(arb).e.abortCw = FALSE /\ Ignore(arb).e.setGate = FALSE /\ Ignore(arb).e.setSource = FALSE
      BY DEF Ignore, NoEffects
    <3>2. Inert(Ignore(arb).e) /\ Transition(arb, "None", "None").s.owner = "None"
      BY <3>1 DEF Inert, Transition
    <3>3. CASE tx = FALSE
      BY <3>1, <3>2, <3>3 DEF RadioReports, RadioReportsRx
    <3>4. CASE tx = TRUE /\ arb.owner = "None"
      <4>1. r.s.owner = "Radio"
        BY <3>4 DEF RadioReports, RadioReportsTx, Transition
      <4>2. QED
        BY <4>1
    <3>5. CASE tx = TRUE /\ arb.owner # "None"
      <4>1. r.e = Ignore(arb).e /\ r.s = [arb EXCEPT !.radioConfirmed = TRUE]
        BY <3>5 DEF RadioReports, RadioReportsTx, Ignore
      <4>2. r.s.owner = arb.owner /\ r.s.route = arb.route
        BY <4>1 DEF IInv, TypeOK, State
      <4>3. QED
        BY <3>2, <4>1, <4>2
    <3>6. QED
      BY <3>3, <3>4, <3>5
  <2> HIDE DEF r
  <2>5. Decided(r, <<>>) /\ todo' = Steps(r.e)
    BY <1>1, <2>1, <2>2, <2>3 DEF Decided, Apply
  <2>6. QED
    BY <1>1, <1>2, <2>4, <2>5
<1>5. QED
  BY <1>3, <1>4

LEMMA LossDecides ==
  ASSUME IInv, HearLost
  PROVE  /\ mainQ # <<>> /\ Head(mainQ) \in Losses /\ mainQ' = Tail(mainQ)
         /\ \E r : /\ Decided(r, <<[do |-> "Stop"]>>)
                   /\ todo' = Append(Steps(r.e), [do |-> "Stop"])
                   /\ r.s.owner = "None" /\ r.s.route = "None"
<1> DEFINE r == ReleaseAll(arb)
<1>1. /\ mainQ # <<>> /\ Head(mainQ).kind = "Lost" /\ mainQ' = Tail(mainQ) /\ todo = <<>>
      /\ UNCHANGED <<pipe, buf, txQ, link, ioQ, radio, overtaken>>
  BY DEF HearLost, Delivered, Idling, ioVars
<1>2. Head(mainQ) \in Losses
  BY <1>1 DEF Losses, IInv, TypeOK
<1>3. Apply(r, <<[do |-> "Stop"]>>) /\ Decision(arb, r)
  BY DEF HearLost, Decision, Request
<1>4. r.e \in Effects
  BY <1>3, ArbiterReachable, EveryDecisionSound DEF Sound
<1>5. r.s.owner = "None" /\ r.s.route = "None"
  BY DEF ReleaseAll, Ignore, Transition, IInv, TypeOK, Paired
<1> HIDE DEF r
<1>6. Steps(r.e) \o <<[do |-> "Stop"]>> = Append(Steps(r.e), [do |-> "Stop"])
  <2>1. Steps(r.e) \in Seq(MainTask) /\ [do |-> "Stop"] \in MainTask
    BY <1>4, StepsTyped DEF MainTask
  <2>2. QED
    BY <2>1, AppendIsConcat
<1>7. Decided(r, <<[do |-> "Stop"]>>) /\ todo' = Append(Steps(r.e), [do |-> "Stop"])
  BY <1>1, <1>3, <1>4, <1>6 DEF Decided, Apply
<1>8. QED
  BY <1>1, <1>2, <1>5, <1>7

-----------------------------------------------------------------------------
(* The link.  A Disconnected is the last the main thread hears of a session, *)
(* so that nobody can hold a transmitter that is no longer there.            *)

LostLast == ~link /\ mainQ # <<>> => mainQ[Len(mainQ)] \in Losses

LinkInv == LostLast /\ NoHoldOffline

LEMMA RadioPosts ==
  ASSUME IInv, NEW r, r.ep \in Nat, RadioBecomes(r)
  PROVE  mainQ' = mainQ \/ \E c \in Event \ Losses : mainQ' = Append(mainQ, c)
<1>1. Report("TX", r.ep) \in Event \ Losses /\ Report("RX", radio.ep) \in Event \ Losses
  BY DEF Report, Event, Losses, IInv, TypeOK
<1>2. QED
  BY <1>1 DEF RadioBecomes

LEMMA LinkSteps ==
  ASSUME IInv, [Next]_vars
  PROVE  \/ HearEcho("TX", TRUE) \/ HearEcho("RX", FALSE) \/ HearLost
         \/ LinkLost \/ LinkUp
         \/ UNCHANGED <<mainQ, link>> /\ (link \/ arb'.owner \in {"None", arb.owner})
         \/ /\ link /\ UNCHANGED <<link, arb>>
            /\ \E c \in Event \ Losses : mainQ' = Append(mainQ, c)
<1>1. CASE Requests
  <2>1. CASE CatStopsRadio
    BY <2>1 DEF CatStopsRadio, ioVars
  <2>2. CASE ~CatStopsRadio
    <3>1. PICK r : Decided(r, <<>>) /\ mainQ' = mainQ /\ (link \/ r.s.owner \in {"None", arb.owner})
      BY <1>1, <2>2, RequestsDecide
    <3>2. QED
      BY <3>1 DEF Decided
  <2>3. QED
    BY <2>1, <2>2
<1>2. CASE ApplyStep
  BY <1>2 DEF ApplyStep, SetTxSource, PostPttActive, SetTxSourceAfterPtt, SendTxRx, SendAbort,
              StopAudio, MainRuns
<1>3. CASE TxStep
  BY <1>3 DEF TxStep, SetPttActive, SwitchSource, ReconcileMic, StopPipeline, OnlyTx, mainVars, ioVars
<1>4. CASE TakeBlock \/ SendBlock
  BY <1>4 DEF TakeBlock, SendBlock, AudioOnly, mainVars
<1>5. CASE IoStep
  <2>1. UNCHANGED <<link, arb>>
    BY <1>5 DEF IoStep, IoDrops, IoSendsTx, IoSendsRx, IoSendsAudio, OnlyIo, mainVars
  <2>2. CASE IoDrops
    BY <2>1, <2>2 DEF IoDrops
  <2>3. ASSUME NEW r, r.ep \in Nat, RadioBecomes(r), link
        PROVE  \/ UNCHANGED mainQ
               \/ \E c \in Event \ Losses : mainQ' = Append(mainQ, c)
    BY <2>3, RadioPosts
  <2>4. CASE IoSendsTx \/ IoSendsAudio
    <3>1. Head(ioQ) \in IoCall /\ link
      BY <2>4 DEF IoSendsTx, IoSendsAudio, OnlyIo, IInv, TypeOK
    <3>2. Head(ioQ).ep \in Nat
      BY <3>1 DEF IoCall
    <3>3. [radio EXCEPT !.tx = TRUE, !.ep = Head(ioQ).ep].ep = Head(ioQ).ep
      BY DEF IInv, TypeOK
    <3>4. QED
      BY <2>1, <2>3, <2>4, <3>1, <3>2, <3>3 DEF IoSendsTx, IoSendsAudio
  <2>5. CASE IoSendsRx
    BY <2>1, <2>3, <2>5 DEF IoSendsRx, Silent
  <2>6. QED
    BY <1>5, <2>2, <2>4, <2>5 DEF IoStep
<1>6. CASE RadioNoticesSilence \/ RadioKeysItself \/ RadioUnkeysItself
  <2>1. link /\ UNCHANGED <<link, arb>>
    BY <1>6 DEF RadioNoticesSilence, RadioKeysItself, RadioUnkeysItself, OnlyRadio, mainVars
  <2>2. Silent.ep \in Nat /\ [tx |-> TRUE, cat |-> FALSE, ep |-> 0].ep \in Nat
    BY DEF Silent
  <2>3. QED
    BY <1>6, <2>1, <2>2, RadioPosts DEF RadioNoticesSilence, RadioKeysItself, RadioUnkeysItself
<1>7. CASE MicDeviceLost \/ MicAccessAnswered
  BY <1>7 DEF MicDeviceLost, MicAccessAnswered, OnlyTx, mainVars, ioVars
<1>8. CASE UNCHANGED vars
  BY <1>8 DEF vars
<1>9. QED
  BY <1>1, <1>2, <1>3, <1>4, <1>5, <1>6, <1>7, <1>8 DEF Next, MainStep, Environment

LEMMA LostTail ==
  ASSUME NEW q \in Seq(Event), q # <<>>, q[Len(q)] \in Losses
  PROVE  /\ ~NoneOf(q, Losses)
         /\ Tail(q) # <<>> => Tail(q)[Len(Tail(q))] \in Losses
         /\ Head(q) \notin Losses => ~NoneOf(Tail(q), Losses)
<1>1. Len(q) \in 1 .. Len(q) /\ ~NoneOf(q, Losses)
  BY DEF NoneOf
<1>2. Tail(q) # <<>> => Tail(q)[Len(Tail(q))] = q[Len(q)]
  OBVIOUS
<1>3. NoneOf(q, Losses) <=> Head(q) \notin Losses /\ NoneOf(Tail(q), Losses)
  BY NoneKept
<1>4. QED
  BY <1>1, <1>2, <1>3

LEMMA LinkInvNext == ASSUME IInv, IInv', LinkInv, [Next]_vars PROVE LinkInv'
<1>1. /\ LostPending <=> ~NoneOf(mainQ, Losses)
      /\ LostPending' <=> ~NoneOf(mainQ', Losses)
      /\ mainQ \in Seq(Event) /\ link \in BOOLEAN
  BY LostIs, LostIsNext DEF IInv, TypeOK
<1>2. CASE UNCHANGED <<mainQ, link>> /\ (link \/ arb'.owner \in {"None", arb.owner})
  BY <1>1, <1>2 DEF LinkInv, LostLast, NoHoldOffline
<1>3. CASE /\ link /\ UNCHANGED <<link, arb>>
           /\ \E c \in Event \ Losses : mainQ' = Append(mainQ, c)
  BY <1>3 DEF LinkInv, LostLast, NoHoldOffline
<1>4. CASE LinkLost
  <2>1. mainQ' = Append(mainQ, Report("Lost", 0)) /\ Report("Lost", 0) \in Losses /\ Report("Lost", 0) \in Event
    BY <1>4 DEF LinkLost, Report, Losses, Event
  <2>2. mainQ'[Len(mainQ')] \in Losses
    BY <1>1, <2>1
  <2>3. NoneOf(Append(mainQ, Report("Lost", 0)), Losses) <=> NoneOf(mainQ, Losses) /\ Report("Lost", 0) \notin Losses
    BY <1>1, <2>1, NoneKept
  <2>4. QED
    BY <1>1, <2>1, <2>2, <2>3 DEF LinkInv, LostLast, NoHoldOffline
<1>5. CASE LinkUp
  BY <1>5 DEF LinkUp, LinkInv, LostLast, NoHoldOffline
<1>6. CASE HearLost
  <2>1. PICK r : Decided(r, <<[do |-> "Stop"]>>) /\ r.s.owner = "None"
    BY <1>6, LossDecides
  <2>2. arb'.owner = "None" /\ link' = link /\ mainQ # <<>> /\ mainQ' = Tail(mainQ)
    BY <1>6, <2>1, LossDecides DEF Decided
  <2>3. CASE link
    BY <2>2, <2>3 DEF LinkInv, LostLast, NoHoldOffline
  <2>4. CASE ~link
    <3>1. mainQ[Len(mainQ)] \in Losses
      BY <2>2, <2>4 DEF LinkInv, LostLast
    <3>2. QED
      BY <1>1, <2>2, <3>1, LostTail DEF LinkInv, LostLast, NoHoldOffline
  <2>5. QED
    BY <2>3, <2>4
<1>7. ASSUME NEW kind \in {"TX", "RX"}, NEW tx \in BOOLEAN, HearEcho(kind, tx)
      PROVE  LinkInv'
  <2>1. link' = link /\ mainQ # <<>> /\ mainQ' = Tail(mainQ) /\ Head(mainQ) \notin Losses
    BY <1>7, EchoDecides DEF HearEcho, Delivered, ioVars
  <2>2. CASE link
    BY <2>1, <2>2 DEF LinkInv, LostLast, NoHoldOffline
  <2>3. CASE ~link
    <3>1. mainQ[Len(mainQ)] \in Losses
      BY <2>1, <2>3 DEF LinkInv, LostLast
    <3>2. ~NoneOf(mainQ', Losses) /\ (mainQ' # <<>> => mainQ'[Len(mainQ')] \in Losses)
      BY <1>1, <2>1, <3>1, LostTail
    <3>3. QED
      BY <1>1, <3>2 DEF LinkInv, LostLast, NoHoldOffline
  <2>4. QED
    BY <2>2, <2>3
<1>8. QED
  BY <1>2, <1>3, <1>4, <1>5, <1>6, <1>7, LinkSteps

-----------------------------------------------------------------------------
(* What a step does to the queues. *)

LEMMA TaskDone ==
  ASSUME IInv, NEW what, Doing(what), NEW W, NEW V \in SUBSET W
  PROVE  /\ Head(todo) \in MainTask /\ Head(todo).do = what
         /\ NoneOf(todo, W) <=> Head(todo) \notin W /\ NoneOf(todo', W)
         /\ Ends(todo, W, V) <=> Ends(todo', W, V) \/ (Head(todo) \in V /\ NoneOf(todo', W))
<1>1. todo \in Seq(MainTask) /\ todo # <<>> /\ todo' = Tail(todo) /\ Head(todo).do = what
  BY DEF Doing, IInv, TypeOK
<1>2. Head(todo) \in MainTask
  BY <1>1
<1>3. /\ NoneOf(todo, W) <=> Head(todo) \notin W /\ NoneOf(Tail(todo), W)
      /\ Ends(todo, W, V) <=> Ends(Tail(todo), W, V) \/ (Head(todo) \in V /\ NoneOf(Tail(todo), W))
  BY <1>1, TailEnds
<1>4. QED
  BY <1>1, <1>2, <1>3

LEMMA CallTaken ==
  ASSUME IInv, NEW kind, Take(kind), NEW W, NEW V \in SUBSET W
  PROVE  /\ Head(txQ) \in TxCall /\ Head(txQ).kind = kind /\ Tail(txQ) \in Seq(TxCall)
         /\ NoneOf(txQ, W) <=> Head(txQ) \notin W /\ NoneOf(Tail(txQ), W)
         /\ Ends(txQ, W, V) <=> Ends(Tail(txQ), W, V) \/ (Head(txQ) \in V /\ NoneOf(Tail(txQ), W))
<1>1. txQ \in Seq(TxCall) /\ txQ # <<>> /\ Head(txQ).kind = kind
  BY DEF Take, IInv, TypeOK
<1>2. Head(txQ) \in TxCall /\ Tail(txQ) \in Seq(TxCall)
  BY <1>1
<1>3. /\ NoneOf(txQ, W) <=> Head(txQ) \notin W /\ NoneOf(Tail(txQ), W)
      /\ Ends(txQ, W, V) <=> Ends(Tail(txQ), W, V) \/ (Head(txQ) \in V /\ NoneOf(Tail(txQ), W))
  BY <1>1, TailEnds
<1>4. QED
  BY <1>1, <1>2, <1>3

\* A source write, now or later, posts at most a reconcile; nothing else that is posted is touched.
LEMMA SourceWritten ==
  ASSUME IInv, NEW W, \A c \in TxCall : c \in W => c.kind # "Switch", NEW V \in SUBSET W, Reconcile \notin V,
         SetTxSource \/ SetTxSourceAfterPtt \/ SwitchSource
  PROVE  /\ NoneOf(txQ', W) <=> NoneOf(txQ, W) /\ (pipe'.source # pipe.source => Reconcile \notin W)
         /\ Ends(txQ', W, V) <=> Ends(txQ, W, V) /\ (pipe'.source # pipe.source => Reconcile \notin W)
<1>1. txQ \in Seq(TxCall) /\ pipe \in [gate : BOOLEAN, source : AudioSource, mic : BOOLEAN, ep : Nat]
  BY DEF IInv, TypeOK
<1>2. /\ Superseded \in Seq(TxCall)
      /\ NoneOf(Superseded, W) <=> NoneOf(txQ, W)
      /\ Ends(Superseded, W, V) <=> Ends(txQ, W, V)
  BY <1>1, SupersededTyped, SupersededEnds
<1>3. \A q \in Seq(TxCall), cond \in BOOLEAN :
        /\ NoneOf(q \o Only(cond, Reconcile), W) <=> NoneOf(q, W) /\ (cond => Reconcile \notin W)
        /\ Ends(q \o Only(cond, Reconcile), W, V) <=> Ends(q, W, V) /\ (cond => Reconcile \notin W)
  <2>1. Reconcile \in TxCall
    BY CallTyped
  <2>2. \A q \in Seq(TxCall), cond \in BOOLEAN :
          /\ NoneOf(q \o Only(cond, Reconcile), W) <=> NoneOf(q, W) /\ (cond => Reconcile \notin W)
          /\ Ends(q \o Only(cond, Reconcile), W, V) <=>
                (cond /\ Reconcile \in V) \/ (Ends(q, W, V) /\ (cond => Reconcile \notin W))
    BY <2>1, OnlyEnds
  <2>3. QED
    BY <2>2
<1>4. CASE SetTxSource
  <2> DEFINE src == Head(todo).src
             changes == pipe.source # src
  <2>1. pipe' = [pipe EXCEPT !.source = src] /\ txQ' = Superseded \o Only(changes, Reconcile)
    BY <1>4 DEF SetTxSource
  <2>2. (pipe'.source # pipe.source <=> changes) /\ changes \in BOOLEAN
    BY <1>1, <2>1
  <2> HIDE DEF changes
  <2>3. QED
    BY <1>2, <1>3, <2>1, <2>2
<1>5. CASE SetTxSourceAfterPtt
  <2>1. txQ' = Append(Superseded, SwitchTo(Head(todo).src)) /\ pipe' = pipe
    BY <1>5 DEF SetTxSourceAfterPtt
  <2>2. Head(todo).src \in AudioSource
    BY <1>5, TaskTyped DEF SetTxSourceAfterPtt, MainTask
  <2>3. SwitchTo(Head(todo).src) \in TxCall /\ SwitchTo(Head(todo).src).kind = "Switch"
    BY <2>2, CallTyped DEF SwitchTo
  <2>4. SwitchTo(Head(todo).src) \notin W
    BY <2>3
  <2>5. \A c \in TxCall : /\ NoneOf(Append(Superseded, c), W) <=> NoneOf(Superseded, W) /\ c \notin W
                          /\ Ends(Append(Superseded, c), W, V) <=> c \in V \/ (c \notin W /\ Ends(Superseded, W, V))
    BY <1>2, AppendEnds
  <2>6. QED
    BY <1>2, <2>1, <2>3, <2>4, <2>5
<1>6. CASE SwitchSource
  <2> DEFINE changes == Head(txQ).current /\ Head(txQ).src # pipe.source
  <2>1. /\ Head(txQ) \in TxCall /\ Head(txQ).kind = "Switch" /\ Tail(txQ) \in Seq(TxCall)
        /\ NoneOf(txQ, W) <=> Head(txQ) \notin W /\ NoneOf(Tail(txQ), W)
        /\ Ends(txQ, W, V) <=> Ends(Tail(txQ), W, V) \/ (Head(txQ) \in V /\ NoneOf(Tail(txQ), W))
    BY <1>6, CallTaken DEF SwitchSource
  <2>2. Head(txQ) \notin W /\ Head(txQ).current \in BOOLEAN
    BY <2>1 DEF TxCall
  <2>3. pipe' = (IF changes THEN [pipe EXCEPT !.source = Head(txQ).src] ELSE pipe)
        /\ txQ' = Tail(txQ) \o Only(changes, Reconcile)
    BY <1>6 DEF SwitchSource
  <2>4. (pipe'.source # pipe.source <=> changes) /\ changes \in BOOLEAN
    BY <1>1, <2>2, <2>3
  <2> HIDE DEF changes
  <2>5. QED
    BY <1>3, <2>1, <2>2, <2>3, <2>4
<1>7. QED
  BY <1>4, <1>5, <1>6

\* Only hearing of it removes a Disconnected; only losing the link posts one.
LEMMA LossKept ==
  ASSUME IInv, IInv', [Next]_vars
  PROVE  /\ LostPending /\ ~HearLost => LostPending'
         /\ LostPending' => LostPending \/ LinkLost
<1>1. /\ LostPending <=> ~NoneOf(mainQ, Losses)
      /\ LostPending' <=> ~NoneOf(mainQ', Losses)
      /\ mainQ \in Seq(Event)
  BY LostIs, LostIsNext DEF IInv, TypeOK
<1>2. CASE UNCHANGED mainQ
  BY <1>1, <1>2
<1>3. ASSUME NEW c \in Event \ Losses, mainQ' = Append(mainQ, c)
      PROVE  LostPending <=> LostPending'
  BY <1>1, <1>3, NoneKept
<1>4. CASE LinkLost
  <2>1. mainQ' = Append(mainQ, Report("Lost", 0)) /\ Report("Lost", 0) \in Event
    BY <1>4 DEF LinkLost, Report, Event
  <2>2. NoneOf(Append(mainQ, Report("Lost", 0)), Losses) => NoneOf(mainQ, Losses)
    BY <1>1, <2>1, NoneKept
  <2>3. QED
    BY <1>1, <1>4, <2>1, <2>2
<1>5. CASE LinkUp
  BY <1>1, <1>5 DEF LinkUp
<1>6. ASSUME mainQ # <<>>, mainQ' = Tail(mainQ)
      PROVE  (LostPending' => LostPending) /\ (Head(mainQ) \notin Losses => (LostPending => LostPending'))
  BY <1>1, <1>6, NoneKept
<1>7. CASE HearLost
  BY <1>6, <1>7, LossDecides
<1>8. ASSUME NEW kind \in {"TX", "RX"}, NEW tx \in BOOLEAN, HearEcho(kind, tx)
      PROVE  LostPending <=> LostPending'
  BY <1>6, <1>8, EchoDecides
<1>9. QED
  BY <1>2, <1>3, <1>4, <1>5, <1>7, <1>8, LinkSteps

LEMMA NotHearing == ASSUME IInv, UNCHANGED mainQ PROVE ~HearLost
<1>1. mainQ # <<>> => Tail(mainQ) # mainQ
  BY DEF IInv, TypeOK
<1>2. QED
  BY <1>1, LossDecides

-----------------------------------------------------------------------------
(* The gate.  Whatever is posted and whatever is still to be posted, the    *)
(* last word is that it is open if and only if the holder streams.          *)

GatePosted == Ends(txQ, GateCalls, OpenCalls) \/ (NoneOf(txQ, GateCalls) /\ pipe.gate)

GateWillOpen == Ends(todo, GateTasks, OpenTasks) \/ (NoneOf(todo, GateTasks) /\ GatePosted)

GateInv == ~LostPending => (GateWillOpen <=> NeedsGate(arb.route))

\* A decision of the arbiter leads the gate to the new route.
LEMMA GateDecided ==
  ASSUME IInv, GateInv, NEW r, Decided(r, <<>>), todo' = Steps(r.e), ~LostPending
  PROVE  GateWillOpen' <=> NeedsGate(arb'.route)
<1>1. Balanced(arb, r) /\ r.e \in Effects
  BY ArbiterReachable, EveryDecisionSound DEF Decided
<1>2. /\ todo = <<>> /\ arb' = r.s /\ todo' = Steps(r.e)
      /\ (GatePosted' <=> GatePosted)
  BY DEF Decided, GatePosted
<1>3. NoneOf(todo, GateTasks) /\ ~Ends(todo, GateTasks, OpenTasks)
  BY <1>2, EmptyEnds
<1>4. /\ NoneOf(todo', GateTasks) <=> ~r.e.setGate
      /\ Ends(todo', GateTasks, OpenTasks) <=> r.e.setGate /\ r.e.gateActive
  BY <1>1, <1>2, HandlerEnds
<1>5. GatePosted <=> NeedsGate(arb.route)
  BY <1>3 DEF GateInv, GateWillOpen
<1>6. /\ r.e.setGate <=> ~(NeedsGate(arb.route) <=> NeedsGate(r.s.route))
      /\ r.e.gateActive <=> ~NeedsGate(arb.route) /\ NeedsGate(r.s.route)
  <2>1. NeedsGate(arb.route) \in BOOLEAN /\ NeedsGate(r.s.route) \in BOOLEAN
    BY DEF NeedsGate
  <2>2. /\ r.e.setGate = (NeedsGate(arb.route) # NeedsGate(r.s.route))
        /\ r.e.gateActive = (~NeedsGate(arb.route) /\ NeedsGate(r.s.route))
    BY <1>1 DEF Balanced
  <2>3. QED
    BY <2>1, <2>2
<1>7. QED
  BY <1>2, <1>4, <1>5, <1>6 DEF GateWillOpen

LEMMA GateInvNext == ASSUME IInv, IInv', LinkInv, GateInv, [Next]_vars PROVE GateInv'
<1>1. /\ OpenTasks \in SUBSET GateTasks /\ OpenCalls \in SUBSET GateCalls
      /\ \A c \in TxCall : c \in GateCalls => c.kind # "Switch"
      /\ Reconcile \notin GateCalls /\ Reconcile \notin OpenCalls
      /\ todo \in Seq(MainTask) /\ txQ \in Seq(TxCall)
  BY DEF OpenTasks, GateTasks, OpenCalls, GateCalls, Reconcile, IInv, TypeOK
<1>2. LostPending /\ ~HearLost => LostPending'
  BY LossKept
<1>3. ASSUME ~HearLost, UNCHANGED arb, ~LostPending => (GateWillOpen' <=> GateWillOpen)
      PROVE  GateInv'
  BY <1>2, <1>3 DEF GateInv
<1>4. ASSUME NEW r, Decided(r, <<>>), todo' = Steps(r.e), ~HearLost
      PROVE  GateInv'
  BY <1>2, <1>4, GateDecided DEF GateInv
<1>5. ASSUME UNCHANGED <<arb, todo>>, GatePosted' <=> GatePosted, ~HearLost
      PROVE  GateInv'
  <2>1. GateWillOpen' <=> GateWillOpen
    BY <1>5 DEF GateWillOpen
  <2>2. QED
    BY <1>3, <1>5, <2>1
<1>6. CASE HearLost
  <2>1. PICK r : /\ Decided(r, <<[do |-> "Stop"]>>) /\ todo' = Append(Steps(r.e), [do |-> "Stop"])
                 /\ r.s.route = "None"
    BY <1>6, LossDecides
  <2> DEFINE stop == [do |-> "Stop"]
  <2>2. Steps(r.e) \in Seq(MainTask) /\ stop \in MainTask /\ stop \in GateTasks /\ stop \notin OpenTasks
    BY <2>1, StepsTyped DEF Decided, MainTask, GateTasks, OpenTasks
  <2>3. ~NoneOf(todo', GateTasks) /\ ~Ends(todo', GateTasks, OpenTasks)
    <3>1. \A q \in Seq(MainTask), c \in MainTask :
            /\ NoneOf(Append(q, c), GateTasks) <=> NoneOf(q, GateTasks) /\ c \notin GateTasks
            /\ Ends(Append(q, c), GateTasks, OpenTasks)
                 <=> c \in OpenTasks \/ (c \notin GateTasks /\ Ends(q, GateTasks, OpenTasks))
      BY <1>1, AppendEnds
    <3>2. QED
      BY <2>1, <2>2, <3>1
  <2>4. ~NeedsGate(arb'.route)
    BY <2>1 DEF Decided, NeedsGate
  <2>5. QED
    BY <2>3, <2>4 DEF GateInv, GateWillOpen
<1>7. ASSUME NEW kind \in {"TX", "RX"}, NEW tx \in BOOLEAN, HearEcho(kind, tx)
      PROVE  GateInv'
  <2>1. ~HearLost
    BY <1>7 DEF HearLost, HearEcho, Delivered
  <2>2. CASE UNCHANGED <<arb, todo, ep, pipe, txQ, link, ioQ, radio>>
    BY <1>5, <2>1, <2>2 DEF GatePosted
  <2>3. CASE ~UNCHANGED <<arb, todo, ep, pipe, txQ, link, ioQ, radio>>
    BY <1>4, <1>7, <2>1, <2>3, EchoDecides
  <2>4. QED
    BY <2>2, <2>3
<1>8. CASE Requests
  <2>1. ~HearLost
    BY <1>8, RequestsDecide, NotHearing DEF CatStopsRadio
  <2>2. CASE CatStopsRadio
    <3>1. todo = <<>> /\ todo' = <<[do |-> "RX"]>> /\ UNCHANGED <<arb, pipe, txQ>>
      BY <2>2 DEF CatStopsRadio, Idling
    <3>2. NoneOf(todo, GateTasks) /\ ~Ends(todo, GateTasks, OpenTasks)
      BY <3>1, EmptyEnds
    <3>3. NoneOf(todo', GateTasks) /\ ~Ends(todo', GateTasks, OpenTasks)
      BY <3>1 DEF NoneOf, Ends, GateTasks, OpenTasks
    <3>4. QED
      BY <1>3, <2>1, <3>1, <3>2, <3>3 DEF GateWillOpen, GatePosted
  <2>3. CASE ~CatStopsRadio
    BY <1>4, <1>8, <2>1, <2>3, RequestsDecide
  <2>4. QED
    BY <2>2, <2>3
<1>9. CASE ApplyStep
  <2>0. ~HearLost /\ UNCHANGED <<arb, mainQ, link>>
    BY <1>9 DEF ApplyStep, SetTxSource, PostPttActive, SetTxSourceAfterPtt, SendTxRx, SendAbort,
                StopAudio, MainRuns, Doing, HearLost, Delivered, Idling
  <2>1. ASSUME NEW what, Doing(what)
        PROVE  /\ Head(todo) \in MainTask /\ Head(todo).do = what
               /\ NoneOf(todo, GateTasks) <=> Head(todo) \notin GateTasks /\ NoneOf(todo', GateTasks)
               /\ Ends(todo, GateTasks, OpenTasks)
                    <=> Ends(todo', GateTasks, OpenTasks) \/ (Head(todo) \in OpenTasks /\ NoneOf(todo', GateTasks))
    BY <1>1, <2>1, TaskDone
  <2>2. ASSUME NEW what \in {"Source", "Switch", "TX", "RX", "Abort"}, Doing(what), GatePosted' <=> GatePosted
        PROVE  GateInv'
    <3>1. Head(todo) \notin GateTasks /\ Head(todo) \notin OpenTasks
      BY <2>1, <2>2 DEF GateTasks, OpenTasks
    <3>2. QED
      BY <1>3, <2>0, <2>1, <2>2, <3>1 DEF GateWillOpen
  <2>3. CASE SetTxSource \/ SetTxSourceAfterPtt
    <3>1. (NoneOf(txQ', GateCalls) <=> NoneOf(txQ, GateCalls))
          /\ (Ends(txQ', GateCalls, OpenCalls) <=> Ends(txQ, GateCalls, OpenCalls))
      BY <1>1, <2>3, SourceWritten
    <3>2. pipe'.gate = pipe.gate
      BY <2>3 DEF SetTxSource, SetTxSourceAfterPtt, IInv, TypeOK
    <3>3. QED
      BY <2>2, <2>3, <3>1, <3>2 DEF GatePosted, SetTxSource, SetTxSourceAfterPtt
  <2>4. CASE SendTxRx \/ SendAbort
    <3>1. GatePosted' <=> GatePosted
      BY <2>4 DEF GatePosted, SendTxRx, SendAbort
    <3>2. QED
      BY <2>2, <2>4, <3>1 DEF SendTxRx, SendAbort
  <2>5. CASE PostPttActive
    <3> DEFINE on == Head(todo).on
               c == Gate(on)
    <3>1. Head(todo) \in MainTask /\ Head(todo).do = "Gate" /\ Head(todo).on \in BOOLEAN
      BY <2>1, <2>5 DEF PostPttActive, MainTask
    <3>2. Head(todo) \in GateTasks /\ (Head(todo) \in OpenTasks <=> on)
      BY <3>1 DEF GateTasks, OpenTasks
    <3>3. c \in TxCall /\ c \in GateCalls /\ (c \in OpenCalls <=> on)
      BY <3>1, CallTyped DEF Gate, GateCalls, OpenCalls, IInv, TypeOK
    <3>4. pipe' = pipe /\ txQ' = IF on /\ ~link THEN txQ ELSE Append(txQ, c)
      BY <2>5 DEF PostPttActive
    <3> HIDE DEF c, on
    <3>5. /\ NoneOf(todo, GateTasks) <=> FALSE
          /\ Ends(todo, GateTasks, OpenTasks) <=> Ends(todo', GateTasks, OpenTasks) \/ (on /\ NoneOf(todo', GateTasks))
      BY <2>1, <2>5, <3>2 DEF PostPttActive
    <3>6. CASE ~(on /\ ~link)
      <4>1. /\ NoneOf(txQ', GateCalls) <=> NoneOf(txQ, GateCalls) /\ c \notin GateCalls
            /\ Ends(txQ', GateCalls, OpenCalls)
                 <=> c \in OpenCalls \/ (c \notin GateCalls /\ Ends(txQ, GateCalls, OpenCalls))
        BY <1>1, <3>3, <3>4, <3>6, AppendEnds
      <4>2. GatePosted' <=> on
        BY <3>3, <4>1 DEF GatePosted
      <4>3. QED
        BY <1>3, <2>0, <3>5, <4>2 DEF GateWillOpen
    <3>7. CASE on /\ ~link /\ ~LostPending
      <4>1. arb.owner = "None" /\ Paired(arb)
        BY <3>7 DEF LinkInv, NoHoldOffline, IInv, TypeOK
      <4>2. ~NeedsGate(arb.route)
        BY <4>1 DEF Paired, NeedsGate
      <4>3. ~Ends(todo', GateTasks, OpenTasks) /\ ~NoneOf(todo', GateTasks)
        BY <3>5, <3>7, <4>2 DEF GateInv, GateWillOpen
      <4>4. QED
        BY <1>3, <2>0, <3>5, <3>7, <4>3 DEF GateWillOpen
    <3>8. QED
      BY <1>2, <2>0, <3>6, <3>7 DEF GateInv
  <2>6. CASE StopAudio
    <3>0. Head(todo) \in MainTask /\ Head(todo).do = "Stop"
      BY <2>1, <2>6 DEF StopAudio
    <3>1. Head(todo) \in GateTasks /\ Head(todo) \notin OpenTasks
      BY <3>0 DEF GateTasks, OpenTasks
    <3>2. Stop \in TxCall /\ Stop \in GateCalls /\ Stop \notin OpenCalls
      BY CallTyped DEF Stop, GateCalls, OpenCalls
    <3>3. txQ' = Append(txQ, Stop) /\ pipe' = pipe
      BY <2>6 DEF StopAudio
    <3>4. /\ NoneOf(txQ', GateCalls) <=> NoneOf(txQ, GateCalls) /\ Stop \notin GateCalls
          /\ Ends(txQ', GateCalls, OpenCalls)
               <=> Stop \in OpenCalls \/ (Stop \notin GateCalls /\ Ends(txQ, GateCalls, OpenCalls))
      BY <1>1, <3>2, <3>3, AppendEnds
    <3>5. ~GatePosted'
      BY <3>2, <3>4 DEF GatePosted
    <3>6. QED
      BY <1>3, <2>0, <2>1, <2>6, <3>1, <3>5 DEF GateWillOpen, StopAudio
  <2>7. QED
    BY <1>9, <2>3, <2>4, <2>5, <2>6 DEF ApplyStep
<1>10. CASE TxStep
  <2>0. ~HearLost /\ UNCHANGED <<arb, todo>>
    BY <1>10, NotHearing DEF TxStep, SetPttActive, SwitchSource, ReconcileMic, StopPipeline, OnlyTx, mainVars
  <2>1. ASSUME NEW kind, Take(kind)
        PROVE  /\ Head(txQ) \in TxCall /\ Head(txQ).kind = kind
               /\ NoneOf(txQ, GateCalls) <=> Head(txQ) \notin GateCalls /\ NoneOf(Tail(txQ), GateCalls)
               /\ Ends(txQ, GateCalls, OpenCalls)
                    <=> \/ Ends(Tail(txQ), GateCalls, OpenCalls)
                        \/ Head(txQ) \in OpenCalls /\ NoneOf(Tail(txQ), GateCalls)
    BY <1>1, <2>1, CallTaken
  <2>2. \A p \in [gate : BOOLEAN, source : AudioSource, mic : BOOLEAN, ep : Nat] :
           \A x \in Reconciled(p) : x.gate = p.gate
    BY DEF Reconciled
  <2>3. CASE SetPttActive
    <3>0. Head(txQ) \in TxCall /\ Head(txQ).kind = "Gate"
      BY <2>1, <2>3 DEF SetPttActive
    <3>1. /\ Head(txQ) \in GateCalls /\ (Head(txQ) \in OpenCalls <=> Head(txQ).on)
          /\ Head(txQ).on \in BOOLEAN /\ Head(txQ).ep \in Nat
      BY <3>0 DEF GateCalls, OpenCalls, TxCall
    <3> DEFINE p == [pipe EXCEPT !.gate = Head(txQ).on, !.ep = IF Head(txQ).on THEN Head(txQ).ep ELSE 0]
    <3>2. p \in [gate : BOOLEAN, source : AudioSource, mic : BOOLEAN, ep : Nat] /\ p.gate = Head(txQ).on
      BY <3>1 DEF IInv, TypeOK
    <3>3. pipe' \in Reconciled(p) /\ txQ' = Tail(txQ)
      BY <2>3 DEF SetPttActive
    <3> HIDE DEF p
    <3>4. pipe'.gate = Head(txQ).on
      BY <2>2, <3>2, <3>3
    <3>5. GatePosted' <=> GatePosted
      BY <2>1, <2>3, <3>1, <3>3, <3>4 DEF GatePosted, SetPttActive
    <3>6. QED
      BY <1>5, <2>0, <3>5
  <2>4. CASE StopPipeline
    <3>0. Head(txQ) \in TxCall /\ Head(txQ).kind = "Stop"
      BY <2>1, <2>4 DEF StopPipeline
    <3>1. Head(txQ) \in GateCalls /\ Head(txQ) \notin OpenCalls
      BY <3>0 DEF GateCalls, OpenCalls
    <3>2. pipe'.gate = FALSE /\ txQ' = Tail(txQ)
      BY <2>4 DEF StopPipeline, Off
    <3>3. GatePosted' <=> GatePosted
      BY <2>1, <2>4, <3>1, <3>2 DEF GatePosted, StopPipeline
    <3>4. QED
      BY <1>5, <2>0, <3>3
  <2>5. CASE SwitchSource
    <3>1. (NoneOf(txQ', GateCalls) <=> NoneOf(txQ, GateCalls))
          /\ (Ends(txQ', GateCalls, OpenCalls) <=> Ends(txQ, GateCalls, OpenCalls))
      BY <1>1, <2>5, SourceWritten
    <3>2. pipe'.gate = pipe.gate
      BY <2>5 DEF SwitchSource, IInv, TypeOK
    <3>3. QED
      BY <1>5, <2>0, <3>1, <3>2 DEF GatePosted
  <2>6. CASE ReconcileMic
    <3> PICK kind \in {"Reconcile", "Access"} : Take(kind)
      BY <2>6 DEF ReconcileMic
    <3>0. Head(txQ).kind = kind /\ txQ' = Tail(txQ)
      BY <2>1, <2>6 DEF ReconcileMic
    <3>1. Head(txQ) \notin GateCalls /\ Head(txQ) \notin OpenCalls
      BY <3>0 DEF GateCalls, OpenCalls
    <3>2. pipe'.gate = pipe.gate
      BY <2>2, <2>6 DEF ReconcileMic, IInv, TypeOK
    <3>3. GatePosted' <=> GatePosted
      BY <2>1, <3>0, <3>1, <3>2 DEF GatePosted
    <3>4. QED
      BY <1>5, <2>0, <3>3
  <2>7. QED
    BY <1>10, <2>3, <2>4, <2>5, <2>6 DEF TxStep
<1>11. CASE TakeBlock \/ SendBlock \/ IoStep \/ Environment \/ UNCHANGED vars
  <2>1. UNCHANGED <<arb, todo>>
    BY <1>11 DEF TakeBlock, SendBlock, AudioOnly, IoStep, IoDrops, IoSendsTx, IoSendsRx, IoSendsAudio, OnlyIo, Environment,
                 RadioNoticesSilence, RadioKeysItself, RadioUnkeysItself, OnlyRadio, LinkLost, LinkUp,
                 MicDeviceLost, MicAccessAnswered, OnlyTx, mainVars, vars
  <2>2. CASE HearLost
    BY <1>6, <2>2
  <2>3. CASE MicAccessAnswered
    <3>1. MicAccess \in TxCall /\ MicAccess \notin GateCalls
      BY CallTyped DEF MicAccess, GateCalls
    <3>2. txQ' = Append(txQ, MicAccess) /\ pipe' = pipe
      BY <2>3 DEF MicAccessAnswered
    <3>3. /\ NoneOf(txQ', GateCalls) <=> NoneOf(txQ, GateCalls)
          /\ Ends(txQ', GateCalls, OpenCalls) <=> Ends(txQ, GateCalls, OpenCalls)
      BY <1>1, <3>1, <3>2, AppendEnds
    <3>4. GatePosted' <=> GatePosted
      BY <1>1, <3>2, <3>3 DEF GatePosted
    <3>5. QED
      BY <1>5, <1>6, <2>1, <3>4
  <2>4. CASE ~MicAccessAnswered
    <3>1. txQ' = txQ /\ pipe'.gate = pipe.gate
      BY <1>11, <2>4 DEF TakeBlock, SendBlock, AudioOnly, IoStep, IoDrops, IoSendsTx, IoSendsRx, IoSendsAudio, OnlyIo, Environment,
                 RadioNoticesSilence, RadioKeysItself, RadioUnkeysItself, OnlyRadio, LinkLost, LinkUp,
                 MicDeviceLost, vars, IInv, TypeOK
    <3>2. GatePosted' <=> GatePosted
      BY <3>1 DEF GatePosted
    <3>3. QED
      BY <1>5, <1>6, <2>1, <3>2
  <2>5. QED
    BY <2>3, <2>4
<1>12. QED
  BY <1>6, <1>7, <1>8, <1>9, <1>10, <1>11 DEF Next, MainStep

\* The last word posted to the TX thread, as the property states it.
LEMMA GateIsPosted ==
  ASSUME IInv, NEW open \in BOOLEAN, GatePosted <=> open
  PROVE  GateEndsAs(open)
<1> DEFINE calls == {i \in DOMAIN txQ : txQ[i].kind \in {"Gate", "Stop"}}
<1>1. /\ txQ \in Seq(TxCall) /\ Len(txQ) \in Nat /\ DOMAIN txQ = 1 .. Len(txQ)
      /\ pipe.gate \in BOOLEAN /\ OpenCalls \in SUBSET GateCalls
  BY DEF IInv, TypeOK, OpenCalls, GateCalls
<1>2. ASSUME NEW i \in 1 .. Len(txQ)
      PROVE  /\ i \in calls <=> txQ[i] \in GateCalls
             /\ txQ[i] \in OpenCalls <=> txQ[i].kind = "Gate" /\ txQ[i].on
  <2>1. txQ[i] \in TxCall
    BY <1>1
  <2>2. QED
    BY <1>1, <2>1 DEF GateCalls, OpenCalls
<1>3. \A i \in calls : i \in 1 .. Len(txQ)
  BY <1>1
<1> HIDE DEF calls
<1>4. CASE NoneOf(txQ, GateCalls)
  <2>1. calls = {}
    BY <1>2, <1>3, <1>4 DEF NoneOf
  <2>2. pipe.gate = open
    BY <1>1, <1>4, EndsMeans DEF GatePosted
  <2>3. QED
    BY <2>1, <2>2 DEF GateEndsAs, calls
<1>5. ASSUME NEW V \in SUBSET GateCalls, Ends(txQ, GateCalls, V)
      PROVE  calls # {} /\ \E i \in calls : txQ[i] \in V /\ \A j \in calls : j <= i
  <2>1. PICK i \in 1 .. Len(txQ) : txQ[i] \in V /\ \A j \in i + 1 .. Len(txQ) : txQ[j] \notin GateCalls
    BY <1>5 DEF Ends
  <2>2. i \in calls
    BY <1>2, <1>5, <2>1
  <2>3. ASSUME NEW j \in calls
        PROVE  j <= i
    <3>1. j \in 1 .. Len(txQ) /\ txQ[j] \in GateCalls
      BY <1>2, <1>3
    <3>2. j \notin i + 1 .. Len(txQ)
      BY <2>1, <3>1
    <3>3. QED
      BY <1>1, <3>1, <3>2
  <2>4. QED
    BY <2>1, <2>2, <2>3
<1>6. ASSUME NEW V \in SUBSET GateCalls, Ends(txQ, GateCalls, V), \A c \in V : c \in OpenCalls <=> open
      PROVE  GateEndsAs(open)
  <2>1. calls # {}
    BY <1>5, <1>6
  <2>2. PICK i \in calls : txQ[i] \in V /\ \A j \in calls : j <= i
    BY <1>5, <1>6
  <2>3. (txQ[i].kind = "Gate" /\ txQ[i].on) <=> open
    BY <1>2, <1>3, <1>6, <2>2
  <2>4. open = (txQ[i].kind = "Gate" /\ txQ[i].on)
    BY <2>3
  <2>5. QED
    BY <2>1, <2>2, <2>4 DEF GateEndsAs, calls
<1>7. CASE Ends(txQ, GateCalls, OpenCalls)
  <2>1. open
    BY <1>7 DEF GatePosted
  <2>2. QED
    BY <1>1, <1>6, <1>7, <2>1
<1>8. CASE ~NoneOf(txQ, GateCalls) /\ ~Ends(txQ, GateCalls, OpenCalls)
  <2>1. ~open
    BY <1>8 DEF GatePosted
  <2>2. Ends(txQ, GateCalls, GateCalls \ OpenCalls)
    BY <1>1, <1>8, EndsSomehow
  <2>3. QED
    BY <1>6, <2>1, <2>2
<1>9. QED
  BY <1>4, <1>7, <1>8

-----------------------------------------------------------------------------
(* The key.  A TX; that has been sent, or is still to be sent, is undone by  *)
(* what follows it unless the holder keys the K4 that way.                   *)

KeyPosted == Ends(ioQ, KeyCalls, TxCalls) \/ (NoneOf(ioQ, KeyCalls) /\ radio.cat)

WillBeKeyed == Ends(todo, KeyTasks, TxTasks) \/ (NoneOf(todo, KeyTasks) /\ KeyPosted)

KeyInv ==
  /\ link /\ WillBeKeyed => KeyedByCat(arb.route)
  /\ NoneOf(todo, TxTasks) \/ KeyedByCat(arb.route)
  /\ radio.cat => link

\* A decision of the arbiter leads the key to the new route.
LEMMA KeyDecided ==
  ASSUME IInv, KeyInv, NEW r, NEW andThen, Decided(r, andThen),
         /\ NoneOf(todo', KeyTasks) <=> NoneOf(Steps(r.e), KeyTasks)
         /\ Ends(todo', KeyTasks, TxTasks) <=> Ends(Steps(r.e), KeyTasks, TxTasks)
         /\ NoneOf(todo', TxTasks) <=> NoneOf(Steps(r.e), TxTasks)
  PROVE  KeyInv'
<1>1. Balanced(arb, r) /\ r.e \in Effects
  BY ArbiterReachable, EveryDecisionSound DEF Decided
<1>2. todo = <<>> /\ arb' = r.s /\ UNCHANGED <<ioQ, radio, link>>
  BY DEF Decided
<1>3. NoneOf(todo, KeyTasks)
  BY <1>2, EmptyEnds
<1>4. /\ NoneOf(Steps(r.e), KeyTasks) <=> ~r.e.sendTx /\ ~r.e.sendRx /\ ~r.e.abortCw
      /\ Ends(Steps(r.e), KeyTasks, TxTasks) <=> r.e.sendTx /\ ~r.e.sendRx /\ ~r.e.abortCw
      /\ NoneOf(Steps(r.e), TxTasks) <=> ~r.e.sendTx
  BY <1>1, HandlerEnds
<1>5. /\ r.e.sendTx => KeyedByCat(r.s.route)
      /\ KeyedByCat(arb.route) /\ ~KeyedByCat(r.s.route) => r.e.sendRx \/ r.e.abortCw
  BY <1>1 DEF Balanced
<1>6. KeyPosted' <=> KeyPosted
  BY <1>2 DEF KeyPosted
<1>7. link /\ KeyPosted => KeyedByCat(arb.route)
  BY <1>3 DEF KeyInv, WillBeKeyed
<1>8. /\ link' /\ WillBeKeyed' => KeyedByCat(arb'.route)
      /\ NoneOf(todo', TxTasks) \/ KeyedByCat(arb'.route)
  BY <1>2, <1>4, <1>5, <1>6, <1>7 DEF WillBeKeyed
<1>9. QED
  BY <1>2, <1>8 DEF KeyInv

LEMMA KeyInvNext == ASSUME IInv, IInv', KeyInv, [Next]_vars PROVE KeyInv'
<1>1. /\ TxTasks \in SUBSET KeyTasks /\ TxCalls \in SUBSET KeyCalls
      /\ todo \in Seq(MainTask) /\ txQ \in Seq(TxCall) /\ ioQ \in Seq(IoCall)
      /\ link \in BOOLEAN /\ radio \in [tx : BOOLEAN, cat : BOOLEAN, ep : Nat]
  BY DEF TxTasks, KeyTasks, TxCalls, KeyCalls, IInv, TypeOK
<1>2. ASSUME UNCHANGED <<arb, todo, link>>, KeyPosted' => KeyPosted, radio'.cat => link'
      PROVE  KeyInv'
  <2>1. WillBeKeyed' => WillBeKeyed
    BY <1>2 DEF WillBeKeyed
  <2>2. QED
    BY <1>2, <2>1 DEF KeyInv
<1>3. ASSUME NEW r, Decided(r, <<>>), todo' = Steps(r.e)
      PROVE  KeyInv'
  BY <1>3, KeyDecided
<1>4. CASE HearLost
  <2> DEFINE stop == [do |-> "Stop"]
  <2>1. PICK r : Decided(r, <<stop>>) /\ todo' = Append(Steps(r.e), stop)
    BY <1>4, LossDecides
  <2>2. Steps(r.e) \in Seq(MainTask) /\ stop \in MainTask /\ stop \notin KeyTasks /\ stop \notin TxTasks
    BY <2>1, StepsTyped DEF Decided, MainTask, KeyTasks, TxTasks
  <2>3. \A q \in Seq(MainTask), c \in MainTask :
          /\ NoneOf(Append(q, c), KeyTasks) <=> NoneOf(q, KeyTasks) /\ c \notin KeyTasks
          /\ Ends(Append(q, c), KeyTasks, TxTasks)
               <=> c \in TxTasks \/ (c \notin KeyTasks /\ Ends(q, KeyTasks, TxTasks))
          /\ NoneOf(Append(q, c), TxTasks) <=> NoneOf(q, TxTasks) /\ c \notin TxTasks
    BY <1>1, AppendEnds, NoneKept
  <2>4. /\ NoneOf(todo', KeyTasks) <=> NoneOf(Steps(r.e), KeyTasks)
        /\ Ends(todo', KeyTasks, TxTasks) <=> Ends(Steps(r.e), KeyTasks, TxTasks)
        /\ NoneOf(todo', TxTasks) <=> NoneOf(Steps(r.e), TxTasks)
    BY <2>1, <2>2, <2>3
  <2>5. QED
    BY <2>1, <2>4, KeyDecided
<1>5. ASSUME NEW kind \in {"TX", "RX"}, NEW tx \in BOOLEAN, HearEcho(kind, tx)
      PROVE  KeyInv'
  <2>1. CASE UNCHANGED <<arb, todo, ep, pipe, txQ, link, ioQ, radio>>
    BY <1>2, <2>1 DEF KeyPosted, KeyInv
  <2>2. CASE ~UNCHANGED <<arb, todo, ep, pipe, txQ, link, ioQ, radio>>
    BY <1>3, <1>5, <2>2, EchoDecides
  <2>3. QED
    BY <2>1, <2>2
<1>6. CASE Requests
  <2>1. CASE CatStopsRadio
    <3>1. todo' = <<[do |-> "RX"]>> /\ UNCHANGED <<arb, link, ioQ, radio>>
      BY <2>1 DEF CatStopsRadio, ioVars
    <3>2. 1 \in 1 .. Len(todo') /\ todo'[1] \in KeyTasks /\ \A i \in 1 .. Len(todo') : todo'[i] \notin TxTasks
      BY <3>1 DEF KeyTasks, TxTasks, MainTask
    <3>3. ~NoneOf(todo', KeyTasks) /\ ~Ends(todo', KeyTasks, TxTasks) /\ NoneOf(todo', TxTasks)
      BY <3>2 DEF NoneOf, Ends
    <3>4. QED
      BY <3>1, <3>3 DEF KeyInv, WillBeKeyed
  <2>2. CASE ~CatStopsRadio
    BY <1>3, <1>6, <2>2, RequestsDecide
  <2>3. QED
    BY <2>1, <2>2
<1>7. CASE ApplyStep
  <2>0. UNCHANGED <<arb, link, radio>>
    BY <1>7 DEF ApplyStep, SetTxSource, PostPttActive, SetTxSourceAfterPtt, SendTxRx, SendAbort,
                StopAudio, MainRuns
  <2>1. ASSUME NEW what, Doing(what)
        PROVE  /\ Head(todo) \in MainTask /\ Head(todo).do = what
               /\ NoneOf(todo, KeyTasks) <=> Head(todo) \notin KeyTasks /\ NoneOf(todo', KeyTasks)
               /\ Ends(todo, KeyTasks, TxTasks)
                    <=> Ends(todo', KeyTasks, TxTasks) \/ (Head(todo) \in TxTasks /\ NoneOf(todo', KeyTasks))
               /\ NoneOf(todo, TxTasks) <=> Head(todo) \notin TxTasks /\ NoneOf(todo', TxTasks)
    <3>1. Doing(what) => TxTasks \in SUBSET TxTasks
      OBVIOUS
    <3>2. QED
      BY <1>1, <2>1, <3>1, TaskDone
  <2>2. ASSUME UNCHANGED <<arb, link, radio>>, WillBeKeyed' => WillBeKeyed \/ ~link,
               NoneOf(todo, TxTasks) => NoneOf(todo', TxTasks)
        PROVE  KeyInv'
    BY <2>2 DEF KeyInv
  <2>3. CASE SetTxSource \/ PostPttActive \/ SetTxSourceAfterPtt \/ StopAudio
    <3>1. ioQ' = ioQ
      BY <2>3 DEF SetTxSource, PostPttActive, SetTxSourceAfterPtt, StopAudio
    <3>2. PICK what \in {"Source", "Gate", "Switch", "Stop"} : Doing(what)
      BY <2>3 DEF SetTxSource, PostPttActive, SetTxSourceAfterPtt, StopAudio
    <3>3. Head(todo) \notin KeyTasks /\ Head(todo) \notin TxTasks
      BY <2>1, <3>2 DEF KeyTasks, TxTasks
    <3>4. KeyPosted' <=> KeyPosted
      BY <2>0, <3>1 DEF KeyPosted
    <3>5. QED
      BY <2>0, <2>1, <2>2, <3>2, <3>3, <3>4 DEF WillBeKeyed
  <2>4. \A c \in IoCall : /\ NoneOf(Append(ioQ, c), KeyCalls) <=> NoneOf(ioQ, KeyCalls) /\ c \notin KeyCalls
                          /\ Ends(Append(ioQ, c), KeyCalls, TxCalls)
                               <=> c \in TxCalls \/ (c \notin KeyCalls /\ Ends(ioQ, KeyCalls, TxCalls))
    BY <1>1, AppendEnds
  <2>5. CASE SendTxRx
    <3> DEFINE c == Command(Head(todo).do)
    <3>1. PICK what \in {"TX", "RX"} : Doing(what)
      BY <2>5 DEF SendTxRx
    <3>2. Head(todo) \in MainTask /\ Head(todo).do = what
      BY <2>1, <3>1
    <3>3. Head(todo) \in KeyTasks /\ (Head(todo) \in TxTasks <=> what = "TX")
      BY <3>2 DEF KeyTasks, TxTasks
    <3>4. c \in IoCall /\ c \in KeyCalls /\ (c \in TxCalls <=> what = "TX")
      BY <3>2 DEF Command, IoCall, KeyCalls, TxCalls, AudioSource, IInv, TypeOK
    <3>5. ioQ' = Append(ioQ, c)
      BY <2>5 DEF SendTxRx
    <3> HIDE DEF c
    <3>6. KeyPosted' <=> what = "TX"
      BY <2>4, <3>4, <3>5 DEF KeyPosted
    <3>7. WillBeKeyed' => WillBeKeyed
      BY <2>1, <3>1, <3>3, <3>6 DEF WillBeKeyed
    <3>8. QED
      BY <2>0, <2>1, <2>2, <3>1, <3>7
  <2>6. CASE SendAbort
    <3> DEFINE c == Command("Abort")
    <3>1. Head(todo) \in MainTask /\ Head(todo).do = "Abort"
      BY <2>1, <2>6 DEF SendAbort
    <3>2. Head(todo) \in KeyTasks /\ Head(todo) \notin TxTasks
      BY <3>1 DEF KeyTasks, TxTasks
    <3>3. c \in IoCall /\ c \in KeyCalls /\ c \notin TxCalls
      BY DEF Command, IoCall, KeyCalls, TxCalls, AudioSource, IInv, TypeOK
    <3>4. link => ioQ' = Append(ioQ, c)
      BY <2>6 DEF SendAbort
    <3> HIDE DEF c
    <3>5. link => ~KeyPosted'
      BY <2>4, <3>3, <3>4 DEF KeyPosted
    <3>6. WillBeKeyed' => WillBeKeyed \/ ~link
      BY <2>1, <2>6, <3>2, <3>5 DEF WillBeKeyed, SendAbort
    <3>7. QED
      BY <2>0, <2>1, <2>2, <2>6, <3>6 DEF SendAbort
  <2>7. QED
    BY <1>7, <2>3, <2>5, <2>6 DEF ApplyStep
<1>8. CASE TxStep \/ MicDeviceLost \/ MicAccessAnswered \/ UNCHANGED vars
  <2>1. UNCHANGED <<arb, todo, link, ioQ, radio>>
    BY <1>8 DEF TxStep, SetPttActive, SwitchSource, ReconcileMic, StopPipeline, MicDeviceLost,
                MicAccessAnswered, OnlyTx, mainVars, ioVars, vars
  <2>2. QED
    BY <1>2, <2>1 DEF KeyPosted, KeyInv
<1>9. CASE TakeBlock \/ SendBlock
  <2>1. /\ UNCHANGED <<arb, todo, link, radio>>
        /\ UNCHANGED ioQ \/ \E src \in AudioSource : ioQ' = Append(ioQ, Packet(src, pipe.ep))
    BY <1>9, BlockSteps
  <2>2. ASSUME NEW src \in AudioSource, ioQ' = Append(ioQ, Packet(src, pipe.ep))
        PROVE  /\ NoneOf(ioQ', KeyCalls) <=> NoneOf(ioQ, KeyCalls)
               /\ Ends(ioQ', KeyCalls, TxCalls) <=> Ends(ioQ, KeyCalls, TxCalls)
    <3> DEFINE c == Packet(src, pipe.ep)
    <3>1. c \in IoCall /\ c \notin KeyCalls /\ c \notin TxCalls
      BY DEF Packet, IoCall, KeyCalls, TxCalls, IInv, TypeOK
    <3> HIDE DEF c
    <3>2. ioQ' = Append(ioQ, c)
      BY <2>2 DEF c
    <3>3. QED
      BY <1>1, <3>1, <3>2, AppendEnds
  <2>3. /\ NoneOf(ioQ', KeyCalls) <=> NoneOf(ioQ, KeyCalls)
        /\ Ends(ioQ', KeyCalls, TxCalls) <=> Ends(ioQ, KeyCalls, TxCalls)
    BY <2>1, <2>2
  <2>4. QED
    BY <1>2, <2>1, <2>3 DEF KeyPosted, KeyInv
<1>10. CASE IoStep
  <2>1. UNCHANGED <<arb, todo, link>> /\ ioQ # <<>> /\ ioQ' = Tail(ioQ)
    BY <1>10 DEF IoStep, IoDrops, IoSendsTx, IoSendsRx, IoSendsAudio, OnlyIo, mainVars
  <2>2. /\ NoneOf(ioQ, KeyCalls) <=> Head(ioQ) \notin KeyCalls /\ NoneOf(ioQ', KeyCalls)
        /\ Ends(ioQ, KeyCalls, TxCalls)
             <=> Ends(ioQ', KeyCalls, TxCalls) \/ (Head(ioQ) \in TxCalls /\ NoneOf(ioQ', KeyCalls))
    BY <1>1, <2>1, TailEnds
  <2>3. Head(ioQ) \in IoCall
    BY <1>1, <2>1
  <2>4. CASE IoDrops
    <3>1. ~link /\ radio' = radio
      BY <2>4 DEF IoDrops
    <3>2. QED
      BY <2>1, <3>1 DEF KeyInv
  <2>5. CASE IoSendsTx
    <3>1. Head(ioQ).kind = "TX" /\ link
      BY <2>5 DEF IoSendsTx
    <3>2. Head(ioQ) \in KeyCalls /\ Head(ioQ) \in TxCalls
      BY <2>3, <3>1 DEF KeyCalls, TxCalls
    <3>3. KeyPosted' => KeyPosted
      BY <2>2, <3>2 DEF KeyPosted
    <3>4. QED
      BY <1>2, <2>1, <3>1, <3>3
  <2>6. CASE IoSendsRx
    <3>1. Head(ioQ).kind \in {"RX", "Abort"} /\ link /\ radio' = Silent
      BY <2>6 DEF IoSendsRx, RadioBecomes
    <3>2. Head(ioQ) \in KeyCalls /\ Head(ioQ) \notin TxCalls /\ ~radio'.cat
      BY <2>3, <3>1 DEF KeyCalls, TxCalls, Silent
    <3>3. KeyPosted' => KeyPosted
      BY <2>2, <3>2 DEF KeyPosted
    <3>4. QED
      BY <1>2, <2>1, <3>1, <3>3
  <2>7. CASE IoSendsAudio
    <3>1. Head(ioQ).kind = "Audio" /\ link /\ radio' = [radio EXCEPT !.tx = TRUE, !.ep = Head(ioQ).ep]
      BY <2>7 DEF IoSendsAudio, RadioBecomes
    <3>2. Head(ioQ) \notin KeyCalls /\ Head(ioQ) \notin TxCalls /\ radio'.cat = radio.cat
      BY <1>1, <3>1 DEF KeyCalls, TxCalls
    <3>3. KeyPosted' => KeyPosted
      BY <2>2, <3>2 DEF KeyPosted
    <3>4. QED
      BY <1>2, <2>1, <3>1, <3>3
  <2>8. QED
    BY <1>10, <2>4, <2>5, <2>6, <2>7 DEF IoStep
<1>11. CASE RadioNoticesSilence \/ RadioKeysItself \/ RadioUnkeysItself
  <2>1. UNCHANGED <<arb, todo, link, ioQ>> /\ link
    BY <1>11 DEF RadioNoticesSilence, RadioKeysItself, RadioUnkeysItself, OnlyRadio, mainVars
  <2>2. radio' = Silent \/ radio' = [tx |-> TRUE, cat |-> FALSE, ep |-> 0]
    BY <1>11 DEF RadioNoticesSilence, RadioKeysItself, RadioUnkeysItself, RadioBecomes
  <2>3. ~radio'.cat
    BY <2>2 DEF Silent
  <2>4. QED
    BY <1>2, <2>1, <2>3 DEF KeyPosted
<1>12. CASE LinkLost
  <2>1. UNCHANGED <<arb, todo>> /\ link' = FALSE /\ ~radio'.cat
    BY <1>12 DEF LinkLost, mainVars, Silent
  <2>2. QED
    BY <2>1 DEF KeyInv
<1>13. CASE LinkUp
  <2>1. UNCHANGED <<arb, todo, ioQ, radio>> /\ ~link /\ link' = TRUE /\ \A i \in DOMAIN ioQ : ioQ[i].kind # "TX"
    BY <1>13 DEF LinkUp, mainVars
  <2>2. ~Ends(ioQ, KeyCalls, TxCalls)
    <3>1. \A i \in 1 .. Len(ioQ) : ioQ[i] \notin TxCalls
      BY <1>1, <2>1 DEF TxCalls
    <3>2. QED
      BY <3>1 DEF Ends
  <2>3. ~KeyPosted'
    BY <2>1, <2>2 DEF KeyPosted, KeyInv
  <2>4. Ends(todo, KeyTasks, TxTasks) => ~NoneOf(todo, TxTasks)
    BY DEF Ends, NoneOf
  <2>5. QED
    BY <2>1, <2>3, <2>4 DEF KeyInv, WillBeKeyed
<1>14. QED
  BY <1>4, <1>5, <1>6, <1>7, <1>8, <1>9, <1>10, <1>11, <1>12, <1>13 DEF Next, MainStep, Environment

-----------------------------------------------------------------------------
(* The microphone is open to be transmitted, or about to be closed. *)

MicDue == pipe.mic => (pipe.gate /\ pipe.source = "Microphone") \/ ~NoneOf(txQ, MicCalls)

LEMMA MicDueNext == ASSUME IInv, MicDue, [Next]_vars PROVE MicDue'
<1>1. /\ txQ \in Seq(TxCall) /\ pipe \in [gate : BOOLEAN, source : AudioSource, mic : BOOLEAN, ep : Nat]
      /\ \A c \in TxCall : c \in MicCalls => c.kind # "Switch"
      /\ Reconcile \in MicCalls
  BY CallTyped DEF MicCalls, Reconcile, IInv, TypeOK
<1>2. ASSUME UNCHANGED pipe, txQ' = txQ \/ \E c \in TxCall : txQ' = Append(txQ, c)
      PROVE  MicDue'
  <2>1. NoneOf(txQ', MicCalls) => NoneOf(txQ, MicCalls)
    BY <1>1, <1>2, NoneKept
  <2>2. QED
    BY <1>2, <2>1 DEF MicDue
<1>3. CASE SetTxSource \/ SetTxSourceAfterPtt \/ SwitchSource
  <2>1. NoneOf(txQ', MicCalls) <=> NoneOf(txQ, MicCalls) /\ (pipe'.source # pipe.source => Reconcile \notin MicCalls)
    <3>1. {} \in SUBSET MicCalls /\ Reconcile \notin {}
      OBVIOUS
    <3>2. QED
      BY <1>1, <1>3, <3>1, SourceWritten
  <2>2. pipe'.gate = pipe.gate /\ pipe'.mic = pipe.mic
    BY <1>1, <1>3 DEF SetTxSource, SetTxSourceAfterPtt, SwitchSource
  <2>3. QED
    BY <1>1, <2>1, <2>2 DEF MicDue
<1>4. CASE PostPttActive
  <2>1. Head(todo) \in MainTask /\ Head(todo).do = "Gate" /\ ep \in Nat
    BY <1>4, TaskTyped DEF PostPttActive, IInv, TypeOK
  <2>2. Head(todo).on \in BOOLEAN
    BY <2>1 DEF MainTask
  <2>3. Gate(Head(todo).on) \in TxCall
    BY <2>1, <2>2, CallTyped
  <2>4. QED
    BY <1>2, <1>4, <2>3 DEF PostPttActive
<1>5. CASE StopAudio \/ MicAccessAnswered
  <2>1. UNCHANGED pipe /\ \E c \in TxCall : txQ' = Append(txQ, c)
    BY <1>5, CallTyped DEF StopAudio, MicAccessAnswered
  <2>2. QED
    BY <1>2, <2>1
<1>6. CASE SendTxRx \/ SendAbort \/ TakeBlock \/ SendBlock \/ IoStep \/ LinkLost \/ LinkUp \/ UNCHANGED vars
             \/ RadioNoticesSilence \/ RadioKeysItself \/ RadioUnkeysItself \/ HearLost
  <2>1. UNCHANGED <<pipe, txQ>>
    BY <1>6 DEF SendTxRx, SendAbort, TakeBlock, SendBlock, AudioOnly, IoStep, IoDrops, IoSendsTx, IoSendsRx, IoSendsAudio, OnlyIo,
                LinkLost, LinkUp, RadioNoticesSilence, RadioKeysItself, RadioUnkeysItself, OnlyRadio, vars,
                HearLost, Delivered
  <2>2. QED
    BY <1>2, <2>1
<1>7. ASSUME NEW kind, NEW tx, HearEcho(kind, tx)
      PROVE  MicDue'
  BY <1>2, <1>7 DEF HearEcho, Delivered
<1>8. CASE Requests
  <2>1. UNCHANGED <<pipe, txQ>>
    BY <1>8, RequestsDecide DEF CatStopsRadio, Decided
  <2>2. QED
    BY <1>2, <2>1
<1>9. \A p \in [gate : BOOLEAN, source : AudioSource, mic : BOOLEAN, ep : Nat] :
        \A x \in Reconciled(p) : x.mic => x.gate /\ x.source = "Microphone"
  BY DEF Reconciled
<1>10. CASE SetPttActive
  <2> DEFINE p == [pipe EXCEPT !.gate = Head(txQ).on, !.ep = IF Head(txQ).on THEN Head(txQ).ep ELSE 0]
  <2>1. Head(txQ) \in TxCall /\ Head(txQ).kind = "Gate"
    BY <1>1, <1>10 DEF SetPttActive, Take
  <2>2. Head(txQ).on \in BOOLEAN /\ Head(txQ).ep \in Nat
    BY <2>1 DEF TxCall
  <2>3. p \in [gate : BOOLEAN, source : AudioSource, mic : BOOLEAN, ep : Nat]
    BY <1>1, <2>2
  <2>4. pipe' \in Reconciled(p)
    BY <1>10 DEF SetPttActive
  <2> HIDE DEF p
  <2>5. QED
    BY <1>9, <2>3, <2>4 DEF MicDue
<1>11. CASE ReconcileMic
  BY <1>1, <1>9, <1>11 DEF ReconcileMic, MicDue
<1>12. CASE StopPipeline \/ MicDeviceLost
  <2>1. ~pipe'.mic
    BY <1>1, <1>12 DEF StopPipeline, MicDeviceLost, Off
  <2>2. QED
    BY <2>1 DEF MicDue
<1>13. QED
  BY <1>3, <1>4, <1>5, <1>6, <1>7, <1>8, <1>10, <1>11, <1>12 DEF Next, MainStep, ApplyStep, TxStep, Environment

-----------------------------------------------------------------------------
(* What is left on, and the gate.                                           *)

Settling == IInv /\ LinkInv /\ GateInv /\ KeyInv /\ MicDue

LEMMA SettlingInit == Init => Settling
<1> SUFFICES ASSUME Init PROVE Settling
  OBVIOUS
<1>1. IInv
  BY InvInit
<1>2. /\ todo = <<>> /\ mainQ = <<>> /\ txQ = <<>> /\ ioQ = <<>> /\ link = FALSE
      /\ arb.owner = "None" /\ arb.route = "None"
      /\ pipe.gate = FALSE /\ pipe.mic = FALSE /\ radio.cat = FALSE
  BY DEF Init, Idle, Off, Silent
<1>3. \A W, V : NoneOf(<<>>, W) /\ ~Ends(<<>>, W, V)
  BY EmptyEnds
<1>4. LinkInv
  BY <1>2 DEF LinkInv, LostLast, NoHoldOffline
<1>5. GateInv
  BY <1>2, <1>3 DEF GateInv, GateWillOpen, GatePosted, NeedsGate
<1>6. KeyInv
  BY <1>2, <1>3 DEF KeyInv
<1>7. MicDue
  BY <1>2 DEF MicDue
<1>8. QED
  BY <1>1, <1>4, <1>5, <1>6, <1>7 DEF Settling

LEMMA SettlingNext == Settling /\ [Next]_vars => Settling'
<1> SUFFICES ASSUME Settling, [Next]_vars PROVE Settling'
  OBVIOUS
<1>1. IInv'
  BY InvNext DEF Settling
<1>2. QED
  BY <1>1, LinkInvNext, GateInvNext, KeyInvNext, MicDueNext DEF Settling

\* Everything that is posted, sent and still to be done adds up to what the holder needs.
THEOREM Settles == Spec => []Settling
BY SettlingInit, SettlingNext, PTL DEF Spec

\* Between two handlers of the main thread the calls posted to the TX thread end with the gate open if
\* and only if the holder streams from here, whatever was refused, preempted or lost on the way
\* (postPttActive asks for the link again, AUD-001).
THEOREM GateIsTheOwners == Spec => []GateFollowsOwner
<1>1. Settling => GateFollowsOwner
  <2> SUFFICES ASSUME Settling, Idling, ~LostPending PROVE GateEndsAs(NeedsGate(arb.route))
    BY DEF GateFollowsOwner
  <2>1. NoneOf(todo, GateTasks) /\ ~Ends(todo, GateTasks, OpenTasks)
    BY EmptyEnds DEF Idling
  <2>2. GatePosted <=> NeedsGate(arb.route)
    BY <2>1 DEF Settling, GateInv, GateWillOpen
  <2>3. NeedsGate(arb.route) \in BOOLEAN
    BY DEF NeedsGate
  <2>4. QED
    BY <2>2, <2>3, GateIsPosted DEF Settling
<1>2. QED
  BY <1>1, Settles, PTL

\* However a transmission ends, nothing of it stays on: the K4 is not left keyed by a TX; of ours, nobody
\* holds a transmitter whose loss has been heard, and the microphone is closed.
THEOREM NothingStaysOn == Spec => []NothingLeftOn
<1>1. Settling => NotLeftKeyed
  <2> SUFFICES ASSUME Settling, Idling, \A i \in DOMAIN ioQ : ioQ[i].kind = "Audio", radio.cat
               PROVE  KeyedByCat(arb.route)
    BY DEF NotLeftKeyed, KeyCommandsSent
  <2>1. NoneOf(todo, KeyTasks)
    BY EmptyEnds DEF Idling
  <2>2. NoneOf(ioQ, KeyCalls)
    BY DEF Settling, IInv, TypeOK, NoneOf, KeyCalls
  <2>3. link /\ WillBeKeyed
    BY <2>1, <2>2 DEF Settling, KeyInv, WillBeKeyed, KeyPosted
  <2>4. QED
    BY <2>3 DEF Settling, KeyInv
<1>2. Settling => NoHoldOffline
  BY DEF Settling, LinkInv
<1>3. Settling => MicNotLeftOpen
  BY EmptyEnds DEF Settling, MicDue, MicNotLeftOpen
<1>4. Settling => NothingLeftOn
  BY <1>1, <1>2, <1>3 DEF NothingLeftOn
<1>5. QED
  BY <1>4, Settles, PTL

-----------------------------------------------------------------------------
(* Which transmission a call was posted for. *)

LateGates(n) == {c \in TxCall : c.kind = "Gate" /\ ~(c.ep <= n)}
LateCalls(n) == {c \in IoCall : ~(c.ep <= n)}

EpBound == pipe.ep <= ep /\ NoneOf(txQ, LateGates(ep)) /\ NoneOf(ioQ, LateCalls(ep))

LEMMA EpGrows ==
  ASSUME IInv, NEW r, NEW andThen, Decided(r, andThen)
  PROVE  /\ ep \in Nat /\ ep' \in Nat
         /\ ep' = ep \/ ep' = ep + 1
         /\ arb.owner = "None" /\ arb'.owner \in Producer => ep' = ep + 1
         /\ arb'.owner = arb.owner => ep' = ep
BY DEF Decided, NextEpisode, Producer, IInv, TypeOK

LEMMA EpBoundKept ==
  ASSUME IInv, EpBound, UNCHANGED <<pipe, txQ, ioQ>>, ep' = ep \/ ep' = ep + 1
  PROVE  EpBound'
<1>1. ep \in Nat /\ pipe.ep \in Nat /\ txQ \in Seq(TxCall) /\ ioQ \in Seq(IoCall)
  BY DEF IInv, TypeOK
<1>2. \A c \in TxCall : c \in LateGates(ep') => c \in LateGates(ep)
  BY <1>1 DEF LateGates, TxCall
<1>3. \A c \in IoCall : c \in LateCalls(ep') => c \in LateCalls(ep)
  BY <1>1 DEF LateCalls, IoCall
<1>4. NoneOf(txQ, LateGates(ep'))
  BY <1>1, <1>2 DEF EpBound, NoneOf, LateGates
<1>5. NoneOf(ioQ, LateCalls(ep'))
  BY <1>1, <1>3 DEF EpBound, NoneOf, LateCalls
<1>6. QED
  BY <1>1, <1>4, <1>5 DEF EpBound

LEMMA EpBoundNext == ASSUME IInv, EpBound, [Next]_vars PROVE EpBound'
<1>1. /\ txQ \in Seq(TxCall) /\ ioQ \in Seq(IoCall) /\ todo \in Seq(MainTask) /\ ep \in Nat
      /\ pipe \in [gate : BOOLEAN, source : AudioSource, mic : BOOLEAN, ep : Nat]
      /\ \A c \in TxCall : c \in LateGates(ep) => c.kind # "Switch"
      /\ Reconcile \notin LateGates(ep) /\ Stop \notin LateGates(ep) /\ MicAccess \notin LateGates(ep)
  BY DEF LateGates, Reconcile, Stop, MicAccess, IInv, TypeOK
<1>2. \A c \in TxCall : NoneOf(Append(txQ, c), LateGates(ep)) <=> NoneOf(txQ, LateGates(ep)) /\ c \notin LateGates(ep)
  BY <1>1, NoneKept
<1>3. \A c \in IoCall : NoneOf(Append(ioQ, c), LateCalls(ep)) <=> NoneOf(ioQ, LateCalls(ep)) /\ c \notin LateCalls(ep)
  BY <1>1, NoneKept
<1>4. txQ # <<>> => (NoneOf(txQ, LateGates(ep)) <=> Head(txQ) \notin LateGates(ep) /\ NoneOf(Tail(txQ), LateGates(ep)))
  BY <1>1, NoneKept
<1>5. ioQ # <<>> => (NoneOf(ioQ, LateCalls(ep)) <=> Head(ioQ) \notin LateCalls(ep) /\ NoneOf(Tail(ioQ), LateCalls(ep)))
  BY <1>1, NoneKept
<1>6. CASE Requests
  <2>1. CASE CatStopsRadio
    BY <2>1 DEF CatStopsRadio, ioVars, EpBound
  <2>2. CASE ~CatStopsRadio
    BY <1>6, <2>2, RequestsDecide, EpGrows, EpBoundKept DEF Decided
  <2>3. QED
    BY <2>1, <2>2
<1>7. CASE HearLost
  BY <1>7, LossDecides, EpGrows, EpBoundKept DEF Decided
<1>8. ASSUME NEW kind \in {"TX", "RX"}, NEW tx \in BOOLEAN, HearEcho(kind, tx)
      PROVE  EpBound'
  <2>1. CASE UNCHANGED <<arb, todo, ep, pipe, txQ, link, ioQ, radio>>
    BY <2>1, EpBoundKept
  <2>2. CASE ~UNCHANGED <<arb, todo, ep, pipe, txQ, link, ioQ, radio>>
    BY <1>8, <2>2, EchoDecides, EpGrows, EpBoundKept DEF Decided
  <2>3. QED
    BY <2>1, <2>2
<1>9. CASE SetTxSource \/ SetTxSourceAfterPtt \/ SwitchSource
  <2>1. NoneOf(txQ', LateGates(ep)) <=> NoneOf(txQ, LateGates(ep))
    <3>1. {} \in SUBSET LateGates(ep) /\ Reconcile \notin {}
      OBVIOUS
    <3>2. QED
      BY <1>1, <1>9, <3>1, SourceWritten
  <2>2. pipe'.ep = pipe.ep /\ ioQ' = ioQ /\ ep' = ep
    BY <1>1, <1>9 DEF SetTxSource, SetTxSourceAfterPtt, SwitchSource, MainRuns, OnlyTx, mainVars, ioVars
  <2>3. QED
    BY <2>1, <2>2 DEF EpBound
<1>10. CASE PostPttActive
  <2>1. Head(todo) \in MainTask /\ Head(todo).do = "Gate"
    BY <1>10, TaskTyped DEF PostPttActive
  <2>2. Head(todo).on \in BOOLEAN
    BY <2>1 DEF MainTask
  <2>3. Gate(Head(todo).on) \in TxCall
    BY <1>1, <2>2, CallTyped
  <2>4. Gate(Head(todo).on) \notin LateGates(ep)
    BY <1>1 DEF Gate, LateGates
  <2>5. UNCHANGED <<pipe, ioQ, ep>> /\ (txQ' = txQ \/ txQ' = Append(txQ, Gate(Head(todo).on)))
    BY <1>10 DEF PostPttActive, MainRuns
  <2>6. QED
    BY <1>2, <2>3, <2>4, <2>5 DEF EpBound
<1>11. CASE StopAudio \/ MicAccessAnswered
  <2>1. UNCHANGED <<pipe, ioQ, ep>> /\ (txQ' = Append(txQ, Stop) \/ txQ' = Append(txQ, MicAccess))
    BY <1>11 DEF StopAudio, MicAccessAnswered, MainRuns, mainVars, ioVars
  <2>2. QED
    BY <1>1, <1>2, <2>1, CallTyped DEF EpBound
<1>12. CASE SendTxRx \/ SendAbort
  <2>1. \A what \in {"TX", "RX", "Abort"} : Command(what) \in IoCall /\ Command(what) \notin LateCalls(ep)
    BY <1>1 DEF Command, IoCall, LateCalls, AudioSource
  <2>2. UNCHANGED <<pipe, txQ, ep>>
    BY <1>12 DEF SendTxRx, SendAbort, MainRuns
  <2>3. ioQ' = ioQ \/ \E what \in {"TX", "RX", "Abort"} : ioQ' = Append(ioQ, Command(what))
    BY <1>12 DEF SendTxRx, SendAbort, Doing
  <2>4. QED
    BY <1>3, <2>1, <2>2, <2>3 DEF EpBound
<1>13. CASE SetPttActive
  <2>1. Head(txQ) \in TxCall /\ Head(txQ).kind = "Gate" /\ txQ # <<>>
    BY <1>1, <1>13 DEF SetPttActive, Take
  <2>2. Head(txQ).on \in BOOLEAN /\ Head(txQ).ep \in Nat
    BY <2>1 DEF TxCall
  <2>3. Head(txQ).ep <= ep
    BY <1>4, <2>1 DEF EpBound, LateGates
  <2> DEFINE n == IF Head(txQ).on THEN Head(txQ).ep ELSE 0
             p == [pipe EXCEPT !.gate = Head(txQ).on, !.ep = n]
  <2>4. n \in Nat /\ n <= ep
    BY <1>1, <2>2, <2>3
  <2>5. pipe' \in Reconciled(p) /\ txQ' = Tail(txQ) /\ UNCHANGED <<ep, ioQ>>
    BY <1>13 DEF SetPttActive, OnlyTx, mainVars, ioVars
  <2>6. p \in [gate : BOOLEAN, source : AudioSource, mic : BOOLEAN, ep : Nat] /\ p.ep = n
    BY <1>1, <2>2, <2>4
  <2> HIDE DEF p, n
  <2>7. pipe'.ep = n
    BY <2>5, <2>6 DEF Reconciled
  <2>8. QED
    BY <1>4, <2>1, <2>4, <2>5, <2>7 DEF EpBound
<1>14. CASE ReconcileMic \/ StopPipeline
  <2>1. txQ # <<>> /\ txQ' = Tail(txQ) /\ UNCHANGED <<ep, ioQ>>
    BY <1>14 DEF ReconcileMic, StopPipeline, Take, OnlyTx, mainVars, ioVars
  <2>2. pipe'.ep = pipe.ep \/ pipe'.ep = 0
    BY <1>1, <1>14 DEF ReconcileMic, StopPipeline, Reconciled, Off
  <2>3. QED
    BY <1>1, <1>4, <2>1, <2>2 DEF EpBound
<1>15. CASE TakeBlock \/ SendBlock
  <2>1. /\ UNCHANGED <<pipe, txQ, ep>>
        /\ UNCHANGED ioQ \/ \E src \in AudioSource : ioQ' = Append(ioQ, Packet(src, pipe.ep))
    BY <1>15, BlockSteps
  <2>2. \A src \in AudioSource : Packet(src, pipe.ep) \in IoCall /\ Packet(src, pipe.ep) \notin LateCalls(ep)
    BY <1>1 DEF Packet, IoCall, LateCalls, EpBound
  <2>3. QED
    BY <1>3, <2>1, <2>2 DEF EpBound
<1>16. CASE IoStep
  <2>1. ioQ # <<>> /\ ioQ' = Tail(ioQ) /\ UNCHANGED <<pipe, txQ, ep>>
    BY <1>16 DEF IoStep, IoDrops, IoSendsTx, IoSendsRx, IoSendsAudio, OnlyIo, mainVars
  <2>2. QED
    BY <1>5, <2>1 DEF EpBound
<1>17. CASE LinkLost \/ LinkUp \/ RadioNoticesSilence \/ RadioKeysItself \/ RadioUnkeysItself \/ UNCHANGED vars
             \/ MicDeviceLost
  <2>1. UNCHANGED <<txQ, ioQ, ep>> /\ pipe'.ep = pipe.ep
    BY <1>1, <1>17 DEF LinkLost, LinkUp, RadioNoticesSilence, RadioKeysItself, RadioUnkeysItself, OnlyRadio, vars,
                       MicDeviceLost, OnlyTx, mainVars, ioVars
  <2>2. QED
    BY <2>1 DEF EpBound
<1>18. QED
  BY <1>6, <1>7, <1>8, <1>9, <1>10, <1>11, <1>12, <1>13, <1>14, <1>15, <1>16, <1>17
     DEF Next, MainStep, ApplyStep, TxStep, Environment

-----------------------------------------------------------------------------
(* The order of a handler's tasks. *)

\* A gate is posted behind the source and behind TX;.
LEMMA StepsOrder ==
  ASSUME NEW e \in Effects, NEW B \in SUBSET MainTask, \A t \in B : t.do \in {"Source", "TX"}
  PROVE  NoneAfter(Steps(e), GateTasks, B)
<1> DEFINE x1 == [do |-> "Source", src |-> e.source]
           x2 == [do |-> "TX"]
           x3 == [do |-> "Gate", on |-> e.gateActive]
           x4 == [do |-> "Abort"]
           x5 == [do |-> "RX"]
           x6 == [do |-> "Switch", src |-> e.source]
           c1 == e.setSource /\ e.gateActive
           c2 == e.sendTx
           c3 == e.setGate
           c4 == e.abortCw
           c5 == e.sendRx /\ ~e.abortCw
           c6 == e.setSource /\ ~e.gateActive
           q1 == <<>> \o Only(c1, x1)
           q2 == q1 \o Only(c2, x2)
           q3 == q2 \o Only(c3, x3)
           q4 == q3 \o Only(c4, x4)
           q5 == q4 \o Only(c5, x5)
           q6 == q5 \o Only(c6, x6)
<1>1. /\ x1 \in MainTask \ GateTasks /\ x2 \in MainTask \ GateTasks /\ x3 \in MainTask \ B
      /\ x4 \in MainTask \ B /\ x5 \in MainTask \ B /\ x6 \in MainTask \ B
  BY DEF Effects, MainTask, GateTasks
<1>2. /\ c1 \in BOOLEAN /\ c2 \in BOOLEAN /\ c3 \in BOOLEAN
      /\ c4 \in BOOLEAN /\ c5 \in BOOLEAN /\ c6 \in BOOLEAN
  BY DEF Effects
<1>3. Steps(e) = q6
  <2>1. Only(c1, x1) \in Seq(MainTask)
    BY <1>1, <1>2, OnlyTyped
  <2>2. q1 = Only(c1, x1)
    BY <2>1, ConcatEmptySeq
  <2>3. QED
    BY <2>2 DEF Steps
<1> HIDE DEF x1, x2, x3, x4, x5, x6, c1, c2, c3, c4, c5, c6
<1> DEFINE Good(q) == q \in Seq(MainTask) /\ NoneAfter(q, GateTasks, B)
<1>4. ASSUME NEW q, Good(q), NEW cond \in BOOLEAN, NEW x \in MainTask, NoneOf(q, GateTasks) \/ x \notin B
      PROVE  Good(q \o Only(cond, x))
  <2>1. CASE cond
    <3>1. q \o Only(cond, x) = Append(q, x) /\ Append(q, x) \in Seq(MainTask)
      BY <1>4, <2>1, AppendIsConcat DEF Only
    <3>2. NoneAfter(Append(q, x), GateTasks, B)
      BY <1>4, OrderKept
    <3>3. QED
      BY <3>1, <3>2
  <2>2. CASE ~cond
    <3>1. q \o Only(cond, x) = q
      BY <1>4, <2>2, ConcatEmptySeq DEF Only
    <3>2. QED
      BY <1>4, <3>1
  <2>3. QED
    BY <2>1, <2>2
<1>5. \A q \in Seq(MainTask), cond \in BOOLEAN, x \in MainTask :
         NoneOf(q \o Only(cond, x), GateTasks) <=> NoneOf(q, GateTasks) /\ (cond => x \notin GateTasks)
  <2>1. {} \in SUBSET GateTasks
    OBVIOUS
  <2>2. QED
    BY <2>1, OnlyEnds
<1>6. Good(<<>>) /\ NoneOf(<<>>, GateTasks)
  BY EmptyEnds
<1> HIDE DEF Good
<1>seq. \A q : Good(q) => q \in Seq(MainTask)
  BY DEF Good
<1>7. Good(q1) /\ NoneOf(q1, GateTasks)
  BY <1>1, <1>2, <1>4, <1>5, <1>6, <1>seq
<1> HIDE DEF q1
<1>8. Good(q2)
  BY <1>1, <1>2, <1>4, <1>7
<1>9. NoneOf(q2, GateTasks)
  BY <1>1, <1>2, <1>5, <1>7, <1>seq
<1> HIDE DEF q2
<1>10. Good(q3)
  BY <1>1, <1>2, <1>4, <1>8, <1>9
<1> HIDE DEF q3
<1>11. Good(q4)
  BY <1>1, <1>2, <1>4, <1>10
<1> HIDE DEF q4
<1>12. Good(q5)
  BY <1>1, <1>2, <1>4, <1>11
<1> HIDE DEF q5
<1>13. Good(q6)
  BY <1>1, <1>2, <1>4, <1>12
<1>14. QED
  BY <1>3, <1>13 DEF Good

\* A decision that does nothing leaves nothing to do.
LEMMA QuietSteps ==
  ASSUME NEW e \in Effects, Inert(e)
  PROVE  Steps(e) = <<>>
<1>1. \A x : \A c \in BOOLEAN : ~c => Only(c, x) = <<>>
  BY DEF Only
<1>2. /\ (e.setSource /\ e.gateActive) \in BOOLEAN /\ (e.setSource /\ ~e.gateActive) \in BOOLEAN
      /\ (e.sendRx /\ ~e.abortCw) \in BOOLEAN
      /\ e.sendTx \in BOOLEAN /\ e.setGate \in BOOLEAN /\ e.abortCw \in BOOLEAN
  BY DEF Effects
<1>3. /\ Only(e.setSource /\ e.gateActive, [do |-> "Source", src |-> e.source]) = <<>>
      /\ Only(e.sendTx, [do |-> "TX"]) = <<>>
      /\ Only(e.setGate, [do |-> "Gate", on |-> e.gateActive]) = <<>>
      /\ Only(e.abortCw, [do |-> "Abort"]) = <<>>
      /\ Only(e.sendRx /\ ~e.abortCw, [do |-> "RX"]) = <<>>
      /\ Only(e.setSource /\ ~e.gateActive, [do |-> "Switch", src |-> e.source]) = <<>>
  BY <1>1, <1>2 DEF Inert
<1>4. <<>> \o <<>> = <<>>
  OBVIOUS
<1>5. QED
  BY <1>3, <1>4 DEF Steps

-----------------------------------------------------------------------------
(* TX; before the first frame of the transmission it keys (XMIT). *)

\* Nothing of the current transmission is on its way to the socket, and no gate is open for it.
NotYetOpen ==
  /\ ~(pipe.gate /\ pipe.ep = ep)
  /\ NoneOf(txQ, OpenFor(ep))
  /\ NoneOf(ioQ, AudioFor(ep))

XmitOrder ==
  arb.owner = "Xmit" =>
    /\ NoneOf(todo, TxTasks) \/ NotYetOpen
    /\ NoneAfter(todo, GateTasks, TxTasks)
    /\ NoneAfter(ioQ, AudioFor(ep), TxCalls)

\* A block of audio is in hand only while the gate is open, which waits for it to close.
BlockGated == ~Free => pipe.gate

LEMMA BlockGatedNext == ASSUME IInv, BlockGated, [Next]_vars PROVE BlockGated'
<1>1. CASE TxStep \/ MicDeviceLost
  <2>1. buf' = buf \/ buf' = Empty
    BY <1>1 DEF TxStep, SetPttActive, SwitchSource, ReconcileMic, StopPipeline, MicDeviceLost, Buffers
  <2>2. Free
    BY <1>1 DEF TxStep, SetPttActive, SwitchSource, ReconcileMic, StopPipeline, MicDeviceLost, Take
  <2>3. QED
    BY <2>1, <2>2 DEF BlockGated, Free, Empty
<1>2. CASE TakeBlock
  BY <1>2 DEF TakeBlock, AudioOnly, BlockGated
<1>3. CASE SendBlock
  BY <1>3 DEF SendBlock, BlockGated, Free
<1>4. CASE SetTxSource
  <2>1. pipe'.gate = pipe.gate /\ buf' = buf
    BY <1>4 DEF SetTxSource, MainRuns, IInv, TypeOK
  <2>2. QED
    BY <2>1 DEF BlockGated, Free
<1>5. ASSUME UNCHANGED <<pipe, buf>>
      PROVE  BlockGated'
  BY <1>5 DEF BlockGated, Free
<1>6. CASE Requests
  BY <1>5, <1>6 DEF Requests, EngageRequest, ReleaseRequest, XmitStops, Escape, CatStopsRadio, Requested
<1>7. CASE PostPttActive \/ SetTxSourceAfterPtt \/ SendTxRx \/ SendAbort \/ StopAudio
  BY <1>5, <1>7 DEF PostPttActive, SetTxSourceAfterPtt, SendTxRx, SendAbort, StopAudio, MainRuns
<1>8. CASE HearEcho("TX", TRUE) \/ HearEcho("RX", FALSE) \/ HearLost
  BY <1>5, <1>8 DEF HearEcho, HearLost, Delivered
<1>9. CASE IoStep \/ UNCHANGED vars
  BY <1>5, <1>9 DEF IoStep, IoDrops, IoSendsTx, IoSendsRx, IoSendsAudio, OnlyIo, vars
<1>10. CASE RadioNoticesSilence \/ RadioKeysItself \/ RadioUnkeysItself \/ LinkLost \/ LinkUp \/ MicAccessAnswered
  BY <1>5, <1>10 DEF RadioNoticesSilence, RadioKeysItself, RadioUnkeysItself, OnlyRadio, LinkLost, LinkUp,
                     MicAccessAnswered
<1>11. QED
  BY <1>1, <1>2, <1>3, <1>4, <1>6, <1>7, <1>8, <1>9, <1>10 DEF Next, MainStep, ApplyStep, Environment

LEMMA NothingOfTheNext ==
  ASSUME IInv, EpBound, UNCHANGED <<pipe, txQ, ioQ>>, ep' = ep + 1
  PROVE  NotYetOpen'
<1>1. ep \in Nat /\ pipe.ep \in Nat /\ txQ \in Seq(TxCall) /\ ioQ \in Seq(IoCall)
  BY DEF IInv, TypeOK
<1>2. NoneOf(txQ, OpenFor(ep'))
  <2>1. \A c : c \in OpenFor(ep') => c \in LateGates(ep)
    BY <1>1 DEF OpenFor, OpenCalls, LateGates
  <2>2. QED
    BY <2>1 DEF EpBound, NoneOf
<1>3. NoneOf(ioQ, AudioFor(ep'))
  <2>1. \A c : c \in AudioFor(ep') => c \in LateCalls(ep)
    BY <1>1 DEF AudioFor, LateCalls
  <2>2. QED
    BY <2>1 DEF EpBound, NoneOf
<1>4. pipe'.ep # ep'
  BY <1>1 DEF EpBound
<1>5. NoneOf(txQ', OpenFor(ep')) /\ NoneOf(ioQ', AudioFor(ep'))
  BY <1>2, <1>3
<1>6. QED
  BY <1>4, <1>5 DEF NotYetOpen, OpenFor, AudioFor, OpenCalls

LEMMA NoneThenOrder ==
  ASSUME NEW q, NEW A, NEW B, NoneOf(q, A)
  PROVE  NoneAfter(q, A, B)
BY DEF NoneOf, NoneAfter

\* XMIT is granted a free transmitter, or keeps what it has.
LEMMA XmitDecided ==
  ASSUME IInv, EpBound, XmitOrder, NEW r, Decided(r, <<>>), todo' = Steps(r.e),
         r.s.owner = "Xmit" => arb.owner = "None" \/ (Inert(r.e) /\ r.s.owner = arb.owner)
  PROVE  XmitOrder'
<1>1. /\ arb' = r.s /\ r.e \in Effects /\ UNCHANGED <<pipe, txQ, ioQ>>
      /\ "Xmit" \in Producer
  BY DEF Decided, Producer, Owner
<1>2. CASE r.s.owner # "Xmit"
  BY <1>1, <1>2 DEF XmitOrder
<1>3. CASE r.s.owner = "Xmit" /\ arb.owner = "None"
  <2>1. ep' = ep + 1
    BY <1>1, <1>3, EpGrows
  <2>2. NotYetOpen'
    BY <1>1, <2>1, NothingOfTheNext
  <2>3. NoneAfter(todo', GateTasks, TxTasks)
    <3>1. TxTasks \in SUBSET MainTask /\ \A t \in TxTasks : t.do \in {"Source", "TX"}
      BY DEF TxTasks
    <3>2. QED
      BY <1>1, <3>1, StepsOrder
  <2>4. NoneOf(ioQ, AudioFor(ep))'
    BY <2>2 DEF NotYetOpen
  <2>5. NoneOf(ioQ', AudioFor(ep'))
    BY <2>4 DEF NoneOf, AudioFor
  <2>6. NoneAfter(ioQ', AudioFor(ep'), TxCalls)
    BY <2>5, NoneThenOrder
  <2>7. QED
    BY <2>2, <2>3, <2>6 DEF XmitOrder, GateTasks, TxTasks, TxCalls, AudioFor
<1>4. CASE r.s.owner = "Xmit" /\ Inert(r.e) /\ r.s.owner = arb.owner
  <2>1. ep' = ep /\ todo' = <<>>
    BY <1>1, <1>4, EpGrows, QuietSteps
  <2>2. NoneOf(todo', TxTasks) /\ NoneAfter(todo', GateTasks, TxTasks)
    BY <2>1, EmptyEnds
  <2>3. QED
    BY <1>1, <1>4, <2>1, <2>2 DEF XmitOrder
<1>5. QED
  BY <1>2, <1>3, <1>4

LEMMA XmitOrderNext == ASSUME IInv, EpBound, BlockGated, XmitOrder, [Next]_vars PROVE XmitOrder'
<1>1. /\ txQ \in Seq(TxCall) /\ ioQ \in Seq(IoCall) /\ todo \in Seq(MainTask) /\ ep \in Nat
      /\ pipe \in [gate : BOOLEAN, source : AudioSource, mic : BOOLEAN, ep : Nat]
      /\ \A c \in TxCall : c \in OpenFor(ep) => c.kind # "Switch"
      /\ Reconcile \notin OpenFor(ep) /\ Stop \notin OpenFor(ep) /\ MicAccess \notin OpenFor(ep)
      /\ {} \in SUBSET OpenFor(ep) /\ Reconcile \notin {} /\ {} \in SUBSET TxTasks
  BY DEF OpenFor, OpenCalls, Reconcile, Stop, MicAccess, IInv, TypeOK
<1>2. \A c \in TxCall : NoneOf(Append(txQ, c), OpenFor(ep)) <=> NoneOf(txQ, OpenFor(ep)) /\ c \notin OpenFor(ep)
  BY <1>1, NoneKept
<1>3. \A c \in IoCall : NoneOf(Append(ioQ, c), AudioFor(ep)) <=> NoneOf(ioQ, AudioFor(ep)) /\ c \notin AudioFor(ep)
  BY <1>1, NoneKept
<1>4. /\ txQ # <<>> => (NoneOf(txQ, OpenFor(ep)) <=> Head(txQ) \notin OpenFor(ep) /\ NoneOf(Tail(txQ), OpenFor(ep)))
      /\ ioQ # <<>> => (NoneOf(ioQ, AudioFor(ep)) <=> Head(ioQ) \notin AudioFor(ep) /\ NoneOf(Tail(ioQ), AudioFor(ep)))
  BY <1>1, NoneKept
<1>5. \A c \in IoCall : NoneAfter(ioQ, AudioFor(ep), TxCalls) /\ (NoneOf(ioQ, AudioFor(ep)) \/ c \notin TxCalls)
                          => NoneAfter(Append(ioQ, c), AudioFor(ep), TxCalls)
  BY <1>1, OrderKept
<1>6. ioQ # <<>> /\ NoneAfter(ioQ, AudioFor(ep), TxCalls) => NoneAfter(Tail(ioQ), AudioFor(ep), TxCalls)
  <2>1. CASE ioQ = <<>>
    BY <2>1
  <2>2. CASE ioQ # <<>> /\ NoneAfter(ioQ, AudioFor(ep), TxCalls)
    <3>1. PICK c \in IoCall : c = Head(ioQ)
      BY <1>1, <2>2
    <3>2. QED
      BY <1>1, <2>2, <3>1, OrderKept
  <2>3. QED
    BY <2>1, <2>2
\* A step of another thread than the main thread.
<1>7. ASSUME UNCHANGED <<arb, todo, ep>>, NotYetOpen => NotYetOpen',
             NoneAfter(ioQ, AudioFor(ep), TxCalls) => NoneAfter(ioQ', AudioFor(ep), TxCalls)
      PROVE  XmitOrder'
  BY <1>7 DEF XmitOrder, TxTasks, GateTasks, AudioFor, TxCalls
<1>8. CASE Requests
  <2>1. CASE CatStopsRadio
    BY <2>1 DEF CatStopsRadio, ioVars, XmitOrder
  <2>2. CASE ~CatStopsRadio
    BY <1>8, <2>2, RequestsDecide, XmitDecided
  <2>3. QED
    BY <2>1, <2>2
<1>9. CASE HearLost
  <2>1. arb'.owner = "None"
    BY <1>9, LossDecides DEF Decided
  <2>2. QED
    BY <2>1 DEF XmitOrder
<1>10. ASSUME NEW kind \in {"TX", "RX"}, NEW tx \in BOOLEAN, HearEcho(kind, tx)
       PROVE  XmitOrder'
  <2>1. CASE UNCHANGED <<arb, todo, ep, pipe, txQ, link, ioQ, radio>>
    BY <2>1 DEF XmitOrder, NotYetOpen
  <2>2. CASE ~UNCHANGED <<arb, todo, ep, pipe, txQ, link, ioQ, radio>>
    <3>1. PICK r : /\ Decided(r, <<>>) /\ todo' = Steps(r.e)
                   /\ r.s.owner \in {"None", "Radio"} \/ (Inert(r.e) /\ r.s.owner = arb.owner)
      BY <1>10, <2>2, EchoDecides
    <3>2. QED
      BY <3>1, XmitDecided
  <2>3. QED
    BY <2>1, <2>2
\* A task of the handler is done: the next of it follow in order.
<1>11. ASSUME NEW what, Doing(what)
       PROVE  /\ Head(todo) \in MainTask /\ Head(todo).do = what
              /\ NoneOf(todo, TxTasks) <=> Head(todo) \notin TxTasks /\ NoneOf(todo', TxTasks)
              /\ NoneAfter(todo, GateTasks, TxTasks) =>
                   NoneAfter(todo', GateTasks, TxTasks) /\ (Head(todo) \in GateTasks => NoneOf(todo', TxTasks))
  <2>1. /\ Head(todo) \in MainTask /\ Head(todo).do = what
        /\ NoneOf(todo, TxTasks) <=> Head(todo) \notin TxTasks /\ NoneOf(todo', TxTasks)
    BY <1>1, <1>11, TaskDone
  <2>2. todo # <<>> /\ todo' = Tail(todo)
    BY <1>11 DEF Doing
  <2>3. NoneAfter(todo, GateTasks, TxTasks) =>
          NoneAfter(Tail(todo), GateTasks, TxTasks) /\ (Head(todo) \in GateTasks => NoneOf(Tail(todo), TxTasks))
    BY <1>1, <2>1, <2>2, OrderKept
  <2>4. QED
    BY <2>1, <2>2, <2>3
<1>12. ASSUME NEW what, Doing(what), UNCHANGED <<arb, ep>>,
              Head(todo) \in GateTasks \/ (NotYetOpen => NotYetOpen') \/ NoneOf(todo', TxTasks),
              XmitOrder /\ arb.owner = "Xmit" => NoneAfter(ioQ', AudioFor(ep), TxCalls)
       PROVE  XmitOrder'
  BY <1>11, <1>12 DEF XmitOrder, TxTasks, GateTasks, AudioFor, TxCalls
<1>13. CASE SetTxSource \/ SetTxSourceAfterPtt
  <2>1. NoneOf(txQ', OpenFor(ep)) <=> NoneOf(txQ, OpenFor(ep))
    BY <1>1, <1>13, SourceWritten
  <2>2. pipe'.gate = pipe.gate /\ pipe'.ep = pipe.ep /\ UNCHANGED <<arb, ep, ioQ>>
    BY <1>1, <1>13 DEF SetTxSource, SetTxSourceAfterPtt, MainRuns
  <2>3. NotYetOpen => NotYetOpen'
    BY <2>1, <2>2 DEF NotYetOpen, OpenFor, OpenCalls, AudioFor
  <2>4. QED
    BY <1>12, <1>13, <2>2, <2>3 DEF SetTxSource, SetTxSourceAfterPtt, XmitOrder
<1>14. CASE PostPttActive \/ StopAudio
  <2>1. PICK what \in {"Gate", "Stop"} : Doing(what)
    BY <1>14 DEF PostPttActive, StopAudio
  <2>2. Head(todo) \in MainTask /\ Head(todo).do \in {"Gate", "Stop"}
    BY <1>11, <2>1
  <2>3. Head(todo) \in GateTasks
    BY <2>2 DEF GateTasks
  <2>4. UNCHANGED <<arb, ep, ioQ>>
    BY <1>14 DEF PostPttActive, StopAudio, MainRuns
  <2>5. QED
    BY <1>12, <2>1, <2>3, <2>4 DEF XmitOrder
<1>15. CASE SendTxRx
  <2> DEFINE c == Command(Head(todo).do)
  <2>1. PICK what \in {"TX", "RX"} : Doing(what)
    BY <1>15 DEF SendTxRx
  <2>2. Head(todo) \in MainTask /\ Head(todo).do = what
    BY <1>11, <2>1
  <2>3. Head(todo) \in TxTasks <=> what = "TX"
    BY <2>2 DEF TxTasks
  <2>4. c \in IoCall /\ c \notin AudioFor(ep) /\ (c \in TxCalls <=> what = "TX")
    BY <1>1, <2>2 DEF Command, IoCall, TxCalls, AudioFor, AudioSource
  <2>5. ioQ' = Append(ioQ, c) /\ UNCHANGED <<arb, ep, pipe, txQ>>
    BY <1>15 DEF SendTxRx, MainRuns
  <2> HIDE DEF c
  <2>6. XmitOrder /\ arb.owner = "Xmit" => NoneAfter(ioQ', AudioFor(ep), TxCalls)
    <3> SUFFICES ASSUME arb.owner = "Xmit" PROVE NoneAfter(ioQ', AudioFor(ep), TxCalls)
      OBVIOUS
    <3>1. what = "TX" => NoneOf(ioQ, AudioFor(ep))
      BY <1>11, <2>1, <2>3 DEF XmitOrder, NotYetOpen
    <3>2. NoneAfter(ioQ, AudioFor(ep), TxCalls)
      BY DEF XmitOrder
    <3>3. QED
      BY <1>5, <2>4, <2>5, <3>1, <3>2
  <2>7. NotYetOpen => NotYetOpen'
    <3>1. NoneOf(ioQ', AudioFor(ep)) <=> NoneOf(ioQ, AudioFor(ep))
      BY <1>3, <2>4, <2>5
    <3>2. QED
      BY <2>5, <3>1 DEF NotYetOpen, OpenFor, OpenCalls, AudioFor
  <2>8. QED
    BY <1>12, <2>1, <2>5, <2>6, <2>7
<1>16. CASE SendAbort
  <2> DEFINE c == Command("Abort")
  <2>1. c \in IoCall /\ c \notin AudioFor(ep) /\ c \notin TxCalls
    BY <1>1 DEF Command, IoCall, TxCalls, AudioFor, AudioSource
  <2>2. (ioQ' = ioQ \/ ioQ' = Append(ioQ, c)) /\ UNCHANGED <<arb, ep, pipe, txQ>> /\ Doing("Abort")
    BY <1>16 DEF SendAbort, MainRuns
  <2> HIDE DEF c
  <2>3. XmitOrder /\ arb.owner = "Xmit" => NoneAfter(ioQ', AudioFor(ep), TxCalls)
    BY <1>5, <2>1, <2>2 DEF XmitOrder
  <2>4. NotYetOpen => NotYetOpen'
    <3>1. NoneOf(ioQ', AudioFor(ep)) <=> NoneOf(ioQ, AudioFor(ep))
      BY <1>3, <2>1, <2>2
    <3>2. QED
      BY <2>2, <3>1 DEF NotYetOpen, OpenFor, OpenCalls, AudioFor
  <2>5. QED
    BY <1>12, <2>2, <2>3, <2>4
<1>17. CASE TxStep \/ MicDeviceLost \/ MicAccessAnswered
  <2>1. UNCHANGED <<arb, todo, ep, ioQ>>
    BY <1>17 DEF TxStep, SetPttActive, SwitchSource, ReconcileMic, StopPipeline, MicDeviceLost,
                 MicAccessAnswered, OnlyTx, mainVars, ioVars
  <2>2. CASE SetPttActive
    <3>1. Head(txQ) \in TxCall /\ Head(txQ).kind = "Gate" /\ txQ # <<>> /\ txQ' = Tail(txQ)
      BY <1>1, <2>2 DEF SetPttActive, Take
    <3>2. Head(txQ).on \in BOOLEAN /\ Head(txQ).ep \in Nat
      BY <3>1 DEF TxCall
    <3> DEFINE p == [pipe EXCEPT !.gate = Head(txQ).on, !.ep = IF Head(txQ).on THEN Head(txQ).ep ELSE 0]
    <3>3. /\ p \in [gate : BOOLEAN, source : AudioSource, mic : BOOLEAN, ep : Nat]
          /\ p.gate = Head(txQ).on /\ (Head(txQ).on => p.ep = Head(txQ).ep)
      BY <1>1, <3>2
    <3>4. pipe' \in Reconciled(p)
      BY <2>2 DEF SetPttActive
    <3> HIDE DEF p
    <3>5. pipe'.gate = p.gate /\ pipe'.ep = p.ep
      BY <3>3, <3>4 DEF Reconciled
    <3>6. pipe'.gate /\ pipe'.ep = ep => Head(txQ) \in OpenFor(ep)
      BY <3>1, <3>3, <3>5 DEF OpenFor, OpenCalls
    <3>7. NotYetOpen => NotYetOpen'
      BY <1>4, <2>1, <3>1, <3>6 DEF NotYetOpen, OpenFor, OpenCalls, AudioFor
    <3>8. QED
      BY <1>7, <2>1, <3>7
  <2>3. CASE SwitchSource
    <3>1. NoneOf(txQ', OpenFor(ep)) <=> NoneOf(txQ, OpenFor(ep))
      BY <1>1, <2>3, SourceWritten
    <3>2. pipe'.gate = pipe.gate /\ pipe'.ep = pipe.ep
      BY <1>1, <2>3 DEF SwitchSource
    <3>3. NotYetOpen => NotYetOpen'
      BY <2>1, <3>1, <3>2 DEF NotYetOpen, OpenFor, OpenCalls, AudioFor
    <3>4. QED
      BY <1>7, <2>1, <3>3
  <2>4. CASE ReconcileMic \/ StopPipeline
    <3>1. txQ # <<>> /\ txQ' = Tail(txQ)
      BY <2>4 DEF ReconcileMic, StopPipeline, Take
    <3>2. pipe'.gate => pipe.gate /\ pipe'.ep = pipe.ep
      BY <1>1, <2>4 DEF ReconcileMic, StopPipeline, Reconciled, Off
    <3>3. NotYetOpen => NotYetOpen'
      BY <1>4, <2>1, <3>1, <3>2 DEF NotYetOpen, OpenFor, OpenCalls, AudioFor
    <3>4. QED
      BY <1>7, <2>1, <3>3
  <2>5. CASE MicDeviceLost \/ MicAccessAnswered
    <3>1. pipe'.gate = pipe.gate /\ pipe'.ep = pipe.ep /\ (txQ' = txQ \/ txQ' = Append(txQ, MicAccess))
      BY <1>1, <2>5 DEF MicDeviceLost, MicAccessAnswered
    <3>2. NoneOf(txQ', OpenFor(ep)) <=> NoneOf(txQ, OpenFor(ep))
      BY <1>1, <1>2, <3>1, CallTyped
    <3>3. NotYetOpen => NotYetOpen'
      BY <2>1, <3>1, <3>2 DEF NotYetOpen, OpenFor, OpenCalls, AudioFor
    <3>4. QED
      BY <1>7, <2>1, <3>3
  <2>6. QED
    BY <1>17, <2>2, <2>3, <2>4, <2>5 DEF TxStep
<1>18. CASE TakeBlock \/ SendBlock
  <2>1. /\ UNCHANGED <<arb, todo, ep, pipe, txQ>> /\ pipe.gate
        /\ UNCHANGED ioQ \/ \E src \in AudioSource : ioQ' = Append(ioQ, Packet(src, pipe.ep))
    <3>1. pipe.gate
      BY <1>18 DEF TakeBlock, SendBlock, Free, BlockGated
    <3>2. QED
      BY <1>18, <3>1, BlockSteps
  <2>2. CASE UNCHANGED ioQ
    BY <1>7, <2>1, <2>2 DEF NotYetOpen, OpenFor, OpenCalls, AudioFor
  <2>3. ASSUME NEW src \in AudioSource, ioQ' = Append(ioQ, Packet(src, pipe.ep))
        PROVE  XmitOrder'
    <3> DEFINE c == Packet(src, pipe.ep)
    <3>1. c \in IoCall /\ c \notin TxCalls /\ (c \in AudioFor(ep) => pipe.ep = ep)
      BY <1>1 DEF Packet, IoCall, TxCalls, AudioFor
    <3>2. ioQ' = Append(ioQ, c)
      BY <2>3
    <3> HIDE DEF c
    <3>3. NotYetOpen => NotYetOpen'
      BY <1>3, <2>1, <3>1, <3>2 DEF NotYetOpen, OpenFor, OpenCalls, AudioFor
    <3>4. QED
      BY <1>5, <1>7, <2>1, <3>1, <3>2, <3>3
  <2>4. QED
    BY <2>1, <2>2, <2>3
<1>19. CASE IoStep
  <2>1. UNCHANGED <<arb, todo, ep, pipe, txQ>> /\ ioQ # <<>> /\ ioQ' = Tail(ioQ)
    BY <1>19 DEF IoStep, IoDrops, IoSendsTx, IoSendsRx, IoSendsAudio, OnlyIo, mainVars
  <2>2. NotYetOpen => NotYetOpen'
    BY <1>4, <2>1 DEF NotYetOpen, OpenFor, OpenCalls, AudioFor
  <2>3. QED
    BY <1>6, <1>7, <2>1, <2>2
<1>20. CASE LinkLost \/ LinkUp \/ RadioNoticesSilence \/ RadioKeysItself \/ RadioUnkeysItself \/ UNCHANGED vars
  <2>1. UNCHANGED <<arb, todo, ep, pipe, txQ, ioQ>>
    BY <1>20 DEF LinkLost, LinkUp, RadioNoticesSilence, RadioKeysItself, RadioUnkeysItself, OnlyRadio, vars, mainVars
  <2>2. QED
    BY <1>7, <2>1 DEF NotYetOpen
<1>21. QED
  BY <1>8, <1>9, <1>10, <1>13, <1>14, <1>15, <1>16, <1>17, <1>18, <1>19, <1>20
     DEF Next, MainStep, ApplyStep, Environment

\* What is sent, and posted, and to be done, is in the order of the transmission it is for.
Ordered == EpBound /\ BlockGated /\ XmitOrder

LEMMA OrderedInit == Init => Ordered
<1> SUFFICES ASSUME Init PROVE Ordered
  OBVIOUS
<1>1. txQ = <<>> /\ ioQ = <<>> /\ ep = 0 /\ pipe.ep = 0 /\ arb.owner = "None" /\ Free
  BY DEF Init, Off, Idle, Empty, Free
<1>2. QED
  BY <1>1, EmptyEnds DEF Ordered, EpBound, BlockGated, XmitOrder

\* No call posted to the TX thread and no packet on its way to the socket is of a transmission that has
\* not begun, and while XMIT holds the transmitter its TX; is ahead of its gate and of its first frame in
\* whatever queue they are (the order of the statements of apply()): the invariant under KeyBeforeAudio.
THEOREM KeyedInOrder == Spec => []Ordered
<1>1. IInv /\ Ordered /\ [Next]_vars => Ordered'
  BY EpBoundNext, BlockGatedNext, XmitOrderNext DEF Ordered
<1>2. QED
  BY <1>1, OrderedInit, Invariance, PTL DEF Spec

\* XMIT keys by TX; and streams as well: once a frame of its transmission is on its way to the socket no
\* TX; follows it, neither one that is posted nor one the handler is still to send - the K4 is never keyed
\* by the tunnel's audio first (apply() sends TX; before it opens the gate, and both queues keep order).
THEOREM KeyBeforeAudio == Spec => []TxBeforeAudio
<1>1. IInv /\ Ordered => TxBeforeAudio
  <2> SUFFICES ASSUME IInv, XmitOrder, arb.owner = "Xmit",
                      NEW i \in DOMAIN ioQ, ioQ[i].kind = "Audio", ioQ[i].ep = ep
               PROVE  /\ \A j \in i .. Len(ioQ) : ioQ[j].kind # "TX"
                      /\ \A j \in DOMAIN todo : todo[j].do # "TX"
    BY DEF TxBeforeAudio, Ordered
  <2>1. /\ ioQ \in Seq(IoCall) /\ todo \in Seq(MainTask) /\ Len(ioQ) \in Nat
        /\ DOMAIN ioQ = 1 .. Len(ioQ) /\ DOMAIN todo = 1 .. Len(todo)
    BY DEF IInv, TypeOK
  <2>2. ioQ[i] \in AudioFor(ep) /\ ioQ[i].kind # "TX"
    BY <2>1 DEF AudioFor
  <2>3. ASSUME NEW j \in i .. Len(ioQ), ioQ[j].kind = "TX"
        PROVE  FALSE
    <3>1. j \in i + 1 .. Len(ioQ) /\ j \in 1 .. Len(ioQ)
      BY <2>1, <2>2, <2>3
    <3>2. ioQ[j] \in TxCalls
      BY <2>1, <2>3, <3>1 DEF TxCalls
    <3>3. QED
      BY <2>1, <2>2, <3>1, <3>2 DEF XmitOrder, NoneAfter
  <2>4. NoneOf(todo, TxTasks)
    BY <2>1, <2>2 DEF XmitOrder, NotYetOpen, NoneOf
  <2>5. ASSUME NEW j \in DOMAIN todo, todo[j].do = "TX"
        PROVE  FALSE
    BY <2>1, <2>4, <2>5 DEF NoneOf, TxTasks
  <2>6. QED
    BY <2>3, <2>5
<1>2. QED
  BY <1>1, Invariance, KeyedInOrder, PTL

-----------------------------------------------------------------------------
(* The pipeline's stop().  Unless the session began before the one of the   *)
(* session before was carried out, none is under way while the link is up.  *)

StopDown ==
  ~overtaken /\ link => ~LostPending /\ NoneOf(todo, StopTasks) /\ NoneOf(txQ, StopCalls)

\* What is remembered of the beginning of the session is written only then.
LEMMA SameSession == ASSUME [Next]_vars, ~LinkUp PROVE overtaken' = overtaken
<1>1. CASE Requests
  BY <1>1 DEF Requests, EngageRequest, ReleaseRequest, XmitStops, Escape, CatStopsRadio, Requested, ioVars
<1>2. CASE ApplyStep
  BY <1>2 DEF ApplyStep, SetTxSource, PostPttActive, SetTxSourceAfterPtt, SendTxRx, SendAbort, StopAudio, MainRuns
<1>3. CASE HearEcho("TX", TRUE) \/ HearEcho("RX", FALSE) \/ HearLost
  BY <1>3 DEF HearEcho, HearLost, Delivered, ioVars
<1>4. CASE TxStep \/ TakeBlock \/ SendBlock \/ MicDeviceLost
  BY <1>4 DEF TxStep, SetPttActive, SwitchSource, ReconcileMic, StopPipeline, MicDeviceLost, OnlyTx, ioVars,
              TakeBlock, SendBlock, AudioOnly
<1>5. CASE IoStep \/ UNCHANGED vars
  BY <1>5 DEF IoStep, IoDrops, IoSendsTx, IoSendsRx, IoSendsAudio, OnlyIo, vars
<1>6. CASE RadioNoticesSilence \/ RadioKeysItself \/ RadioUnkeysItself \/ LinkLost \/ MicAccessAnswered
  BY <1>6 DEF RadioNoticesSilence, RadioKeysItself, RadioUnkeysItself, OnlyRadio, LinkLost, MicAccessAnswered, ioVars
<1>7. QED
  BY <1>1, <1>2, <1>3, <1>4, <1>5, <1>6 DEF Next, MainStep, Environment

\* A session that begins in time begins with nobody holding the transmitter.
LEMMA SessionBegins ==
  ASSUME IInv, LinkInv, LinkUp, ~overtaken'
  PROVE  arb'.owner = "None" /\ arb'.route = "None"
<1>1. ~link /\ ~StopDue /\ arb' = arb
  BY DEF LinkUp, mainVars
<1>2. ~LostPending
  BY <1>1 DEF StopDue, LostPending
<1>3. arb.owner = "None"
  BY <1>1, <1>2 DEF LinkInv, NoHoldOffline
<1>4. QED
  BY <1>1, <1>3 DEF IInv, TypeOK, Paired

LEMMA StopDownNext == ASSUME IInv, IInv', StopDown, [Next]_vars PROVE StopDown'
<1> SUFFICES ASSUME ~overtaken' PROVE StopDown'
  BY DEF StopDown
<1>1. /\ txQ \in Seq(TxCall) /\ todo \in Seq(MainTask) /\ mainQ \in Seq(Event)
      /\ \A c \in TxCall : c \in StopCalls => c.kind # "Switch"
      /\ Reconcile \notin StopCalls /\ MicAccess \notin StopCalls /\ \A on : Gate(on) \notin StopCalls
      /\ {} \in SUBSET StopCalls /\ {} \in SUBSET StopTasks /\ Reconcile \notin {}
  BY DEF StopCalls, Reconcile, MicAccess, Gate, IInv, TypeOK
<1>2. CASE LinkUp
  <2>1. ~StopDue /\ UNCHANGED <<mainQ, todo, txQ>>
    BY <1>2 DEF LinkUp, mainVars
  <2>2. DOMAIN txQ = 1 .. Len(txQ) /\ DOMAIN todo = 1 .. Len(todo)
    BY <1>1
  <2>3. ~LostPending /\ NoneOf(todo, StopTasks) /\ NoneOf(txQ, StopCalls)
    BY <2>1, <2>2 DEF StopDue, LostPending, NoneOf, StopTasks, StopCalls
  <2>4. ~LostPending' /\ NoneOf(todo', StopTasks) /\ NoneOf(txQ', StopCalls)
    BY <2>1, <2>3 DEF LostPending
  <2>5. QED
    BY <2>4 DEF StopDown, StopTasks, StopCalls
<1> SUFFICES ASSUME ~overtaken, ~LinkUp PROVE StopDown'
  BY <1>2, SameSession
<1>3. \A c \in TxCall : NoneOf(Append(txQ, c), StopCalls) <=> NoneOf(txQ, StopCalls) /\ c \notin StopCalls
  BY <1>1, NoneKept
<1>4. txQ # <<>> /\ NoneOf(txQ, StopCalls) => NoneOf(Tail(txQ), StopCalls)
  BY <1>1, NoneKept
<1>5. LostPending' => LostPending \/ LinkLost
  BY LossKept
\* The link stays up.
<1>6. ASSUME link => ~LinkLost /\ (NoneOf(todo, StopTasks) => NoneOf(todo', StopTasks)),
             link => (NoneOf(todo, StopTasks) /\ NoneOf(txQ, StopCalls) => NoneOf(txQ', StopCalls)),
             link' => link
      PROVE  StopDown'
  BY <1>5, <1>6 DEF StopDown, StopTasks, StopCalls
<1>7. CASE LinkLost
  BY <1>7 DEF LinkLost, StopDown
<1>8. ASSUME NEW r, Decided(r, <<>>), todo' = Steps(r.e), mainQ' = mainQ \/ (mainQ # <<>> /\ mainQ' = Tail(mainQ))
      PROVE  StopDown'
  <2>1. NoneOf(todo', StopTasks) /\ UNCHANGED <<txQ, link>>
    BY <1>8, HandlerEnds DEF Decided
  <2>2. ~LinkLost
    <3>1. \A c : mainQ' # Append(mainQ, c)
      BY <1>1, <1>8
    <3>2. QED
      BY <3>1 DEF LinkLost
  <2>3. QED
    BY <1>6, <2>1, <2>2
<1>9. CASE Requests
  <2>1. CASE CatStopsRadio
    <3>1. todo' = <<[do |-> "RX"]>> /\ UNCHANGED <<link, txQ, mainQ>>
      BY <2>1 DEF CatStopsRadio, ioVars
    <3>2. NoneOf(todo', StopTasks)
      BY <3>1 DEF NoneOf, StopTasks
    <3>3. link => ~LinkLost
      BY <3>1 DEF LinkLost
    <3>4. QED
      BY <1>6, <3>1, <3>2, <3>3
  <2>2. CASE ~CatStopsRadio
    BY <1>8, <1>9, <2>2, RequestsDecide
  <2>3. QED
    BY <2>1, <2>2
<1>10. ASSUME NEW kind \in {"TX", "RX"}, NEW tx \in BOOLEAN, HearEcho(kind, tx)
       PROVE  StopDown'
  <2>1. CASE UNCHANGED <<arb, todo, ep, pipe, txQ, link, ioQ, radio>>
    <3>1. link => ~LinkLost
      BY <2>1 DEF LinkLost
    <3>2. QED
      BY <1>6, <2>1, <3>1
  <2>2. CASE ~UNCHANGED <<arb, todo, ep, pipe, txQ, link, ioQ, radio>>
    BY <1>8, <1>10, <2>2, EchoDecides
  <2>3. QED
    BY <2>1, <2>2
<1>11. CASE HearLost
  <2>1. LostPending
    <3>1. mainQ # <<>> /\ Head(mainQ) \in Losses
      BY <1>11, LossDecides
    <3>2. ~NoneOf(mainQ, Losses)
      BY <1>1, <3>1, NoneKept
    <3>3. QED
      BY <1>1, <3>2, LostIs
  <2>2. link' = link
    BY <1>11, LossDecides DEF Decided
  <2>3. QED
    BY <2>1, <2>2 DEF StopDown
<1>12. CASE ApplyStep
  <2>1. UNCHANGED <<link, mainQ>>
    BY <1>12 DEF ApplyStep, SetTxSource, PostPttActive, SetTxSourceAfterPtt, SendTxRx, SendAbort,
                 StopAudio, MainRuns
  <2>2. link => ~LinkLost
    BY <2>1 DEF LinkLost
  <2>3. ASSUME NEW what, Doing(what)
        PROVE  /\ Head(todo) \in MainTask /\ Head(todo).do = what
               /\ NoneOf(todo, StopTasks) <=> Head(todo) \notin StopTasks /\ NoneOf(todo', StopTasks)
    BY <1>1, <2>3, TaskDone
  <2>4. CASE SetTxSource \/ SetTxSourceAfterPtt
    <3>1. NoneOf(txQ', StopCalls) <=> NoneOf(txQ, StopCalls)
      BY <1>1, <2>4, SourceWritten
    <3>2. QED
      BY <1>6, <2>1, <2>2, <2>3, <2>4, <3>1 DEF SetTxSource, SetTxSourceAfterPtt
  <2>5. CASE SendTxRx \/ SendAbort
    BY <1>6, <2>1, <2>2, <2>3, <2>5 DEF SendTxRx, SendAbort
  <2>6. CASE PostPttActive
    <3>1. Head(todo) \in MainTask /\ Head(todo).do = "Gate" /\ ep \in Nat
      BY <2>3, <2>6 DEF PostPttActive, IInv, TypeOK
    <3>2. Head(todo).on \in BOOLEAN
      BY <3>1 DEF MainTask
    <3>3. Gate(Head(todo).on) \in TxCall
      BY <3>1, <3>2, CallTyped
    <3>4. txQ' = txQ \/ txQ' = Append(txQ, Gate(Head(todo).on))
      BY <2>6 DEF PostPttActive
    <3>5. NoneOf(txQ, StopCalls) => NoneOf(txQ', StopCalls)
      BY <1>1, <1>3, <3>3, <3>4
    <3>6. QED
      BY <1>6, <2>1, <2>2, <2>3, <2>6, <3>5 DEF PostPttActive
  <2>7. CASE StopAudio
    <3>0. Head(todo) \in MainTask /\ Head(todo).do = "Stop"
      BY <2>3, <2>7 DEF StopAudio
    <3>1. Head(todo) \in StopTasks
      BY <3>0 DEF StopTasks
    <3>2. ~NoneOf(todo, StopTasks)
      BY <2>3, <2>7, <3>1 DEF StopAudio
    <3>3. QED
      BY <2>1, <3>2 DEF StopDown
  <2>8. QED
    BY <1>12, <2>4, <2>5, <2>6, <2>7 DEF ApplyStep
<1>13. CASE TxStep \/ MicAccessAnswered
  <2>1. UNCHANGED <<link, mainQ, todo>>
    BY <1>13 DEF TxStep, SetPttActive, SwitchSource, ReconcileMic, StopPipeline, MicAccessAnswered,
                 OnlyTx, mainVars, ioVars
  <2>2. link => ~LinkLost
    BY <2>1 DEF LinkLost
  <2>3. NoneOf(txQ, StopCalls) => NoneOf(txQ', StopCalls)
    <3>1. CASE SwitchSource
      BY <1>1, <3>1, SourceWritten
    <3>2. CASE MicAccessAnswered
      <4>1. txQ' = Append(txQ, MicAccess) /\ MicAccess \in TxCall
        BY <3>2, CallTyped DEF MicAccessAnswered
      <4>2. QED
        BY <1>1, <1>3, <4>1
    <3>3. CASE SetPttActive \/ ReconcileMic \/ StopPipeline
      BY <1>4, <3>3 DEF SetPttActive, ReconcileMic, StopPipeline, Take
    <3>4. QED
      BY <1>13, <3>1, <3>2, <3>3 DEF TxStep
  <2>4. QED
    BY <1>6, <2>1, <2>2, <2>3
<1>14. CASE TakeBlock \/ SendBlock \/ IoStep \/ RadioNoticesSilence \/ RadioKeysItself \/ RadioUnkeysItself \/ MicDeviceLost
              \/ UNCHANGED vars
  <2>1. UNCHANGED <<link, todo, txQ>>
    BY <1>14 DEF TakeBlock, SendBlock, AudioOnly, IoStep, IoDrops, IoSendsTx, IoSendsRx, IoSendsAudio, OnlyIo, RadioNoticesSilence,
                 RadioKeysItself, RadioUnkeysItself, OnlyRadio, MicDeviceLost, OnlyTx, mainVars, ioVars, vars
  <2>2. link => ~LinkLost
    BY <2>1 DEF LinkLost
  <2>3. QED
    BY <1>6, <2>1, <2>2
<1>15. QED
  BY <1>7, <1>9, <1>10, <1>11, <1>12, <1>13, <1>14 DEF Next, MainStep, Environment

-----------------------------------------------------------------------------
(* The source.  Whatever is posted and whatever is still to be posted, an   *)
(* open gate ends up with the holder's own source.                          *)

SourcePosted(src) ==
  Ends(txQ, SwitchCalls, SwitchCall(src)) \/ (NoneOf(txQ, SwitchCalls) /\ pipe.source = src)

SourceWillBe(src) ==
  Ends(todo, SourceTasks, SourceTask(src)) \/ (NoneOf(todo, SourceTasks) /\ SourcePosted(src))

SourceInv == ~overtaken /\ ~LostPending /\ NeedsGate(arb.route) => SourceWillBe(SourceFor(arb.owner))

LEMMA SourceDecided ==
  ASSUME IInv, SourceInv, NEW r, Decided(r, <<>>), todo' = Steps(r.e), ~LostPending
  PROVE  SourceInv'
<1> SUFFICES ASSUME ~overtaken, NeedsGate(arb'.route), NEW src, src = SourceFor(arb'.owner)
             PROVE  SourceWillBe(src)'
  BY DEF SourceInv, Decided
<1>1. /\ todo = <<>> /\ arb' = r.s /\ r.e \in Effects /\ UNCHANGED <<pipe, txQ>>
      /\ Sourced(arb, r)
  BY ArbiterReachable, EveryDecisionSourced DEF Decided
<1>2. src \in AudioSource /\ src = SourceFor(r.s.owner)
  BY <1>1 DEF SourceFor, AudioSource
<1>3. /\ NoneOf(todo', SourceTasks) <=> ~r.e.setSource
      /\ Ends(todo', SourceTasks, SourceTask(src)) <=> r.e.setSource /\ r.e.source = src
  BY <1>1, <1>2, HandlerEnds
<1>4. CASE r.e.setSource
  <2>1. r.e.source = src
    BY <1>1, <1>2, <1>4 DEF Sourced
  <2>2. QED
    BY <1>1, <1>3, <1>4, <2>1 DEF SourceWillBe, SourceTasks, SourceTask
<1>5. CASE ~r.e.setSource
  <2>1. NeedsGate(arb.route) /\ SourceFor(arb.owner) = src
    BY <1>1, <1>2, <1>5 DEF Sourced
  <2>2. SourceWillBe(src)
    BY <2>1 DEF SourceInv
  <2>3. NoneOf(todo, SourceTasks) /\ ~Ends(todo, SourceTasks, SourceTask(src))
    BY <1>1, EmptyEnds
  <2>4. SourcePosted(src)
    BY <2>2, <2>3 DEF SourceWillBe
  <2>5. SourcePosted(src)'
    BY <1>1, <2>4 DEF SourcePosted, SwitchCalls, SwitchCall
  <2>6. QED
    BY <1>1, <1>3, <1>5, <2>5 DEF SourceWillBe, SourceTasks
<1>6. QED
  BY <1>4, <1>5

LEMMA SourceInvNext == ASSUME IInv, IInv', LinkInv, StopDown, SourceInv, [Next]_vars PROVE SourceInv'
<1> SUFFICES ASSUME ~overtaken' PROVE SourceInv'
  BY DEF SourceInv
<1>1. CASE LinkUp
  BY <1>1, SessionBegins DEF SourceInv, NeedsGate
<1> SUFFICES ASSUME ~overtaken, ~LinkUp PROVE SourceInv'
  BY <1>1, SameSession
<1>2. /\ txQ \in Seq(TxCall) /\ todo \in Seq(MainTask) /\ pipe.source \in AudioSource
      /\ pipe \in [gate : BOOLEAN, source : AudioSource, mic : BOOLEAN, ep : Nat]
      /\ \A src : SourceTask(src) \in SUBSET SourceTasks /\ SwitchCall(src) \in SUBSET SwitchCalls
      /\ Reconcile \notin SwitchCalls /\ Stop \notin SwitchCalls /\ MicAccess \notin SwitchCalls /\ \A on : Gate(on) \notin SwitchCalls
  BY DEF SourceTask, SourceTasks, SwitchCall, SwitchCalls, Reconcile, MicAccess, Stop, Gate, IInv, TypeOK
<1>3. LostPending /\ ~HearLost => LostPending'
  BY LossKept
<1>4. ASSUME UNCHANGED arb, ~HearLost,
             NEW src, src = SourceFor(arb.owner),
             NeedsGate(arb.route) /\ ~LostPending /\ SourceWillBe(src) => SourceWillBe(src)'
      PROVE  SourceInv'
  BY <1>3, <1>4 DEF SourceInv
<1>5. ASSUME UNCHANGED <<arb, todo>>, ~HearLost, NEW src, src = SourceFor(arb.owner),
             NeedsGate(arb.route) /\ ~LostPending /\ SourcePosted(src) => SourcePosted(src)'
      PROVE  SourceInv'
  <2>1. NeedsGate(arb.route) /\ ~LostPending /\ SourceWillBe(src) => SourceWillBe(src)'
    BY <1>5 DEF SourceWillBe, SourceTasks, SourceTask
  <2>2. QED
    BY <1>4, <1>5, <2>1
<1>6. ASSUME NEW src, \/ txQ' = txQ
                      \/ \E c \in TxCall \ SwitchCalls : txQ' = Append(txQ, c)
                      \/ txQ # <<>> /\ Head(txQ) \notin SwitchCalls /\ txQ' = Tail(txQ),
             pipe'.source = pipe.source
      PROVE  SourcePosted(src) => SourcePosted(src)'
  <2>1. \A c \in TxCall : /\ NoneOf(Append(txQ, c), SwitchCalls) <=> NoneOf(txQ, SwitchCalls) /\ c \notin SwitchCalls
                          /\ Ends(Append(txQ, c), SwitchCalls, SwitchCall(src))
                               <=> c \in SwitchCall(src) \/ (c \notin SwitchCalls /\ Ends(txQ, SwitchCalls, SwitchCall(src)))
    BY <1>2, AppendEnds
  <2>2. txQ # <<>> =>
          /\ NoneOf(txQ, SwitchCalls) <=> Head(txQ) \notin SwitchCalls /\ NoneOf(Tail(txQ), SwitchCalls)
          /\ Ends(txQ, SwitchCalls, SwitchCall(src))
               <=> \/ Ends(Tail(txQ), SwitchCalls, SwitchCall(src))
                   \/ Head(txQ) \in SwitchCall(src) /\ NoneOf(Tail(txQ), SwitchCalls)
    BY <1>2, TailEnds
  <2>3. /\ NoneOf(txQ, SwitchCalls) => NoneOf(txQ', SwitchCalls)
        /\ Ends(txQ, SwitchCalls, SwitchCall(src)) => Ends(txQ', SwitchCalls, SwitchCall(src))
    BY <1>2, <1>6, <2>1, <2>2
  <2>4. QED
    BY <1>6, <2>3 DEF SourcePosted, SwitchCalls, SwitchCall
<1>7. ASSUME UNCHANGED <<arb, todo>>, ~HearLost, pipe'.source = pipe.source,
             \/ txQ' = txQ
             \/ \E c \in TxCall \ SwitchCalls : txQ' = Append(txQ, c)
             \/ txQ # <<>> /\ Head(txQ) \notin SwitchCalls /\ txQ' = Tail(txQ)
      PROVE  SourceInv'
  BY <1>5, <1>6, <1>7
\* Somebody who streams has a radio, and no stop() under way.
<1>8. NeedsGate(arb.route) /\ ~LostPending => link /\ NoneOf(txQ, StopCalls)
  BY DEF LinkInv, NoHoldOffline, StopDown, NeedsGate, IInv, TypeOK, Paired
<1>9. ASSUME NEW r, Decided(r, <<>>), todo' = Steps(r.e), ~HearLost
      PROVE  SourceInv'
  BY <1>3, <1>9, SourceDecided DEF SourceInv
<1>10. CASE HearLost
  <2>1. arb'.route = "None"
    BY <1>10, LossDecides DEF Decided
  <2>2. QED
    BY <2>1 DEF SourceInv, NeedsGate
<1>11. ASSUME NEW kind \in {"TX", "RX"}, NEW tx \in BOOLEAN, HearEcho(kind, tx)
       PROVE  SourceInv'
  <2>1. ~HearLost
    BY <1>11 DEF HearLost, HearEcho, Delivered
  <2>2. CASE UNCHANGED <<arb, todo, ep, pipe, txQ, link, ioQ, radio>>
    BY <1>7, <2>1, <2>2
  <2>3. CASE ~UNCHANGED <<arb, todo, ep, pipe, txQ, link, ioQ, radio>>
    BY <1>9, <1>11, <2>1, <2>3, EchoDecides
  <2>4. QED
    BY <2>2, <2>3
<1>12. CASE Requests
  <2>1. ~HearLost
    BY <1>12, RequestsDecide, NotHearing DEF CatStopsRadio
  <2>2. CASE CatStopsRadio
    <3>1. todo = <<>> /\ todo' = <<[do |-> "RX"]>> /\ UNCHANGED <<arb, pipe, txQ>>
      BY <2>2 DEF CatStopsRadio, Idling
    <3>2. NoneOf(todo, SourceTasks) /\ \A src : ~Ends(todo, SourceTasks, SourceTask(src))
      BY <3>1, EmptyEnds
    <3>3. NoneOf(todo', SourceTasks)
      BY <3>1 DEF NoneOf, SourceTasks
    <3>4. ASSUME NEW src, SourceWillBe(src)
          PROVE  SourceWillBe(src)'
      <4>1. SourcePosted(src)
        BY <3>2, <3>4 DEF SourceWillBe
      <4>2. SourcePosted(src)'
        BY <3>1, <4>1 DEF SourcePosted, SwitchCalls, SwitchCall
      <4>3. QED
        BY <3>3, <4>2 DEF SourceWillBe, SourceTasks
    <3>5. QED
      BY <1>4, <2>1, <3>1, <3>4
  <2>3. CASE ~CatStopsRadio
    BY <1>9, <1>12, <2>1, <2>3, RequestsDecide
  <2>4. QED
    BY <2>2, <2>3
<1>13. CASE ApplyStep
  <2>0. ~HearLost /\ UNCHANGED arb
    BY <1>13 DEF ApplyStep, SetTxSource, PostPttActive, SetTxSourceAfterPtt, SendTxRx, SendAbort,
                 StopAudio, MainRuns, Doing, HearLost, Delivered, Idling
  <2>1. ASSUME NEW what, Doing(what), NEW src
        PROVE  /\ Head(todo) \in MainTask /\ Head(todo).do = what
               /\ NoneOf(todo, SourceTasks) <=> Head(todo) \notin SourceTasks /\ NoneOf(todo', SourceTasks)
               /\ Ends(todo, SourceTasks, SourceTask(src))
                    <=> \/ Ends(todo', SourceTasks, SourceTask(src))
                        \/ Head(todo) \in SourceTask(src) /\ NoneOf(todo', SourceTasks)
    BY <1>2, <2>1, TaskDone
  <2>2. CASE SetTxSource \/ SetTxSourceAfterPtt
    <3>1. PICK what \in {"Source", "Switch"} : Doing(what)
      BY <2>2 DEF SetTxSource, SetTxSourceAfterPtt
    <3>2. Head(todo) \in MainTask /\ Head(todo).do \in {"Source", "Switch"}
      BY <2>1, <3>1
    <3>3. PICK new \in AudioSource : new = Head(todo).src
      BY <3>2 DEF MainTask
    <3>4. Head(todo) \in SourceTasks /\ \A src : Head(todo) \in SourceTask(src) <=> src = new
      BY <3>2, <3>3 DEF SourceTasks, SourceTask
    <3>5. NoneOf(Superseded, SwitchCalls) /\ Superseded \in Seq(TxCall)
      BY <1>2, NoSwitchCounts, SupersededTyped
    <3>6. SourcePosted(new)'
      <4>1. CASE SetTxSource
        <5>1. pipe'.source = new /\ txQ' = Superseded \o Only(pipe.source # new, Reconcile)
          BY <1>2, <3>3, <4>1 DEF SetTxSource
        <5>2. NoneOf(txQ', SwitchCalls)
          <6>1. \A cond \in BOOLEAN : NoneOf(Superseded \o Only(cond, Reconcile), SwitchCalls)
                   <=> NoneOf(Superseded, SwitchCalls) /\ (cond => Reconcile \notin SwitchCalls)
            <7>1. {} \in SUBSET SwitchCalls /\ Reconcile \in TxCall
              BY CallTyped
            <7>2. QED
              BY <3>5, <7>1, OnlyEnds
          <6>2. (pipe.source # new) \in BOOLEAN
            OBVIOUS
          <6>3. QED
            BY <1>2, <3>5, <5>1, <6>1, <6>2
        <5>3. QED
          BY <5>1, <5>2 DEF SourcePosted, SwitchCalls
      <4>2. CASE SetTxSourceAfterPtt
        <5>1. txQ' = Append(Superseded, SwitchTo(new))
          BY <3>3, <4>2 DEF SetTxSourceAfterPtt
        <5>2. SwitchTo(new) \in TxCall
          BY <3>3, CallTyped
        <5>3. SwitchTo(new) \in SwitchCall(new)
          BY <5>2 DEF SwitchTo, SwitchCall, SwitchCalls
        <5>4. Ends(txQ', SwitchCalls, SwitchCall(new))
          <6>1. SwitchCall(new) \in SUBSET SwitchCalls
            BY <1>2
          <6>2. Ends(Append(Superseded, SwitchTo(new)), SwitchCalls, SwitchCall(new))
            BY <3>5, <5>2, <5>3, <6>1, AppendEnds
          <6>3. QED
            BY <5>1, <6>2
        <5>5. QED
          BY <5>4 DEF SourcePosted, SwitchCalls, SwitchCall
      <4>3. QED
        BY <2>2, <4>1, <4>2
    <3>7. ASSUME NEW src, SourceWillBe(src)
          PROVE  SourceWillBe(src)'
      <4>1. Ends(todo', SourceTasks, SourceTask(src)) \/ (src = new /\ NoneOf(todo', SourceTasks))
        BY <2>1, <3>1, <3>4, <3>7 DEF SourceWillBe
      <4>2. QED
        BY <3>6, <4>1 DEF SourceWillBe, SourceTasks, SourceTask
    <3>8. QED
      BY <1>4, <2>0, <3>7
  <2>3. CASE SendTxRx \/ SendAbort \/ PostPttActive \/ StopAudio
    <3>1. PICK what \in {"TX", "RX", "Abort", "Gate", "Stop"} : Doing(what)
      BY <2>3 DEF SendTxRx, SendAbort, PostPttActive, StopAudio
    <3>2. Head(todo) \in MainTask /\ Head(todo).do = what
      BY <2>1, <3>1
    <3>3. Head(todo) \notin SourceTasks /\ \A src : Head(todo) \notin SourceTask(src)
      BY <3>2 DEF SourceTasks, SourceTask
    <3>4. pipe'.source = pipe.source /\ (txQ' = txQ \/ \E c \in TxCall \ SwitchCalls : txQ' = Append(txQ, c))
      <4>1. CASE SendTxRx \/ SendAbort
        BY <4>1 DEF SendTxRx, SendAbort
      <4>2. CASE StopAudio
        BY <1>2, <4>2, CallTyped DEF StopAudio
      <4>3. CASE PostPttActive
        <5>1. Head(todo).do = "Gate" /\ ep \in Nat
          BY <4>3 DEF PostPttActive, Doing, IInv, TypeOK
        <5>2. Head(todo).on \in BOOLEAN
          BY <3>2, <5>1 DEF MainTask
        <5>3. Gate(Head(todo).on) \in TxCall
          BY <5>1, <5>2, CallTyped
        <5>4. QED
          BY <1>2, <4>3, <5>3 DEF PostPttActive
      <4>4. QED
        BY <2>3, <4>1, <4>2, <4>3
    <3>5. ASSUME NEW src, SourceWillBe(src)
          PROVE  SourceWillBe(src)'
      <4>1. Ends(todo', SourceTasks, SourceTask(src)) \/ (NoneOf(todo', SourceTasks) /\ SourcePosted(src))
        BY <2>1, <3>1, <3>3, <3>5 DEF SourceWillBe
      <4>2. SourcePosted(src) => SourcePosted(src)'
        BY <1>6, <3>4
      <4>3. QED
        BY <4>1, <4>2 DEF SourceWillBe, SourceTasks, SourceTask
    <3>6. QED
      BY <1>4, <2>0, <3>5
  <2>4. QED
    BY <1>13, <2>2, <2>3 DEF ApplyStep
<1>14. CASE TxStep
  <2>0. ~HearLost /\ UNCHANGED <<arb, todo>>
    BY <1>14, NotHearing DEF TxStep, SetPttActive, SwitchSource, ReconcileMic, StopPipeline, OnlyTx, mainVars
  <2>1. ASSUME NEW kind, Take(kind)
        PROVE  txQ # <<>> /\ Head(txQ) \in TxCall /\ Head(txQ).kind = kind
    BY <1>2, <2>1 DEF Take
  <2>2. CASE SetPttActive \/ ReconcileMic
    <3>1. txQ # <<>> /\ Head(txQ).kind \in {"Gate", "Reconcile", "Access"} /\ txQ' = Tail(txQ) /\ Head(txQ) \in TxCall
      BY <2>1, <2>2 DEF SetPttActive, ReconcileMic
    <3>2. Head(txQ) \notin SwitchCalls
      BY <3>1 DEF SwitchCalls
    <3>3. pipe'.source = pipe.source
      <4>1. CASE SetPttActive
        <5>1. Head(txQ).kind = "Gate"
          BY <4>1 DEF SetPttActive, Take
        <5>2. Head(txQ).on \in BOOLEAN /\ Head(txQ).ep \in Nat
          BY <3>1, <5>1 DEF TxCall
        <5> DEFINE p == [pipe EXCEPT !.gate = Head(txQ).on, !.ep = IF Head(txQ).on THEN Head(txQ).ep ELSE 0]
        <5>3. p \in [gate : BOOLEAN, source : AudioSource, mic : BOOLEAN, ep : Nat] /\ p.source = pipe.source
          BY <1>2, <5>2
        <5>4. pipe' \in Reconciled(p)
          BY <4>1 DEF SetPttActive
        <5> HIDE DEF p
        <5>5. QED
          BY <5>3, <5>4 DEF Reconciled
      <4>2. CASE ReconcileMic
        BY <1>2, <4>2 DEF ReconcileMic, Reconciled
      <4>3. QED
        BY <2>2, <4>1, <4>2
    <3>4. QED
      BY <1>7, <2>0, <3>1, <3>2, <3>3
  <2>3. CASE StopPipeline
    <3>1. txQ # <<>> /\ Head(txQ) \in TxCall /\ Head(txQ).kind = "Stop"
      BY <2>1, <2>3 DEF StopPipeline
    <3>2. Head(txQ) \in StopCalls
      BY <3>1 DEF StopCalls
    <3>3. ~NoneOf(txQ, StopCalls)
      BY <1>2, <3>1, <3>2, NoneKept
    <3>4. QED
      BY <1>5, <1>8, <2>0, <3>3
  <2>4. CASE SwitchSource
    <3> DEFINE c == Head(txQ)
               changes == c.current /\ c.src # pipe.source
    <3>1. txQ # <<>> /\ c \in TxCall /\ c.kind = "Switch" /\ Tail(txQ) \in Seq(TxCall)
      BY <1>2, <2>1, <2>4 DEF SwitchSource
    <3>2. c.current \in BOOLEAN /\ c.src \in AudioSource
      BY <3>1 DEF TxCall
    <3>3. /\ c \in SwitchCalls <=> c.current
          /\ \A src : c \in SwitchCall(src) <=> c.current /\ c.src = src
      BY <3>1 DEF SwitchCalls, SwitchCall
    <3>4. /\ pipe' = (IF changes THEN [pipe EXCEPT !.source = c.src] ELSE pipe)
          /\ txQ' = Tail(txQ) \o Only(changes, Reconcile)
      BY <2>4 DEF SwitchSource
    <3>5. pipe'.source = (IF c.current THEN c.src ELSE pipe.source)
      BY <1>2, <3>2, <3>4
    <3>6. changes \in BOOLEAN
      BY <3>2
    <3> HIDE DEF c, changes
    <3>7. ASSUME NEW src, SourcePosted(src)
          PROVE  SourcePosted(src)'
      <4>1. /\ NoneOf(txQ, SwitchCalls) <=> c \notin SwitchCalls /\ NoneOf(Tail(txQ), SwitchCalls)
            /\ Ends(txQ, SwitchCalls, SwitchCall(src))
                 <=> \/ Ends(Tail(txQ), SwitchCalls, SwitchCall(src))
                     \/ c \in SwitchCall(src) /\ NoneOf(Tail(txQ), SwitchCalls)
        BY <1>2, <3>1, TailEnds DEF c
      <4>2. Reconcile \notin SwitchCall(src)
        BY <1>2
      <4>3. \A q \in Seq(TxCall), cond \in BOOLEAN :
              /\ NoneOf(q \o Only(cond, Reconcile), SwitchCalls) <=> NoneOf(q, SwitchCalls) /\ (cond => Reconcile \notin SwitchCalls)
              /\ Ends(q \o Only(cond, Reconcile), SwitchCalls, SwitchCall(src)) <=>
                   \/ cond /\ Reconcile \in SwitchCall(src)
                   \/ Ends(q, SwitchCalls, SwitchCall(src)) /\ (cond => Reconcile \notin SwitchCalls)
        <5>1. Reconcile \in TxCall /\ SwitchCall(src) \in SUBSET SwitchCalls
          BY <1>2, CallTyped
        <5>2. QED
          BY <5>1, OnlyEnds
      <4>4. /\ NoneOf(txQ', SwitchCalls) <=> NoneOf(Tail(txQ), SwitchCalls)
            /\ Ends(txQ', SwitchCalls, SwitchCall(src)) <=> Ends(Tail(txQ), SwitchCalls, SwitchCall(src))
        BY <1>2, <3>1, <3>4, <3>6, <4>2, <4>3
      <4>5. Ends(txQ', SwitchCalls, SwitchCall(src)) \/ (NoneOf(txQ', SwitchCalls) /\ pipe'.source = src)
        BY <3>3, <3>5, <3>7, <4>1, <4>4 DEF SourcePosted
      <4>6. QED
        BY <4>5 DEF SourcePosted, SwitchCalls, SwitchCall
    <3>8. QED
      BY <1>5, <2>0, <3>7
  <2>5. QED
    BY <1>14, <2>2, <2>3, <2>4 DEF TxStep
<1>15. CASE TakeBlock \/ SendBlock \/ IoStep \/ Environment \/ UNCHANGED vars
  <2>1. UNCHANGED <<arb, todo>>
    BY <1>15 DEF TakeBlock, SendBlock, AudioOnly, IoStep, IoDrops, IoSendsTx, IoSendsRx, IoSendsAudio, OnlyIo, Environment,
                 RadioNoticesSilence, RadioKeysItself, RadioUnkeysItself, OnlyRadio, LinkLost, LinkUp,
                 MicDeviceLost, MicAccessAnswered, OnlyTx, mainVars, vars
  <2>2. pipe'.source = pipe.source /\ (txQ' = txQ \/ txQ' = Append(txQ, MicAccess))
    BY <1>2, <1>15 DEF TakeBlock, SendBlock, AudioOnly, IoStep, IoDrops, IoSendsTx, IoSendsRx, IoSendsAudio, OnlyIo, Environment,
                 RadioNoticesSilence, RadioKeysItself, RadioUnkeysItself, OnlyRadio, LinkLost, LinkUp,
                 MicDeviceLost, MicAccessAnswered, vars
  <2>3. QED
    BY <1>2, <1>7, <1>10, <2>1, <2>2, CallTyped
<1>16. QED
  BY <1>10, <1>11, <1>12, <1>13, <1>14, <1>15 DEF Next, MainStep

-----------------------------------------------------------------------------
(* A TCI client has the air. *)

\* What would give the air to the room: the pipeline stopped, or its source the microphone's again.
AwayTasks == {t \in MainTask : t.do \in {"Stop", "Switch"} \/ (t.do = "Source" /\ t.src # "Tci")}

ToTci == {t \in MainTask : t.do = "Source"}

\* The source is the client's, or the handler is still to name it and no gate is open, nor posted, for
\* the client's transmission.
TciRoom ==
  ~overtaken /\ arb.owner = "TciClient" =>
    /\ arb.route = "StreamedFromHere"
    /\ NoneOf(todo, AwayTasks) /\ NoneOf(txQ, StopCalls)
    /\ NoneAfter(todo, GateTasks, ToTci)
    /\ NoneOf(todo, ToTci) => pipe.source = "Tci" /\ NoneOf(txQ, SwitchCalls)
    /\ ~NoneOf(todo, ToTci) => pipe.ep < ep /\ NoneOf(txQ, GateFor(ep))

\* Asking again for what is held changes nothing.
LEMMA AgainIsQuiet ==
  ASSUME NEW s, NEW who, s.owner = who
  PROVE  Inert(Transition(s, who, s.route).e)
<1> DEFINE e == Transition(s, who, s.route).e
<1>1. /\ e.sendTx = FALSE /\ e.sendRx = FALSE /\ e.abortCw = FALSE
      /\ e.setGate = FALSE /\ e.setSource = FALSE
  BY DEF Transition, NoEffects, NeedsGate, KeyedByCat
<1>2. QED
  BY <1>1 DEF Inert

\* The handler that gives the transmitter to the client names its source, and nothing else.
LEMMA StartSteps ==
  ASSUME NEW e \in Effects, e.setSource, e.gateActive, e.source = "Tci"
  PROVE  NoneOf(Steps(e), AwayTasks) /\ ~NoneOf(Steps(e), ToTci)
<1>1. /\ e.setSource \in BOOLEAN /\ e.gateActive \in BOOLEAN /\ e.sendTx \in BOOLEAN
      /\ e.setGate \in BOOLEAN /\ e.abortCw \in BOOLEAN /\ e.sendRx \in BOOLEAN
      /\ [do |-> "Source", src |-> e.source] \in MainTask
  BY DEF Effects, MainTask
<1>2. /\ [do |-> "Source", src |-> e.source] \notin AwayTasks
      /\ [do |-> "TX"] \notin AwayTasks /\ [do |-> "Gate", on |-> e.gateActive] \notin AwayTasks
      /\ [do |-> "Abort"] \notin AwayTasks /\ [do |-> "RX"] \notin AwayTasks
  BY DEF AwayTasks
<1>3. [do |-> "Source", src |-> e.source] \in ToTci
  BY <1>1 DEF ToTci
<1>4. \A W : {} \in SUBSET W
  OBVIOUS
<1>5. \A W : NoneOf(Steps(e), W) <=>
               /\ e.setSource /\ e.gateActive => [do |-> "Source", src |-> e.source] \notin W
               /\ e.sendTx => [do |-> "TX"] \notin W
               /\ e.setGate => [do |-> "Gate", on |-> e.gateActive] \notin W
               /\ e.abortCw => [do |-> "Abort"] \notin W
               /\ e.sendRx /\ ~e.abortCw => [do |-> "RX"] \notin W
               /\ e.setSource /\ ~e.gateActive => [do |-> "Switch", src |-> e.source] \notin W
  BY <1>4, StepsEnd
<1>6. QED
  BY <1>2, <1>3, <1>5

LEMMA TciDecided ==
  ASSUME IInv, EpBound, StopDown, TciRoom, NEW r, Decided(r, <<>>), todo' = Steps(r.e),
         link \/ r.s.owner \in {"None", arb.owner},
         r.s.owner = "TciClient" => r.s.route \in {"StreamedFromHere", arb.route}
  PROVE  TciRoom'
<1> SUFFICES ASSUME ~overtaken, r.s.owner = "TciClient" PROVE TciRoom'
  BY DEF TciRoom, Decided
<1>1. /\ arb' = r.s /\ r.e \in Effects /\ todo = <<>> /\ UNCHANGED <<pipe, txQ, link>>
      /\ "TciClient" \in Producer /\ Reachable(arb) /\ Decision(arb, r)
  BY ArbiterReachable DEF Decided, Producer, Owner
<1>2. CASE r.s.owner = arb.owner /\ r.s.route = arb.route /\ Inert(r.e)
  <2>1. todo' = <<>> /\ ep' = ep
    BY <1>1, <1>2, QuietSteps, EpGrows
  <2>2. NoneOf(todo', AwayTasks) /\ NoneOf(todo', ToTci) /\ NoneAfter(todo', GateTasks, ToTci) /\ NoneOf(todo, ToTci)
    BY <1>1, <2>1, EmptyEnds
  <2>3. QED
    BY <1>1, <1>2, <2>1, <2>2 DEF TciRoom, AwayTasks, ToTci, GateTasks, StopCalls, SwitchCalls
<1>3. ASSUME NEW how \in KeyingRoute, MayEngage(arb, "TciClient"), r = Transition(arb, "TciClient", how),
             ~(r.s.owner = arb.owner /\ r.s.route = arb.route /\ Inert(r.e))
      PROVE  TciRoom'
  <2>1. r.s.route = how /\ how # "None"
    BY <1>3 DEF Transition, KeyingRoute
  <2>2. arb.owner \in {"None", "TciClient"}
    BY <1>3 DEF MayEngage, IsLocal
  <2>3. CASE arb.owner = "TciClient"
    <3>1. how = arb.route
      BY <2>1, <2>3 DEF TciRoom
    <3>2. QED
      BY <1>3, <2>1, <2>3, <3>1, AgainIsQuiet
  <2>4. CASE arb.owner = "None"
    <3>1. how = "StreamedFromHere"
      BY <1>1, <2>1, <2>4 DEF Reachable, Paired
    <3>2. r.e.setSource /\ r.e.gateActive /\ r.e.source = "Tci"
      BY <1>1, <1>3, <2>4, <3>1, StartEffects
    <3>3. NoneOf(todo', AwayTasks) /\ ~NoneOf(todo', ToTci)
      BY <1>1, <3>2, StartSteps
    <3>4. NoneAfter(todo', GateTasks, ToTci)
      <4>1. ToTci \in SUBSET MainTask /\ \A t \in ToTci : t.do \in {"Source", "TX"}
        BY DEF ToTci
      <4>2. QED
        BY <1>1, <4>1, StepsOrder
    <3>5. ep' = ep + 1 /\ ep \in Nat /\ pipe.ep \in Nat
      BY <1>1, <2>4, EpGrows DEF IInv, TypeOK
    <3>6. pipe.ep < ep'
      BY <3>5 DEF EpBound
    <3>7. NoneOf(txQ, GateFor(ep'))
      <4>1. \A c : c \in GateFor(ep') => c \in LateGates(ep)
        BY <3>5 DEF GateFor, LateGates
      <4>2. QED
        BY <4>1 DEF EpBound, NoneOf
    <3>8. NoneOf(txQ, StopCalls)
      BY <2>4 DEF StopDown
    <3>9. QED
      BY <1>1, <2>1, <3>1, <3>3, <3>4, <3>6, <3>7, <3>8
         DEF TciRoom, AwayTasks, ToTci, GateTasks, StopCalls, GateFor
  <2>5. QED
    BY <2>2, <2>3, <2>4
<1>4. QED
  BY <1>1, <1>2, <1>3, GrantedOrKept

LEMMA TciRoomNext == ASSUME IInv, LinkInv, EpBound, StopDown, TciRoom, [Next]_vars PROVE TciRoom'
<1> SUFFICES ASSUME ~overtaken' PROVE TciRoom'
  BY DEF TciRoom
<1>1. CASE LinkUp
  BY <1>1, SessionBegins DEF TciRoom
<1> SUFFICES ASSUME ~overtaken, ~LinkUp PROVE TciRoom'
  BY <1>1, SameSession
<1>2. /\ txQ \in Seq(TxCall) /\ todo \in Seq(MainTask) /\ ep \in Nat
      /\ pipe \in [gate : BOOLEAN, source : AudioSource, mic : BOOLEAN, ep : Nat]
      /\ \A c \in TxCall : c \in StopCalls \/ c \in GateFor(ep) => c.kind # "Switch"
      /\ \A W : {} \in SUBSET W
      /\ Reconcile \notin StopCalls \cup SwitchCalls \cup GateFor(ep)
      /\ Stop \notin SwitchCalls \cup GateFor(ep)
      /\ MicAccess \notin StopCalls \cup SwitchCalls \cup GateFor(ep)
      /\ \A on : Gate(on) \notin StopCalls \cup SwitchCalls
  BY DEF StopCalls, SwitchCalls, GateFor, Reconcile, MicAccess, Stop, Gate, IInv, TypeOK
<1>3. \A W : \A c \in TxCall : NoneOf(Append(txQ, c), W) <=> NoneOf(txQ, W) /\ c \notin W
  BY <1>2, NoneKept
<1>4. txQ # <<>> => \A W : NoneOf(txQ, W) <=> Head(txQ) \notin W /\ NoneOf(Tail(txQ), W)
  BY <1>2, NoneKept
<1> DEFINE Waits == pipe.ep < ep /\ NoneOf(txQ, GateFor(ep))
           Named == pipe.source = "Tci" /\ NoneOf(txQ, SwitchCalls)
           Calm == NoneOf(todo, AwayTasks) /\ NoneOf(txQ, StopCalls)
           InOrder == NoneAfter(todo, GateTasks, ToTci)
<1>5. TciRoom /\ arb.owner = "TciClient" =>
        /\ Calm /\ InOrder
        /\ NoneOf(todo, ToTci) => Named
        /\ ~NoneOf(todo, ToTci) => Waits
  BY DEF TciRoom
\* A step of another thread than the main thread.
<1>6. ASSUME UNCHANGED <<arb, todo, ep>>,
             arb.owner = "TciClient" /\ NoneOf(txQ, StopCalls) => NoneOf(txQ', StopCalls),
             arb.owner = "TciClient" /\ Calm /\ Named => Named',
             arb.owner = "TciClient" /\ Calm /\ Waits => Waits'
      PROVE  TciRoom'
  BY <1>5, <1>6 DEF TciRoom, AwayTasks, ToTci, GateTasks, StopCalls, SwitchCalls, GateFor
<1>7. ASSUME NEW r, Decided(r, <<>>), todo' = Steps(r.e),
             link \/ r.s.owner \in {"None", arb.owner},
             r.s.owner = "TciClient" => r.s.route \in {"StreamedFromHere", arb.route}
      PROVE  TciRoom'
  BY <1>7, TciDecided
<1>8. CASE Requests
  <2>1. CASE CatStopsRadio
    BY <2>1 DEF CatStopsRadio, ioVars, TciRoom
  <2>2. CASE ~CatStopsRadio
    BY <1>7, <1>8, <2>2, RequestsDecide
  <2>3. QED
    BY <2>1, <2>2
<1>9. CASE HearLost
  <2>1. arb'.owner = "None"
    BY <1>9, LossDecides DEF Decided
  <2>2. QED
    BY <2>1 DEF TciRoom
<1>10. ASSUME NEW kind \in {"TX", "RX"}, NEW tx \in BOOLEAN, HearEcho(kind, tx)
      PROVE  TciRoom'
  <2>1. CASE UNCHANGED <<arb, todo, ep, pipe, txQ, link, ioQ, radio>>
    BY <1>6, <2>1 DEF SwitchCalls, GateFor
  <2>2. CASE ~UNCHANGED <<arb, todo, ep, pipe, txQ, link, ioQ, radio>>
    <3>1. PICK r : /\ Decided(r, <<>>) /\ todo' = Steps(r.e)
                   /\ r.s.owner \in {"None", "Radio"} \/ (r.s.owner = arb.owner /\ r.s.route = arb.route)
      BY <1>10, <2>2, EchoDecides
    <3>2. CASE r.s.owner = "Radio"
      BY <3>1, <3>2 DEF Decided, TciRoom
    <3>3. CASE r.s.owner # "Radio"
      BY <1>7, <3>1, <3>3
    <3>4. QED
      BY <3>2, <3>3
  <2>3. QED
    BY <2>1, <2>2
\* A task of the handler is done.
<1>11. ASSUME NEW what, Doing(what)
       PROVE  /\ Head(todo) \in MainTask /\ Head(todo).do = what
              /\ \A W : NoneOf(todo, W) <=> Head(todo) \notin W /\ NoneOf(todo', W)
              /\ InOrder => NoneAfter(todo', GateTasks, ToTci) /\ (Head(todo) \in GateTasks => NoneOf(todo', ToTci))
  <2>1. /\ Head(todo) \in MainTask /\ Head(todo).do = what /\ todo # <<>> /\ todo' = Tail(todo)
        /\ \A W : NoneOf(todo, W) <=> Head(todo) \notin W /\ NoneOf(todo', W)
    BY <1>2, <1>11, TaskDone DEF Doing
  <2>2. InOrder => NoneAfter(Tail(todo), GateTasks, ToTci) /\ (Head(todo) \in GateTasks => NoneOf(Tail(todo), ToTci))
    BY <1>2, <2>1, OrderKept
  <2>3. QED
    BY <2>1, <2>2
<1>12. CASE SetTxSource
  <2>1. Doing("Source") /\ pipe' = [pipe EXCEPT !.source = Head(todo).src]
        /\ txQ' = Superseded \o Only(pipe.source # Head(todo).src, Reconcile)
        /\ UNCHANGED <<arb, ep>>
    BY <1>12 DEF SetTxSource, MainRuns
  <2>2. Head(todo) \in MainTask /\ Head(todo).do = "Source"
    BY <1>11, <2>1
  <2>3. Head(todo) \in ToTci /\ (Head(todo) \notin AwayTasks => Head(todo).src = "Tci")
    BY <2>2 DEF ToTci, AwayTasks
  <2>4. (NoneOf(txQ', StopCalls) <=> NoneOf(txQ, StopCalls)) /\ (NoneOf(txQ', GateFor(ep)) <=> NoneOf(txQ, GateFor(ep)))
    BY <1>2, <1>12, SourceWritten
  <2>5. NoneOf(txQ', SwitchCalls)
    <3>1. Superseded \in Seq(TxCall) /\ NoneOf(Superseded, SwitchCalls) /\ Reconcile \in TxCall
      BY <1>2, NoSwitchCounts, SupersededTyped, CallTyped
    <3>2. (pipe.source # Head(todo).src) \in BOOLEAN
      OBVIOUS
    <3>3. \A cond \in BOOLEAN : NoneOf(Superseded \o Only(cond, Reconcile), SwitchCalls)
             <=> NoneOf(Superseded, SwitchCalls) /\ (cond => Reconcile \notin SwitchCalls)
      BY <1>2, <3>1, OnlyEnds
    <3>4. QED
      BY <1>2, <2>1, <3>1, <3>2, <3>3
  <2>6. pipe'.ep = pipe.ep /\ pipe'.source = Head(todo).src
    BY <1>2, <2>1
  <2>7. SUFFICES ASSUME arb.owner = "TciClient" PROVE TciRoom'
    BY <2>1 DEF TciRoom
  <2>8. Calm /\ InOrder /\ ~NoneOf(todo, ToTci) /\ Waits
    BY <1>5, <1>11, <2>1, <2>3, <2>7
  <2>9. NoneOf(todo', AwayTasks) /\ pipe'.source = "Tci" /\ NoneAfter(todo', GateTasks, ToTci)
    BY <1>11, <2>1, <2>3, <2>6, <2>8
  <2>10. NoneOf(txQ', StopCalls) /\ pipe'.ep < ep /\ NoneOf(txQ', GateFor(ep))
    BY <2>4, <2>6, <2>8
  <2>11. arb'.route = "StreamedFromHere"
    BY <2>1, <2>7 DEF TciRoom
  <2>12. QED
    BY <2>1, <2>5, <2>9, <2>10, <2>11 DEF TciRoom, AwayTasks, ToTci, GateTasks, StopCalls, SwitchCalls, GateFor
<1>13. CASE SetTxSourceAfterPtt \/ StopAudio
  <2>1. PICK what \in {"Switch", "Stop"} : Doing(what)
    BY <1>13 DEF SetTxSourceAfterPtt, StopAudio
  <2>2. Head(todo) \in MainTask /\ Head(todo).do \in {"Switch", "Stop"}
    BY <1>11, <2>1
  <2>3. Head(todo) \in AwayTasks
    BY <2>2 DEF AwayTasks
  <2>4. ~NoneOf(todo, AwayTasks)
    BY <1>11, <2>1, <2>3
  <2>5. arb' = arb
    BY <1>13 DEF SetTxSourceAfterPtt, StopAudio, MainRuns
  <2>6. QED
    BY <2>4, <2>5 DEF TciRoom
\* Done without a word to the pipeline.
<1>14. ASSUME NEW what \in {"Gate", "TX", "RX", "Abort"}, Doing(what), UNCHANGED <<arb, ep, pipe>>,
              NoneOf(txQ, StopCalls) => NoneOf(txQ', StopCalls),
              NoneOf(txQ, SwitchCalls) => NoneOf(txQ', SwitchCalls),
              what = "Gate" \/ txQ' = txQ
       PROVE  TciRoom'
  <2>1. Head(todo) \in MainTask /\ Head(todo).do = what
    BY <1>11, <1>14
  <2>2. Head(todo) \notin ToTci /\ (what = "Gate" => Head(todo) \in GateTasks)
    BY <2>1 DEF ToTci, GateTasks
  <2>3. SUFFICES ASSUME arb.owner = "TciClient" PROVE TciRoom'
    BY <1>14 DEF TciRoom
  <2>4. /\ NoneOf(todo', AwayTasks) /\ NoneOf(txQ', StopCalls) /\ NoneAfter(todo', GateTasks, ToTci)
        /\ NoneOf(todo', ToTci) <=> NoneOf(todo, ToTci)
        /\ what = "Gate" => NoneOf(todo', ToTci)
    BY <1>5, <1>11, <1>14, <2>2, <2>3
  <2>5. NoneOf(todo', ToTci) => pipe'.source = "Tci" /\ NoneOf(txQ', SwitchCalls)
    BY <1>5, <1>14, <2>3, <2>4
  <2>6. ~NoneOf(todo', ToTci) => pipe'.ep < ep /\ NoneOf(txQ', GateFor(ep))
    BY <1>5, <1>14, <2>3, <2>4
  <2>7. arb'.route = "StreamedFromHere"
    BY <1>14, <2>3 DEF TciRoom
  <2>8. QED
    BY <1>14, <2>4, <2>5, <2>6, <2>7 DEF TciRoom, AwayTasks, ToTci, GateTasks, StopCalls, SwitchCalls, GateFor
<1>15. CASE SendTxRx \/ SendAbort
  BY <1>14, <1>15 DEF SendTxRx, SendAbort, MainRuns
<1>16. CASE PostPttActive
  <2>1. Doing("Gate") /\ UNCHANGED <<arb, ep, pipe>>
    BY <1>16 DEF PostPttActive, MainRuns
  <2>2. Head(todo) \in MainTask /\ Head(todo).do = "Gate"
    BY <1>11, <2>1
  <2>3. Head(todo).on \in BOOLEAN
    BY <2>2 DEF MainTask
  <2>4. Gate(Head(todo).on) \in TxCall
    BY <1>2, <2>3, CallTyped
  <2>5. txQ' = txQ \/ txQ' = Append(txQ, Gate(Head(todo).on))
    BY <1>16 DEF PostPttActive
  <2>6. /\ NoneOf(txQ, StopCalls) => NoneOf(txQ', StopCalls)
        /\ NoneOf(txQ, SwitchCalls) => NoneOf(txQ', SwitchCalls)
    <3>1. \A W : NoneOf(Append(txQ, Gate(Head(todo).on)), W) <=> NoneOf(txQ, W) /\ Gate(Head(todo).on) \notin W
      BY <1>3, <2>4
    <3>2. Gate(Head(todo).on) \notin StopCalls /\ Gate(Head(todo).on) \notin SwitchCalls
      BY <1>2
    <3>3. QED
      BY <2>5, <3>1, <3>2
  <2>7. QED
    BY <1>14, <2>1, <2>6
<1>17. CASE TxStep
  <2>0. UNCHANGED <<arb, todo, ep>>
    BY <1>17 DEF TxStep, SetPttActive, SwitchSource, ReconcileMic, StopPipeline, OnlyTx, mainVars
  <2>1. ASSUME NEW kind, Take(kind)
        PROVE  txQ # <<>> /\ Head(txQ) \in TxCall /\ Head(txQ).kind = kind
    BY <1>2, <2>1 DEF Take
  <2>2. CASE SetPttActive
    <3>1. txQ # <<>> /\ Head(txQ).kind = "Gate" /\ txQ' = Tail(txQ) /\ Head(txQ) \in TxCall
      BY <2>1, <2>2 DEF SetPttActive
    <3>2. Head(txQ).on \in BOOLEAN /\ Head(txQ).ep \in Nat
      BY <3>1 DEF TxCall
    <3> DEFINE n == IF Head(txQ).on THEN Head(txQ).ep ELSE 0
               p == [pipe EXCEPT !.gate = Head(txQ).on, !.ep = n]
    <3>3. p \in [gate : BOOLEAN, source : AudioSource, mic : BOOLEAN, ep : Nat] /\ p.source = pipe.source /\ p.ep = n
      BY <1>2, <3>2
    <3>4. pipe' \in Reconciled(p)
      BY <2>2 DEF SetPttActive
    <3> HIDE DEF p
    <3>5. pipe'.source = pipe.source /\ pipe'.ep = n
      BY <3>3, <3>4 DEF Reconciled
    <3>6. Head(txQ).ep <= ep
      BY <1>4, <3>1 DEF EpBound, LateGates
    <3>7. Head(txQ) \notin GateFor(ep) /\ pipe.ep < ep => n < ep
      BY <1>2, <3>1, <3>2, <3>6 DEF GateFor
    <3>8. Waits => pipe'.ep < ep /\ NoneOf(txQ', GateFor(ep))
      BY <1>4, <3>1, <3>5, <3>7
    <3>9. (Named => pipe'.source = "Tci" /\ NoneOf(txQ', SwitchCalls)) /\ (NoneOf(txQ, StopCalls) => NoneOf(txQ', StopCalls))
      BY <1>4, <3>1, <3>5
    <3>10. (Named => Named') /\ (Waits => Waits')
      BY <2>0, <3>8, <3>9 DEF SwitchCalls, GateFor
    <3>11. QED
      BY <1>6, <2>0, <3>9, <3>10
  <2>3. CASE ReconcileMic
    <3>1. txQ # <<>> /\ txQ' = Tail(txQ) /\ pipe'.source = pipe.source /\ pipe'.ep = pipe.ep
      BY <1>2, <2>3 DEF ReconcileMic, Take, Reconciled
    <3>2. \A W : NoneOf(txQ, W) => NoneOf(txQ', W)
      BY <1>4, <3>1
    <3>3. (Named => Named') /\ (Waits => Waits')
      BY <2>0, <3>1, <3>2 DEF SwitchCalls, GateFor
    <3>4. QED
      BY <1>6, <2>0, <3>2, <3>3
  <2>4. CASE StopPipeline
    <3>1. txQ # <<>> /\ Head(txQ) \in TxCall /\ Head(txQ).kind = "Stop"
      BY <2>1, <2>4 DEF StopPipeline
    <3>2. Head(txQ) \in StopCalls
      BY <3>1 DEF StopCalls
    <3>3. ~NoneOf(txQ, StopCalls)
      BY <1>4, <3>1, <3>2
    <3>4. QED
      BY <2>0, <3>3 DEF TciRoom
  <2>5. CASE SwitchSource
    <3>1. txQ # <<>> /\ Head(txQ) \in TxCall /\ Head(txQ).kind = "Switch"
      BY <2>1, <2>5 DEF SwitchSource
    <3>2. Head(txQ).current \in BOOLEAN
      BY <3>1 DEF TxCall
    <3>3. /\ NoneOf(txQ', StopCalls) <=> NoneOf(txQ, StopCalls)
          /\ NoneOf(txQ', GateFor(ep)) <=> NoneOf(txQ, GateFor(ep))
      BY <1>2, <2>5, SourceWritten
    <3>4. pipe'.ep = pipe.ep
      BY <1>2, <2>5 DEF SwitchSource
    <3>5. Waits => Waits'
      BY <2>0, <3>3, <3>4 DEF GateFor
    <3>6. Named => Named'
      <4> SUFFICES ASSUME Named PROVE Named'
        OBVIOUS
      <4>1. ~Head(txQ).current /\ NoneOf(Tail(txQ), SwitchCalls)
        BY <1>4, <3>1, <3>2 DEF SwitchCalls
      <4>2. pipe' = pipe /\ txQ' = Tail(txQ) \o Only(FALSE, Reconcile)
        BY <2>5, <4>1 DEF SwitchSource
      <4>3. txQ' = Tail(txQ)
        <5>1. Tail(txQ) \in Seq(TxCall) /\ Only(FALSE, Reconcile) = <<>>
          BY <1>2, <3>1 DEF Only
        <5>2. QED
          BY <4>2, <5>1, ConcatEmptySeq
      <4>4. QED
        BY <4>1, <4>2, <4>3 DEF SwitchCalls
    <3>7. QED
      BY <1>6, <2>0, <3>3, <3>5, <3>6
  <2>6. QED
    BY <1>17, <2>2, <2>3, <2>4, <2>5 DEF TxStep
<1>18. CASE TakeBlock \/ SendBlock \/ IoStep \/ Environment \/ UNCHANGED vars
  <2>1. UNCHANGED <<arb, todo, ep>>
    BY <1>18 DEF TakeBlock, SendBlock, AudioOnly, IoStep, IoDrops, IoSendsTx, IoSendsRx, IoSendsAudio, OnlyIo, Environment,
                 RadioNoticesSilence, RadioKeysItself, RadioUnkeysItself, OnlyRadio, LinkLost, LinkUp,
                 MicDeviceLost, MicAccessAnswered, OnlyTx, mainVars, vars
  <2>2. /\ pipe'.source = pipe.source /\ pipe'.ep = pipe.ep
        /\ txQ' = txQ \/ (txQ' = Append(txQ, MicAccess) /\ MicAccess \in TxCall)
    BY <1>2, <1>18, CallTyped DEF TakeBlock, SendBlock, AudioOnly, IoStep, IoDrops, IoSendsTx, IoSendsRx, IoSendsAudio, OnlyIo, Environment,
                 RadioNoticesSilence, RadioKeysItself, RadioUnkeysItself, OnlyRadio, LinkLost, LinkUp,
                 MicDeviceLost, MicAccessAnswered, vars
  <2>3. \A W : NoneOf(txQ, W) /\ MicAccess \notin W => NoneOf(txQ', W)
    BY <1>3, <2>2
  <2>4. (Named => Named') /\ (Waits => Waits')
    BY <1>2, <2>1, <2>2, <2>3 DEF SwitchCalls, GateFor
  <2>5. QED
    BY <1>2, <1>6, <2>1, <2>3, <2>4
<1>19. QED
  BY <1>8, <1>9, <1>10, <1>12, <1>13, <1>15, <1>16, <1>17, <1>18 DEF Next, MainStep, ApplyStep

-----------------------------------------------------------------------------
(* What is left of the room on the TX thread when a client gets the air.    *)

Reconciles == {c \in TxCall : c.kind = "Reconcile"}

\* The TX thread has samples of the microphone in hand.
Dirty == buf.block = "Microphone" \/ buf.left

\* They are flushed by the reconcile that every source write posts.
DirtyInv == Dirty => pipe.source = "Microphone" \/ ~NoneOf(txQ, Reconciles)

\* The client's gate is behind that, and finds nothing of them.
ClientClean ==
  ~overtaken /\ arb.owner = "TciClient" =>
    /\ NoneAfter(txQ, GateFor(ep), Reconciles)
    /\ pipe.gate /\ pipe.ep = ep => ~Dirty

\* What a step of the TX thread's queue leaves in the buffer.
LEMMA BufferKept ==
  ASSUME IInv, TxStep \/ MicDeviceLost
  PROVE  /\ buf' = buf \/ buf' = Empty
         /\ Dirty' => Dirty /\ ~(ReconcileMic /\ Head(txQ).kind = "Reconcile") /\ ~StopPipeline /\ ~MicDeviceLost
<1>1. buf' = buf \/ buf' = Empty
  BY DEF TxStep, SetPttActive, SwitchSource, ReconcileMic, StopPipeline, MicDeviceLost, Buffers
<1>2. (ReconcileMic /\ Head(txQ).kind = "Reconcile") \/ StopPipeline \/ MicDeviceLost => buf' = Empty
  BY DEF ReconcileMic, StopPipeline, MicDeviceLost, Buffers
<1>3. buf' = Empty => ~Dirty'
  BY DEF Empty, Dirty
<1>4. buf' = buf => (Dirty' <=> Dirty)
  BY DEF Dirty
<1>5. QED
  BY <1>1, <1>2, <1>3, <1>4

\* A block is taken from the source of now, and what it leaves is its own.
LEMMA BlockDirt ==
  ASSUME IInv, TakeBlock \/ SendBlock
  PROVE  Dirty' => Dirty \/ (TakeBlock /\ pipe.source = "Microphone")
<1>1. buf \in [block : {"None"} \cup AudioSource, left : BOOLEAN]
  BY DEF IInv, TypeOK
<1>2. CASE TakeBlock
  <2>1. buf'.block = pipe.source /\ buf'.left = buf.left
    BY <1>1, <1>2 DEF TakeBlock
  <2>2. QED
    BY <1>2, <2>1 DEF Dirty
<1>3. CASE SendBlock
  <2>1. \E x : buf' = [block |-> "None", left |-> x] /\ (x => Dirty)
    BY <1>3, Zenon DEF SendBlock, Dirty
  <2>2. QED
    BY <2>1 DEF Dirty
<1>4. QED
  BY <1>2, <1>3

\* The steps that touch neither the pipeline nor its queue nor its buffer.
LEMMA NotOfTx ==
  ASSUME IInv, [Next]_vars
  PROVE  \/ UNCHANGED <<pipe, buf, txQ>>
         \/ SetTxSource \/ SetTxSourceAfterPtt \/ PostPttActive \/ StopAudio
         \/ TxStep \/ TakeBlock \/ SendBlock \/ MicDeviceLost \/ MicAccessAnswered
<1>1. CASE Requests
  BY <1>1 DEF Requests, EngageRequest, ReleaseRequest, XmitStops, Escape, CatStopsRadio, Requested
<1>2. CASE SendTxRx \/ SendAbort
  BY <1>2 DEF SendTxRx, SendAbort, MainRuns
<1>3. CASE HearEcho("TX", TRUE) \/ HearEcho("RX", FALSE) \/ HearLost
  BY <1>3 DEF HearEcho, HearLost, Delivered
<1>4. CASE IoStep \/ UNCHANGED vars
  BY <1>4 DEF IoStep, IoDrops, IoSendsTx, IoSendsRx, IoSendsAudio, OnlyIo, vars
<1>5. CASE RadioNoticesSilence \/ RadioKeysItself \/ RadioUnkeysItself \/ LinkLost \/ LinkUp
  BY <1>5 DEF RadioNoticesSilence, RadioKeysItself, RadioUnkeysItself, OnlyRadio, LinkLost, LinkUp
<1>6. QED
  BY <1>1, <1>2, <1>3, <1>4, <1>5 DEF Next, MainStep, ApplyStep, Environment

LEMMA DirtyInvNext == ASSUME IInv, DirtyInv, [Next]_vars PROVE DirtyInv'
<1>1. /\ txQ \in Seq(TxCall) /\ ep \in Nat
      /\ pipe \in [gate : BOOLEAN, source : AudioSource, mic : BOOLEAN, ep : Nat]
      /\ Reconcile \in Reconciles /\ Stop \notin Reconciles /\ MicAccess \notin Reconciles
      /\ \A on : Gate(on) \notin Reconciles
      /\ \A c \in TxCall : c \in Reconciles => c.kind # "Switch"
      /\ {} \in SUBSET Reconciles /\ Reconcile \notin {}
  BY DEF Reconciles, Reconcile, Stop, MicAccess, Gate, TxCall, IInv, TypeOK
<1>2. \A c \in TxCall : NoneOf(Append(txQ, c), Reconciles) <=> NoneOf(txQ, Reconciles) /\ c \notin Reconciles
  BY <1>1, NoneKept
<1>3. txQ # <<>> => (NoneOf(txQ, Reconciles) <=> Head(txQ) \notin Reconciles /\ NoneOf(Tail(txQ), Reconciles))
  BY <1>1, NoneKept
<1>4. ASSUME Dirty' => Dirty, pipe'.source = pipe.source,
             NoneOf(txQ', Reconciles) => NoneOf(txQ, Reconciles)
      PROVE  DirtyInv'
  BY <1>4 DEF DirtyInv, Reconciles
<1>5. CASE UNCHANGED <<pipe, buf, txQ>>
  BY <1>4, <1>5 DEF Dirty
<1>6. CASE SetTxSource \/ SetTxSourceAfterPtt \/ SwitchSource
  <2>1. NoneOf(txQ', Reconciles) <=> NoneOf(txQ, Reconciles) /\ (pipe'.source # pipe.source => Reconcile \notin Reconciles)
    BY <1>1, <1>6, SourceWritten
  <2>2. buf' = buf
    BY <1>6 DEF SetTxSource, SetTxSourceAfterPtt, SwitchSource, MainRuns
  <2>3. QED
    BY <1>1, <2>1, <2>2 DEF DirtyInv, Dirty, Reconciles
<1>7. CASE PostPttActive \/ StopAudio \/ MicAccessAnswered
  <2>1. pipe' = pipe /\ buf' = buf
    BY <1>7 DEF PostPttActive, StopAudio, MicAccessAnswered, MainRuns
  <2>2. txQ' = txQ \/ \E c \in TxCall \ Reconciles : txQ' = Append(txQ, c)
    <3>1. CASE PostPttActive
      <4>1. Head(todo) \in MainTask /\ Head(todo).do = "Gate"
        BY <3>1, TaskTyped DEF PostPttActive
      <4>2. Head(todo).on \in BOOLEAN
        BY <4>1 DEF MainTask
      <4>3. Gate(Head(todo).on) \in TxCall
        BY <1>1, <4>2, CallTyped
      <4>4. QED
        BY <1>1, <3>1, <4>3 DEF PostPttActive
    <3>2. CASE StopAudio \/ MicAccessAnswered
      BY <1>1, <3>2, CallTyped DEF StopAudio, MicAccessAnswered
    <3>3. QED
      BY <1>7, <3>1, <3>2
  <2>3. NoneOf(txQ', Reconciles) => NoneOf(txQ, Reconciles)
    BY <1>2, <2>2
  <2>4. QED
    BY <1>4, <2>1, <2>3 DEF Dirty
<1>8. CASE SetPttActive \/ ReconcileMic \/ StopPipeline
  <2>1. /\ txQ # <<>> /\ txQ' = Tail(txQ) /\ Head(txQ) \in TxCall
        /\ Head(txQ).kind \in {"Gate", "Reconcile", "Access", "Stop"}
        /\ Head(txQ).kind = "Reconcile" => ReconcileMic
    BY <1>1, <1>8 DEF SetPttActive, ReconcileMic, StopPipeline, Take
  <2>2. CASE ~Dirty'
    BY <2>2 DEF DirtyInv
  <2>3. CASE Dirty'
    <3>1. Dirty /\ Head(txQ).kind # "Reconcile" /\ ~StopPipeline
      BY <1>8, <2>1, <2>3, BufferKept DEF TxStep
    <3>2. NoneOf(txQ', Reconciles) => NoneOf(txQ, Reconciles)
      BY <1>3, <2>1, <3>1 DEF Reconciles
    <3>3. pipe'.source = pipe.source
      <4>1. CASE SetPttActive
        <5>1. Head(txQ).kind = "Gate"
          BY <4>1 DEF SetPttActive, Take
        <5>2. Head(txQ).on \in BOOLEAN /\ Head(txQ).ep \in Nat
          BY <2>1, <5>1 DEF TxCall
        <5> DEFINE p == [pipe EXCEPT !.gate = Head(txQ).on, !.ep = IF Head(txQ).on THEN Head(txQ).ep ELSE 0]
        <5>3. p \in [gate : BOOLEAN, source : AudioSource, mic : BOOLEAN, ep : Nat] /\ p.source = pipe.source
          BY <1>1, <5>2
        <5>4. pipe' \in Reconciled(p)
          BY <4>1 DEF SetPttActive
        <5> HIDE DEF p
        <5>5. QED
          BY <5>3, <5>4 DEF Reconciled
      <4>2. CASE ReconcileMic
        BY <1>1, <4>2 DEF ReconcileMic, Reconciled
      <4>3. QED
        BY <1>8, <3>1, <4>1, <4>2
    <3>4. QED
      BY <1>4, <3>1, <3>2, <3>3
  <2>4. QED
    BY <2>2, <2>3
<1>9. CASE MicDeviceLost
  BY <1>9, BufferKept DEF DirtyInv
<1>10. CASE TakeBlock \/ SendBlock
  <2>1. UNCHANGED <<pipe, txQ>> /\ (Dirty' => Dirty \/ pipe.source = "Microphone")
    BY <1>10, BlockSteps, BlockDirt
  <2>2. QED
    BY <2>1 DEF DirtyInv, Reconciles
<1>11. QED
  BY <1>5, <1>6, <1>7, <1>8, <1>9, <1>10, NotOfTx DEF TxStep

\* A client's own gate opens on an empty buffer, and lets in the client's source only.
LEMMA ClientCleanNext ==
  ASSUME IInv, LinkInv, EpBound, StopDown, TciRoom, DirtyInv, DirtyInv', ClientClean, [Next]_vars
  PROVE  ClientClean'
<1> SUFFICES ASSUME ~overtaken' PROVE ClientClean'
  BY DEF ClientClean
<1>1. CASE LinkUp
  BY <1>1, SessionBegins DEF ClientClean
<1> SUFFICES ASSUME ~overtaken, ~LinkUp PROVE ClientClean'
  BY <1>1, SameSession
<1>2. /\ txQ \in Seq(TxCall) /\ todo \in Seq(MainTask) /\ ep \in Nat
      /\ pipe \in [gate : BOOLEAN, source : AudioSource, mic : BOOLEAN, ep : Nat]
      /\ Stop \notin Reconciles /\ MicAccess \notin Reconciles /\ \A on : Gate(on) \notin Reconciles
      /\ \A c \in TxCall : c \in GateFor(ep) => c.kind # "Switch"
      /\ Reconcile \notin GateFor(ep) /\ {} \in SUBSET GateFor(ep) /\ Reconcile \notin {}
  BY DEF Reconciles, GateFor, Reconcile, Stop, MicAccess, Gate, IInv, TypeOK
\* What is posted in its turn, and what is taken.
<1>3. ASSUME NoneAfter(txQ, GateFor(ep), Reconciles),
             \/ txQ' = txQ
             \/ \E c \in TxCall \ Reconciles : txQ' = Append(txQ, c)
             \/ txQ # <<>> /\ txQ' = Tail(txQ)
      PROVE  NoneAfter(txQ', GateFor(ep), Reconciles)
  <2>1. CASE txQ' = txQ
    BY <1>3, <2>1
  <2>2. ASSUME NEW c \in TxCall \ Reconciles, txQ' = Append(txQ, c)
        PROVE  NoneAfter(txQ', GateFor(ep), Reconciles)
    BY <1>2, <1>3, <2>2, OrderKept
  <2>3. CASE txQ # <<>> /\ txQ' = Tail(txQ)
    <3>1. Head(txQ) \in TxCall
      BY <1>2, <2>3
    <3>2. QED
      BY <1>2, <1>3, <2>3, <3>1, OrderKept
  <2>4. QED
    BY <1>3, <2>1, <2>2, <2>3
<1>4. ASSUME UNCHANGED <<arb, ep>>,
             arb.owner = "TciClient" => NoneAfter(txQ', GateFor(ep), Reconciles),
             arb.owner = "TciClient" /\ pipe'.gate /\ pipe'.ep = ep => ~Dirty'
      PROVE  ClientClean'
  BY <1>4 DEF ClientClean, GateFor, Reconciles
\* The client is granted the transmitter: nothing is posted for its transmission yet.
<1>5. ASSUME NEW r, Decided(r, <<>>), r.s.owner # "TciClient" \/ r.s.owner = arb.owner \/ arb.owner = "None"
      PROVE  ClientClean'
  <2>1. arb' = r.s /\ ep' = NextEpisode(r.s) /\ UNCHANGED <<pipe, buf, txQ>>
    BY <1>5 DEF Decided
  <2>2. CASE r.s.owner # "TciClient"
    BY <2>1, <2>2 DEF ClientClean
  <2>3. CASE r.s.owner = "TciClient" /\ r.s.owner = arb.owner
    <3>1. ep' = ep
      BY <2>1, <2>3 DEF NextEpisode
    <3>2. QED
      BY <2>1, <2>3, <3>1 DEF ClientClean, GateFor, Reconciles, Dirty
  <2>4. CASE r.s.owner = "TciClient" /\ arb.owner = "None"
    <3>1. ep' = ep + 1
      BY <2>1, <2>4 DEF NextEpisode
    <3>2. pipe'.ep # ep'
      BY <1>2, <2>1, <3>1 DEF EpBound
    <3>3. \A c : c \in GateFor(ep') => c \in LateGates(ep)
      BY <1>2, <3>1 DEF GateFor, LateGates
    <3>4. NoneOf(txQ, GateFor(ep'))
      BY <3>3 DEF EpBound, NoneOf
    <3>5. NoneAfter(txQ, GateFor(ep'), Reconciles)
      BY <3>4, NoneThenOrder
    <3>6. QED
      BY <2>1, <3>2, <3>5 DEF ClientClean, GateFor, Reconciles
  <2>5. QED
    BY <1>5, <2>2, <2>3, <2>4
<1>6. CASE Requests
  <2>1. CASE CatStopsRadio
    BY <1>4, <2>1 DEF CatStopsRadio, ioVars, ClientClean, Dirty
  <2>2. CASE ~CatStopsRadio
    <3>1. PICK r : Decided(r, <<>>) /\ (r.s.owner = "TciClient" => r.s.route \in {"StreamedFromHere", arb.route})
      BY <1>6, <2>2, RequestsDecide
    <3>2. r.s.owner # "TciClient" \/ r.s.owner = arb.owner \/ arb.owner = "None"
      <4>1. /\ Reachable(arb) /\ Decision(arb, r) /\ "TciClient" \in Producer
        BY <3>1, ArbiterReachable DEF Decided, Producer, Owner
      <4>2. \A how : MayEngage(arb, "TciClient") => arb.owner \in {"None", "TciClient"}
        BY DEF MayEngage, IsLocal
      <4>3. QED
        BY <4>1, <4>2, GrantedOrKept
    <3>3. QED
      BY <1>5, <3>1, <3>2
  <2>3. QED
    BY <2>1, <2>2
<1>7. CASE HearLost
  <2>1. arb'.owner = "None"
    BY <1>7, LossDecides DEF Decided
  <2>2. QED
    BY <2>1 DEF ClientClean
<1>8. ASSUME NEW kind \in {"TX", "RX"}, NEW tx \in BOOLEAN, HearEcho(kind, tx)
      PROVE  ClientClean'
  <2>1. CASE UNCHANGED <<arb, todo, ep, pipe, txQ, link, ioQ, radio>>
    BY <1>4, <1>8, <2>1 DEF HearEcho, Delivered, ClientClean, Dirty
  <2>2. CASE ~UNCHANGED <<arb, todo, ep, pipe, txQ, link, ioQ, radio>>
    BY <1>5, <1>8, <2>2, EchoDecides
  <2>3. QED
    BY <2>1, <2>2
<1>9. CASE SetTxSource \/ SetTxSourceAfterPtt
  <2>1. PICK what \in {"Source", "Switch"} : Doing(what) /\ (what = "Source" <=> SetTxSource)
    BY <1>9, TaskTyped DEF SetTxSource, SetTxSourceAfterPtt, Doing
  <2>2. /\ Head(todo) \in MainTask /\ Head(todo).do = what
        /\ \A W : NoneOf(todo, W) <=> Head(todo) \notin W /\ NoneOf(todo', W)
    BY <1>2, <2>1, TaskDone
  <2>3. UNCHANGED <<arb, ep>> /\ pipe'.ep = pipe.ep
    BY <1>2, <1>9 DEF SetTxSource, SetTxSourceAfterPtt, MainRuns
  <2>4. ASSUME arb.owner = "TciClient"
        PROVE  pipe.ep < ep /\ NoneOf(txQ, GateFor(ep))
    <3>1. NoneOf(todo, AwayTasks)
      BY <2>4 DEF TciRoom
    <3>2. what = "Source"
      BY <2>2, <3>1 DEF AwayTasks
    <3>3. Head(todo) \in ToTci
      BY <2>2, <3>2 DEF ToTci
    <3>4. QED
      BY <2>2, <2>4, <3>3 DEF TciRoom
  <2>5. NoneOf(txQ', GateFor(ep)) <=> NoneOf(txQ, GateFor(ep))
    BY <1>2, <1>9, SourceWritten
  <2>6. NoneOf(txQ', GateFor(ep)) => NoneAfter(txQ', GateFor(ep), Reconciles)
    BY NoneThenOrder
  <2>7. QED
    BY <1>2, <1>4, <2>3, <2>4, <2>5, <2>6
<1>10. CASE PostPttActive \/ StopAudio \/ MicAccessAnswered
  <2>1. UNCHANGED <<arb, ep, pipe, buf>>
    BY <1>10 DEF PostPttActive, StopAudio, MicAccessAnswered, MainRuns, mainVars
  <2>2. txQ' = txQ \/ \E c \in TxCall \ Reconciles : txQ' = Append(txQ, c)
    <3>1. CASE PostPttActive
      <4>1. Head(todo) \in MainTask /\ Head(todo).do = "Gate"
        BY <3>1, TaskTyped DEF PostPttActive
      <4>2. Head(todo).on \in BOOLEAN
        BY <4>1 DEF MainTask
      <4>3. Gate(Head(todo).on) \in TxCall
        BY <1>2, <4>2, CallTyped
      <4>4. QED
        BY <1>2, <3>1, <4>3 DEF PostPttActive
    <3>2. CASE StopAudio \/ MicAccessAnswered
      BY <1>2, <3>2, CallTyped DEF StopAudio, MicAccessAnswered
    <3>3. QED
      BY <1>10, <3>1, <3>2
  <2>3. QED
    BY <1>3, <1>4, <2>1, <2>2 DEF ClientClean, Dirty
<1>11. CASE TxStep \/ MicDeviceLost
  <2>0. UNCHANGED <<arb, ep, todo>>
    BY <1>11 DEF TxStep, SetPttActive, SwitchSource, ReconcileMic, StopPipeline, MicDeviceLost, OnlyTx, mainVars
  <2>1. Dirty' => Dirty
    BY <1>11, BufferKept
  <2>2. CASE SetPttActive
    <3>1. txQ # <<>> /\ Head(txQ).kind = "Gate" /\ txQ' = Tail(txQ) /\ Head(txQ) \in TxCall
      BY <1>2, <2>2 DEF SetPttActive, Take
    <3>2. Head(txQ).on \in BOOLEAN /\ Head(txQ).ep \in Nat
      BY <3>1 DEF TxCall
    <3> DEFINE p == [pipe EXCEPT !.gate = Head(txQ).on, !.ep = IF Head(txQ).on THEN Head(txQ).ep ELSE 0]
    <3>3. /\ p \in [gate : BOOLEAN, source : AudioSource, mic : BOOLEAN, ep : Nat]
          /\ p.source = pipe.source /\ p.gate = Head(txQ).on /\ (Head(txQ).on => p.ep = Head(txQ).ep)
      BY <1>2, <3>2
    <3>4. pipe' \in Reconciled(p)
      BY <2>2 DEF SetPttActive
    <3> HIDE DEF p
    <3>5. pipe'.source = pipe.source /\ pipe'.gate = p.gate /\ pipe'.ep = p.ep
      BY <3>3, <3>4 DEF Reconciled
    <3>6. ASSUME arb.owner = "TciClient", pipe'.gate, pipe'.ep = ep
          PROVE  ~Dirty'
      <4>1. Head(txQ) \in GateFor(ep)
        BY <3>1, <3>3, <3>5, <3>6 DEF GateFor
      <4>2. ~NoneOf(txQ, GateFor(ep))
        BY <1>2, <3>1, <4>1, NoneKept
      <4>3. pipe.source = "Tci"
        BY <3>6, <4>2 DEF TciRoom
      <4>4. NoneOf(txQ', Reconciles)
        <5>1. NoneAfter(txQ, GateFor(ep), Reconciles)
          BY <3>6 DEF ClientClean
        <5>2. QED
          BY <1>2, <3>1, <4>1, <5>1, OrderKept
      <4>5. pipe'.source # "Microphone" /\ NoneOf(txQ', Reconciles)
        BY <3>5, <4>3, <4>4
      <4>6. QED
        BY <4>5 DEF DirtyInv, Reconciles
    <3>7. arb.owner = "TciClient" => NoneAfter(txQ', GateFor(ep), Reconciles)
      BY <1>3, <3>1 DEF ClientClean
    <3>8. QED
      BY <1>4, <2>0, <3>6, <3>7
  <2>3. CASE ReconcileMic \/ StopPipeline
    <3>1. txQ # <<>> /\ txQ' = Tail(txQ)
      BY <2>3 DEF ReconcileMic, StopPipeline, Take
    <3>2. pipe'.gate => pipe.gate /\ pipe'.ep = pipe.ep
      BY <1>2, <2>3 DEF ReconcileMic, StopPipeline, Reconciled, Off
    <3>3. QED
      BY <1>3, <1>4, <2>0, <2>1, <3>1, <3>2 DEF ClientClean
  <2>4. CASE MicDeviceLost
    <3>1. txQ' = txQ /\ pipe'.gate = pipe.gate /\ pipe'.ep = pipe.ep
      BY <1>2, <2>4 DEF MicDeviceLost
    <3>2. QED
      BY <1>3, <1>4, <2>0, <2>1, <3>1 DEF ClientClean
  <2>5. CASE SwitchSource
    <3>1. Head(txQ) \in TxCall /\ Head(txQ).kind = "Switch" /\ txQ # <<>> /\ Tail(txQ) \in Seq(TxCall)
      BY <1>2, <2>5 DEF SwitchSource, Take
    <3>2. Head(txQ).current \in BOOLEAN
      BY <3>1 DEF TxCall
    <3>3. pipe'.gate = pipe.gate /\ pipe'.ep = pipe.ep
      BY <1>2, <2>5 DEF SwitchSource
    <3>4. ASSUME arb.owner = "TciClient"
          PROVE  NoneAfter(txQ', GateFor(ep), Reconciles)
      <4>1. CASE NoneOf(todo, ToTci)
        <5>1. NoneOf(txQ, SwitchCalls)
          BY <3>4, <4>1 DEF TciRoom
        <5>2. Head(txQ) \notin SwitchCalls
          BY <1>2, <3>1, <5>1, NoneKept
        <5>3. ~Head(txQ).current
          BY <3>1, <3>2, <5>2 DEF SwitchCalls
        <5>4. txQ' = Tail(txQ) \o Only(FALSE, Reconcile)
          BY <2>5, <5>3 DEF SwitchSource
        <5>5. Only(FALSE, Reconcile) = <<>>
          BY DEF Only
        <5>6. txQ' = Tail(txQ)
          BY <3>1, <5>4, <5>5, ConcatEmptySeq
        <5>7. QED
          BY <1>3, <3>1, <3>4, <5>6 DEF ClientClean
      <4>2. CASE ~NoneOf(todo, ToTci)
        <5>1. NoneOf(txQ, GateFor(ep))
          BY <3>4, <4>2 DEF TciRoom
        <5>2. NoneOf(txQ', GateFor(ep))
          BY <1>2, <2>5, <5>1, SourceWritten
        <5>3. QED
          BY <5>2, NoneThenOrder
      <4>3. QED
        BY <4>1, <4>2
    <3>5. QED
      BY <1>4, <2>0, <2>1, <3>3, <3>4 DEF ClientClean
  <2>6. QED
    BY <1>11, <2>2, <2>3, <2>4, <2>5 DEF TxStep
<1>12. CASE TakeBlock \/ SendBlock
  <2>1. UNCHANGED <<arb, ep, todo, pipe, txQ>> /\ (Dirty' => Dirty \/ (TakeBlock /\ pipe.source = "Microphone"))
    BY <1>12, BlockSteps, BlockDirt
  <2>2. ASSUME arb.owner = "TciClient", pipe.gate, pipe.ep = ep
        PROVE  ~Dirty /\ pipe.source = "Tci"
    BY <1>2, <2>2 DEF ClientClean, TciRoom
  <2>3. arb.owner = "TciClient" /\ pipe'.gate /\ pipe'.ep = ep => ~Dirty'
    BY <2>1, <2>2
  <2>4. QED
    BY <1>3, <1>4, <2>1, <2>3 DEF ClientClean
<1>13. CASE UNCHANGED <<pipe, buf, txQ>> /\ ~Requests /\ ~HearLost /\ ~HearEcho("TX", TRUE) /\ ~HearEcho("RX", FALSE)
  <2>1. UNCHANGED <<arb, ep>>
    BY <1>13 DEF Next, MainStep, ApplyStep, SetTxSource, PostPttActive, SetTxSourceAfterPtt, SendTxRx, SendAbort,
                 StopAudio, MainRuns, TxStep, SetPttActive, SwitchSource, ReconcileMic, StopPipeline, OnlyTx,
                 TakeBlock, SendBlock, AudioOnly, IoStep, IoDrops, IoSendsTx, IoSendsRx, IoSendsAudio, OnlyIo,
                 Environment, RadioNoticesSilence, RadioKeysItself, RadioUnkeysItself, OnlyRadio, LinkLost, LinkUp,
                 MicDeviceLost, MicAccessAnswered, mainVars, vars
  <2>2. QED
    BY <1>3, <1>4, <1>13, <2>1 DEF ClientClean, Dirty
<1>14. QED
  BY <1>6, <1>7, <1>8, <1>9, <1>10, <1>11, <1>12, <1>13, NotOfTx

-----------------------------------------------------------------------------
(* Whose audio an open gate sends. *)

Rooms == StopDown /\ SourceInv /\ TciRoom /\ DirtyInv /\ ClientClean

LEMMA RoomsInit == Init => Rooms
<1> SUFFICES ASSUME Init PROVE Rooms
  OBVIOUS
<1>1. link = FALSE /\ arb.owner = "None" /\ arb.route = "None" /\ buf = Empty
  BY DEF Init, Idle
<1>2. ~Dirty
  BY <1>1 DEF Dirty, Empty
<1>3. QED
  BY <1>1, <1>2 DEF Rooms, StopDown, SourceInv, TciRoom, DirtyInv, ClientClean, NeedsGate

\* Once every source write under way has taken effect - all but the newest of them do nothing, by the
\* generations of setTxSourceAfterPtt() - an open gate has the source of whoever holds the transmitter;
\* and the reconcile that a source write posts flushes the microphone's samples before the gate of the
\* client that the write was for opens: the invariant under SourceIsTheOwners and RoomIsQuiet.
THEOREM RoomsKept == Spec => []Rooms
<1>1. Settling /\ Settling' /\ Ordered /\ Rooms /\ [Next]_vars => Rooms'
  <2> SUFFICES ASSUME Settling, Settling', Ordered, Rooms, [Next]_vars PROVE Rooms'
    OBVIOUS
  <2>1. IInv /\ IInv' /\ LinkInv /\ EpBound /\ StopDown /\ SourceInv /\ TciRoom /\ DirtyInv /\ ClientClean
    BY DEF Settling, Ordered, Rooms
  <2>2. StopDown' /\ SourceInv' /\ TciRoom' /\ DirtyInv'
    BY <2>1, StopDownNext, SourceInvNext, TciRoomNext, DirtyInvNext
  <2>3. ClientClean'
    BY <2>1, <2>2, ClientCleanNext
  <2>4. QED
    BY <2>2, <2>3 DEF Rooms
<1>2. QED
  BY <1>1, RoomsInit, Settles, KeyedInOrder, PTL DEF Spec

\* Whatever source writes raced on the way, an open gate ends up with the audio of whoever holds the
\* transmitter (the generations of setTxSourceAfterPtt()) - but in a session that came up before the
\* stop() of the last one was carried out, for stop() writes the source without a generation.
THEOREM SourceIsTheOwners == Spec => []SourceSettles
<1>1. Settling /\ Rooms => SourceSettles
  <2> SUFFICES ASSUME Settling, Rooms, Idling, txQ = <<>>, pipe.gate, ~LostPending, ~overtaken
               PROVE  pipe.source = SourceFor(arb.owner)
    BY DEF SourceSettles
  <2>1. \A W, V : NoneOf(<<>>, W) /\ ~Ends(<<>>, W, V)
    BY EmptyEnds
  <2>2. NeedsGate(arb.route)
    BY <2>1 DEF Settling, GateInv, GateWillOpen, GatePosted, Idling
  <2>3. SourceWillBe(SourceFor(arb.owner))
    BY <2>2 DEF Rooms, SourceInv
  <2>4. QED
    BY <2>1, <2>3 DEF SourceWillBe, SourcePosted, Idling
<1>2. QED
  BY <1>1, Settles, RoomsKept, PTL

\* The operator's room is not sent in a client's transmission.  The handler that gives a TCI client the
\* transmitter writes the source while the TX thread may be anywhere in a block of the microphone, and the
\* flush is only posted: what is in hand then still goes out, but in the transmission before, never behind
\* the gate of the client's own; and once that handler is through no block is taken from the microphone.
\* (Not in a session that came up before the stop() of the last one was carried out.)
THEOREM RoomIsQuiet == Spec => RoomNeverUnderTci
<1> DEFINE Quietly == arb.owner = "TciClient" /\ ~overtaken =>
             /\ TakeBlock /\ pipe.source = "Microphone" => ~Idling /\ pipe.ep < ep
             /\ \A n \in 0 .. ep : ioQ' = Append(ioQ, Packet("Microphone", n)) => n < ep
<1>1. IInv /\ Ordered /\ Rooms /\ [Next]_vars => Quietly
  <2> SUFFICES ASSUME IInv, Ordered, Rooms, [Next]_vars, arb.owner = "TciClient", ~overtaken
               PROVE  /\ TakeBlock /\ pipe.source = "Microphone" => ~Idling /\ pipe.ep < ep
                      /\ \A n \in 0 .. ep : ioQ' = Append(ioQ, Packet("Microphone", n)) => n < ep
    OBVIOUS
  <2>1. ASSUME pipe.source = "Microphone"
        PROVE  ~Idling /\ pipe.ep < ep
    <3>1. ~NoneOf(todo, ToTci) /\ pipe.ep < ep
      BY <2>1 DEF Rooms, TciRoom
    <3>2. QED
      BY <3>1, EmptyEnds DEF Idling
  <2>2. ASSUME NEW n \in 0 .. ep, ioQ' = Append(ioQ, Packet("Microphone", n))
        PROVE  n < ep
    <3>1. /\ ioQ \in Seq(IoCall) /\ todo \in Seq(MainTask) /\ ep \in Nat /\ Packet("Microphone", n).kind = "Audio"
          /\ \A what : Command(what).kind = what /\ what # "Audio" => Command(what) # Packet("Microphone", n)
      BY DEF Packet, Command, IInv, TypeOK
    <3>2. ioQ' # ioQ /\ \A c : ioQ' = Append(ioQ, c) => c = Packet("Microphone", n)
      BY <2>2, <3>1
    <3>3. SendBlock
      <4>1. CASE SendTxRx \/ SendAbort
        <5>1. \E what \in {"TX", "RX", "Abort"} : ioQ' = ioQ \/ ioQ' = Append(ioQ, Command(what))
          BY <4>1 DEF SendTxRx, SendAbort, Doing
        <5>2. \A what : Command(what).kind = what
          BY DEF Command
        <5>3. QED
          BY <3>1, <3>2, <5>1, <5>2
      <4>2. CASE IoStep
        <5>1. ioQ # <<>> /\ ioQ' = Tail(ioQ)
          BY <4>2 DEF IoStep, IoDrops, IoSendsTx, IoSendsRx, IoSendsAudio, OnlyIo
        <5>2. QED
          BY <2>2, <3>1, <5>1
      <4>3. CASE Requests
        BY <3>2, <4>3, RequestsDecide DEF CatStopsRadio, Decided, ioVars
      <4>4. CASE SetTxSource \/ PostPttActive \/ SetTxSourceAfterPtt \/ StopAudio
        BY <3>2, <4>4 DEF SetTxSource, PostPttActive, SetTxSourceAfterPtt, StopAudio
      <4>5. ASSUME NEW kind, NEW tx, HearEcho(kind, tx)
            PROVE  FALSE
        BY <3>2, <4>5 DEF HearEcho, Delivered, ioVars
      <4>6. CASE HearLost \/ TxStep \/ TakeBlock \/ Environment \/ UNCHANGED vars
        BY <3>2, <4>6 DEF HearLost, Delivered, TxStep, SetPttActive, SwitchSource, ReconcileMic, StopPipeline,
                          TakeBlock, OnlyTx, Environment, RadioNoticesSilence, RadioKeysItself, RadioUnkeysItself,
                          OnlyRadio, LinkLost, LinkUp, MicDeviceLost, MicAccessAnswered, ioVars, vars
      <4>7. QED
        BY <4>1, <4>2, <4>3, <4>4, <4>5, <4>6 DEF Next, MainStep, ApplyStep
    <3>4. ioQ' = Append(ioQ, Packet(IF Dirty THEN "Microphone" ELSE "Tci", pipe.ep))
      BY <3>2, <3>3, Zenon DEF SendBlock, Dirty
    <3>5. Dirty /\ pipe.ep = n
      BY <3>2, <3>4 DEF Packet
    <3>6. pipe.gate
      BY <3>3 DEF SendBlock, Ordered, BlockGated
    <3>7. pipe.ep # ep
      BY <3>5, <3>6 DEF Rooms, ClientClean
    <3>8. QED
      BY <3>1, <3>5, <3>7
  <2>3. QED
    BY <2>1, <2>2
<1>2. IInv /\ Ordered /\ Rooms /\ [Next]_vars => [Quietly]_vars
  BY <1>1
<1> HIDE DEF Quietly
<1>3. QED
  BY <1>2, Invariance, KeyedInOrder, RoomsKept, PTL DEF Spec, RoomNeverUnderTci, Quietly
=============================================================================

-------------------------- MODULE TransmitControl --------------------------
(***************************************************************************)
(* controllers/transmitcontroller.cpp executing the arbiter's decisions    *)
(* across the program's threads.  Four actors run concurrently:            *)
(*   - the main thread: the producers' requests, and the events posted to  *)
(*     it (mainQ): the radio's TX;/RX; echoes and the loss of the link;    *)
(*   - the TX audio thread (txQ): the gate, the source and the microphone  *)
(*     of TxAudioPipeline;                                                 *)
(*   - the I/O thread (ioQ): CAT commands and audio packets to the socket; *)
(*   - the radio, external, modelled from the comments of transmitowner.h. *)
(* A cross-thread call is a Qt queued call: posted in order, delivered in  *)
(* order, any time later.  Fault_... are seeded faults (TransmitOwner).    *)
(***************************************************************************)
EXTENDS Naturals, Sequences, TransmitOwner

CONSTANTS Producers,    \* the owners that ask for the transmitter in this instance
          MaxEpisodes,  \* bound: transmissions keyed from here
          MaxSessions,  \* bound: times the link comes up
          MaxQueue,     \* bound: calls posted to the TX thread at which producers pause
          MaxSend,      \* bound: calls posted to the I/O thread at which producers and audio pause
          MaxReports    \* bound: events to the main thread at which the radio pauses

ASSUME ControlAssumption ==
  /\ Producers \subseteq Owner \ {"None", "Radio"}
  /\ {MaxEpisodes, MaxSessions, MaxQueue, MaxSend, MaxReports} \subseteq Nat

VARIABLES
  arb,        \* TransmitController::m_state
  indicator,  \* the last transmittingChanged: what the PTT button shows
  rsTx,       \* RadioState::isTransmitting
  todo,       \* what is left of the handler the main thread is in
  mainQ,      \* events posted to the main thread
  pipe,       \* TxAudioPipeline: m_pttActive, m_txSource, m_micOpen
  buf,        \* its m_micBuffer, and the block of audio the TX thread is converting
  txQ,        \* calls posted to the TX thread
  link,       \* TcpClient::m_connected
  ioQ,        \* calls posted to the I/O thread
  radio,      \* the K4: transmitting, and whether a TX; of ours is what keyed it
  ep,         \* history: number of transmissions keyed from here so far
  sessions,   \* history: number of times the link came up
  overtaken   \* history: the last time it did, the stop() of the session before was still to come

mainVars == <<arb, indicator, rsTx, todo, ep>>
ioVars == <<link, ioQ, radio, sessions, overtaken>>
vars == <<arb, indicator, rsTx, todo, mainQ, pipe, buf, txQ, link, ioQ, radio, ep, sessions, overtaken>>

\* Messages.  `ep` is history: the transmission the message was sent for.
Report(kind, n) == [kind |-> kind, ep |-> n]
Command(kind) == [kind |-> kind, ep |-> ep, src |-> "Microphone"]
Packet(src, n) == [kind |-> "Audio", ep |-> n, src |-> src]
Gate(on) == [kind |-> "Gate", on |-> on, ep |-> ep]
SwitchTo(src)   == [kind |-> "Switch", src |-> src, current |-> TRUE]
Reconcile       == [kind |-> "Reconcile"]
MicAccess       == [kind |-> "Access"]
Stop            == [kind |-> "Stop"]

Off == [gate |-> FALSE, source |-> "Microphone", mic |-> FALSE, ep |-> 0]
\* block: the source a block of audio was accepted from; left: the half frame has samples of the microphone.
Empty == [block |-> "None", left |-> FALSE]
Silent == [tx |-> FALSE, cat |-> FALSE, ep |-> 0]

Init ==
  /\ arb = Idle /\ indicator = FALSE /\ rsTx = FALSE /\ todo = <<>> /\ mainQ = <<>>
  /\ pipe = Off /\ buf = Empty /\ txQ = <<>>
  /\ link = FALSE /\ ioQ = <<>> /\ radio = Silent
  /\ ep = 0 /\ sessions = 0 /\ overtaken = FALSE

-----------------------------------------------------------------------------
(* apply(): the effects of a decision, executed one by one and in order     *)
(* while the other threads run.                                             *)

\* The sequence of one step, if there is that step to take.
Only(cond, step) == IF cond THEN <<step>> ELSE <<>>

Fault_StepsNoRx(e) ==
  Only(e.setSource /\ e.gateActive, [do |-> "Source", src |-> e.source])
    \o Only(e.sendTx, [do |-> "TX"])
    \o Only(e.setGate, [do |-> "Gate", on |-> e.gateActive])
    \o Only(e.abortCw, [do |-> "Abort"])
    \o Only(e.sendRx /\ ~e.abortCw /\ ~e.setGate, [do |-> "RX"])
    \o Only(e.setSource /\ ~e.gateActive, [do |-> "Switch", src |-> e.source])

Fault_StepsGateFirst(e) ==
  Only(e.setSource /\ e.gateActive, [do |-> "Source", src |-> e.source])
    \o Only(e.setGate, [do |-> "Gate", on |-> e.gateActive])
    \o Only(e.sendTx, [do |-> "TX"])
    \o Only(e.abortCw, [do |-> "Abort"])
    \o Only(e.sendRx /\ ~e.abortCw, [do |-> "RX"])
    \o Only(e.setSource /\ ~e.gateActive, [do |-> "Switch", src |-> e.source])

Fault_StepsNoHandover(e) ==
  Only(e.setSource /\ e.gateActive, [do |-> "Source", src |-> e.source])
    \o Only(e.sendTx, [do |-> "TX"])
    \o Only(e.setGate, [do |-> "Gate", on |-> e.gateActive])
    \o Only(e.abortCw, [do |-> "Abort"])
    \o Only(e.sendRx /\ ~e.abortCw, [do |-> "RX"])
    \o Only(e.setSource /\ e.setGate /\ ~e.gateActive, [do |-> "Switch", src |-> e.source])

Steps(e) ==
  Only(e.setSource /\ e.gateActive, [do |-> "Source", src |-> e.source])
    \o Only(e.sendTx, [do |-> "TX"])
    \o Only(e.setGate, [do |-> "Gate", on |-> e.gateActive])
    \o Only(e.abortCw, [do |-> "Abort"])
    \o Only(e.sendRx /\ ~e.abortCw, [do |-> "RX"])
    \o Only(e.setSource /\ ~e.gateActive, [do |-> "Switch", src |-> e.source])

\* history: a transmission keyed from here starts when nobody but the radio transmitted.
NextEpisode(s) ==
  IF arb.owner \in {"None", "Radio"} /\ s.owner \notin {"None", "Radio"} THEN ep + 1 ELSE ep

Apply(r, andThen) ==
  /\ arb' = r.s
  /\ indicator' = IF r.e.transmitting # (arb.owner # "None") THEN r.e.transmitting ELSE indicator
  /\ ep' = NextEpisode(r.s)
  /\ todo' = Steps(r.e) \o andThen

\* The main thread is between two events.
Idling == todo = <<>>

Doing(what) == todo # <<>> /\ Head(todo).do = what /\ todo' = Tail(todo)

MainRuns == UNCHANGED <<arb, indicator, rsTx, ep, mainQ, buf, link, radio, sessions, overtaken>>

\* Every source write takes a new generation; a queued switch of an older one no longer counts.
Superseded ==
  [i \in DOMAIN txQ |-> IF txQ[i].kind = "Switch" THEN [txQ[i] EXCEPT !.current = FALSE] ELSE txQ[i]]

\* Written at once; what is half buffered is dropped, and the microphone follows, on the TX thread.
SetTxSource ==
  /\ Doing("Source")
  /\ LET src == Head(todo).src
     IN  /\ pipe' = [pipe EXCEPT !.source = src]
         /\ txQ' = Superseded \o Only(pipe.source # src, Reconcile)
  /\ UNCHANGED ioQ /\ MainRuns

\* A gate is opened only with a radio to send to, which is asked for again here, and closed always.
PostPttActive ==
  /\ Doing("Gate")
  /\ txQ' = IF Head(todo).on /\ ~link THEN txQ ELSE Append(txQ, Gate(Head(todo).on))
  /\ UNCHANGED <<pipe, ioQ>> /\ MainRuns

SetTxSourceAfterPtt ==
  /\ Doing("Switch")
  /\ txQ' = Append(Superseded, SwitchTo(Head(todo).src))
  /\ UNCHANGED <<pipe, ioQ>> /\ MainRuns

SendTxRx ==
  /\ Doing("TX") \/ Doing("RX")
  /\ ioQ' = Append(ioQ, Command(Head(todo).do))
  /\ UNCHANGED <<pipe, txQ>> /\ MainRuns

SendAbort ==
  /\ Doing("Abort")
  /\ ioQ' = IF link THEN Append(ioQ, Command("Abort")) ELSE ioQ
  /\ UNCHANGED <<pipe, txQ>> /\ MainRuns

\* AudioController::stopAudio().
StopAudio ==
  /\ Doing("Stop")
  /\ txQ' = Append(txQ, Stop)
  /\ UNCHANGED <<pipe, ioQ>> /\ MainRuns

ApplyStep == SetTxSource \/ PostPttActive \/ SetTxSourceAfterPtt \/ SendTxRx \/ SendAbort \/ StopAudio

-----------------------------------------------------------------------------
(* Producers, all on the main thread. *)

HasRoom == Len(txQ) <= MaxQueue /\ Len(ioQ) <= MaxSend /\ Len(mainQ) <= MaxReports

Requested(r) ==
  /\ Idling
  /\ Apply(r, <<>>)
  /\ UNCHANGED <<rsTx, mainQ, pipe, buf, txQ, ioVars>>

\* Who asks, and by which route (the call sites of TransmitController::engage).
CallSites == {<<"PttButton", "StreamedFromHere">>, <<"Ulanzi", "StreamedFromHere">>,
              <<"Xmit", "CatKeyedAndStreamed">>, <<"TciClient", "StreamedFromHere">>,
              <<"CatClient", "StreamedFromHere">>, <<"CatClient", "RadioLocal">>}

\* XMIT asks only when nobody transmits; a click while somebody does is a release (XmitStops).
EngageRequest(who, how) ==
  /\ who \in Producers
  /\ who = "Xmit" => arb.owner = "None"
  /\ HasRoom
  /\ link                       \* engage() refuses without a radio
  /\ MayEngage(arb, who)        \* a refusal changes nothing
  /\ arb.owner \in {"None", "Radio"} => ep < MaxEpisodes
  /\ Requested(Engage(arb, who, how))

\* Anyone else's release is ignored.
ReleaseRequest(who) ==
  /\ who \in Producers \ {"Xmit"}
  /\ arb.owner = who
  /\ Requested(Release(arb, who))

XmitStops ==
  /\ "Xmit" \in Producers
  /\ arb.owner # "None"
  /\ Requested(Release(arb, arb.owner))

Escape == HasRoom /\ Requested(OperatorStop(arb))

\* A logger's RX; that must key the K4 itself, when no one here is keyed.
CatStopsRadio ==
  /\ "CatClient" \in Producers
  /\ Idling /\ HasRoom
  /\ arb.owner \in {"None", "Radio"}
  /\ todo' = <<[do |-> "RX"]>>
  /\ UNCHANGED <<arb, indicator, rsTx, ep, mainQ, pipe, buf, txQ, ioVars>>

-----------------------------------------------------------------------------
(* Events delivered to the main thread. *)

Delivered(kind) ==
  /\ Idling
  /\ mainQ # <<>> /\ Head(mainQ).kind = kind
  /\ mainQ' = Tail(mainQ)
  /\ UNCHANGED <<pipe, buf, txQ, ioVars>>

\* RadioState filters an echo that changes nothing.
HearEcho(kind, tx) ==
  /\ Delivered(kind)
  /\ rsTx' = tx
  /\ IF rsTx = tx THEN UNCHANGED <<arb, indicator, ep, todo>> ELSE Apply(RadioReports(arb, tx), <<>>)

Fault_HearLostKeepsHold ==
  /\ Delivered("Lost")
  /\ todo' = <<[do |-> "Stop"]>>
  /\ rsTx' = FALSE
  /\ UNCHANGED <<arb, indicator, ep>>

Fault_HearLostKeepsAudio ==
  /\ Delivered("Lost")
  /\ rsTx' = FALSE
  /\ UNCHANGED <<arb, indicator, ep, todo>>

\* Disconnected: the arbiter releases, then MainWindow stops the audio and resets RadioState,
\* whose transmitStateChanged(false) finds nobody holding the transmitter.
HearLost ==
  /\ Delivered("Lost")
  /\ Apply(ReleaseAll(arb), <<[do |-> "Stop"]>>)
  /\ rsTx' = FALSE

MainStep == ApplyStep \/ HearEcho("TX", TRUE) \/ HearEcho("RX", FALSE) \/ HearLost

-----------------------------------------------------------------------------
(* The TX audio thread. *)

\* Between two events of its own.
Free == buf.block = "None"

Take(kind) == Free /\ txQ # <<>> /\ Head(txQ).kind = kind

OnlyTx == UNCHANGED <<mainVars, mainQ, ioVars>>

\* reconcileMic(): closes it when it is not wanted; opening it may fail.
Reconciled(p) ==
  LET wanted == p.gate /\ p.source = "Microphone"
  IN  {[p EXCEPT !.mic = wanted /\ (p.mic \/ opened)] : opened \in BOOLEAN}

\* A microphone that is closed leaves nothing behind, and neither does what flushes the buffer.
Buffers(flushed) == buf' = IF flushed \/ (pipe.mic /\ ~pipe'.mic) THEN Empty ELSE buf

SetPttActive ==
  /\ Take("Gate")
  /\ txQ' = Tail(txQ)
  /\ LET msg == Head(txQ)
     IN  /\ pipe' \in Reconciled([pipe EXCEPT !.gate = msg.on, !.ep = IF msg.on THEN msg.ep ELSE 0])
         /\ Buffers(msg.on /\ ~pipe.gate)
  /\ OnlyTx

Fault_SwitchSource ==
  /\ Take("Switch")
  /\ LET msg == Head(txQ)
         changes == msg.src # pipe.source
     IN  /\ pipe' = IF changes THEN [pipe EXCEPT !.source = msg.src] ELSE pipe
         /\ txQ' = Tail(txQ) \o Only(changes, Reconcile)
  /\ UNCHANGED buf /\ OnlyTx

\* setTxSourceAfterPtt()'s switch, dropped if any later source write was made.
SwitchSource ==
  /\ Take("Switch")
  /\ LET msg == Head(txQ)
         changes == msg.current /\ msg.src # pipe.source
     IN  /\ pipe' = IF changes THEN [pipe EXCEPT !.source = msg.src] ELSE pipe
         /\ txQ' = Tail(txQ) \o Only(changes, Reconcile)
  /\ UNCHANGED buf /\ OnlyTx

\* What setTxSource() and setMicAccess() post; the first flushes the buffer as well.
ReconcileMic ==
  /\ Take("Reconcile") \/ Take("Access")
  /\ txQ' = Tail(txQ)
  /\ pipe' \in Reconciled(pipe)
  /\ Buffers(Head(txQ).kind = "Reconcile")
  /\ OnlyTx

\* TxAudioPipeline::stop(): the source is written without a generation.
StopPipeline ==
  /\ Take("Stop")
  /\ txQ' = Tail(txQ)
  /\ pipe' = Off /\ buf' = Empty
  /\ OnlyTx

\* setMicDevice(), or the device list changed: the microphone is reopened elsewhere, or will not open.
MicDeviceLost ==
  /\ Free
  /\ pipe.mic
  /\ pipe' = [pipe EXCEPT !.mic = FALSE] /\ buf' = Empty
  /\ OnlyTx /\ UNCHANGED txQ

\* The operating system's answer to the microphone prompt, on the main thread.  Bound: not twice.
MicAccessAnswered ==
  /\ Idling /\ HasRoom
  /\ \A i \in DOMAIN txQ : txQ[i].kind # "Access"
  /\ txQ' = Append(txQ, MicAccess)
  /\ UNCHANGED <<mainVars, mainQ, pipe, buf, ioVars>>

TxStep == SetPttActive \/ SwitchSource \/ ReconcileMic \/ StopPipeline

AudioOnly == UNCHANGED <<mainVars, mainQ, pipe, txQ, link, radio, sessions, overtaken>>

\* onMicDataReady(), feedTciTxAudio(): a block is accepted if it comes from the source of now.  With the
\* gate closed it would be thrown away.  Bound: not behind a packet that is the same.
TakeBlock ==
  /\ Free
  /\ pipe.gate
  /\ pipe.source = "Microphone" => pipe.mic
  /\ Len(ioQ) <= MaxSend
  /\ ioQ # <<>> => ioQ[Len(ioQ)] # Packet(pipe.source, pipe.ep)
  /\ buf' = [buf EXCEPT !.block = pipe.source]
  /\ UNCHANGED ioQ /\ AudioOnly

\* bufferAndEmitTxFrames(), after the conversion: the block follows what is left of the one before; a
\* frame that is full is queued to the I/O thread, and what remains is left for the next.  A frame with
\* any of the microphone in it counts as the microphone's.
SendBlock ==
  /\ ~Free
  /\ LET room == buf.left \/ buf.block = "Microphone"
         frame == Packet(IF room THEN "Microphone" ELSE "Tci", pipe.ep)
     IN  \/ /\ ioQ' = Append(ioQ, frame)
            /\ \E left \in BOOLEAN : buf' = [block |-> "None", left |-> left /\ buf.block = "Microphone"]
         \/ buf' = [block |-> "None", left |-> room] /\ UNCHANGED ioQ
  /\ AudioOnly

-----------------------------------------------------------------------------
(* The I/O thread and the radio at the end of it. *)

\* The radio echoes a change of its transmit state, and only a change.
RadioBecomes(r) ==
  /\ radio' = r
  /\ mainQ' = IF r.tx = radio.tx THEN mainQ
              ELSE Append(mainQ, IF r.tx THEN Report("TX", r.ep) ELSE Report("RX", radio.ep))

OnlyIo == ioQ # <<>> /\ ioQ' = Tail(ioQ) /\ UNCHANGED <<mainVars, pipe, buf, txQ, link, sessions, overtaken>>

\* TcpClient drops what it is asked to send unless Connected.
IoDrops == OnlyIo /\ ~link /\ UNCHANGED <<radio, mainQ>>

IoSendsTx ==
  /\ OnlyIo /\ link /\ Head(ioQ).kind = "TX"
  /\ RadioBecomes([tx |-> TRUE, cat |-> TRUE, ep |-> Head(ioQ).ep])

IoSendsRx == OnlyIo /\ link /\ Head(ioQ).kind \in {"RX", "Abort"} /\ RadioBecomes(Silent)

\* The tunnel header keys the K4.
IoSendsAudio ==
  /\ OnlyIo /\ link /\ Head(ioQ).kind = "Audio"
  /\ RadioBecomes([radio EXCEPT !.tx = TRUE, !.ep = Head(ioQ).ep])

IoStep == IoDrops \/ IoSendsTx \/ IoSendsRx \/ IoSendsAudio

OnlyRadio ==
  link /\ Len(mainQ) < MaxReports /\ UNCHANGED <<mainVars, pipe, buf, txQ, link, ioQ, sessions, overtaken>>

\* Keyed by audio, it notices late that the audio stopped.
RadioNoticesSilence ==
  /\ OnlyRadio /\ radio.tx /\ ~radio.cat
  /\ \A i \in DOMAIN ioQ : ioQ[i].kind # "Audio"
  /\ RadioBecomes(Silent)

\* The front panel, a footswitch, TUNE; a fault, or RX pressed at the radio.
RadioKeysItself == OnlyRadio /\ ~radio.tx /\ RadioBecomes([tx |-> TRUE, cat |-> FALSE, ep |-> 0])

RadioUnkeysItself == OnlyRadio /\ radio.tx /\ RadioBecomes(Silent)

LinkLost ==
  /\ link
  /\ link' = FALSE
  /\ radio' = Silent
  /\ mainQ' = Append(mainQ, Report("Lost", 0))
  /\ UNCHANGED <<mainVars, pipe, buf, txQ, ioQ, sessions, overtaken>>

\* The stop() of the last session is still to be posted, or to be carried out.
StopDue ==
  \/ \E i \in DOMAIN mainQ : mainQ[i].kind = "Lost"
  \/ \E i \in DOMAIN todo : todo[i].do = "Stop"
  \/ \E i \in DOMAIN txQ : txQ[i].kind = "Stop"

\* The next session.  The I/O thread has by then dropped every TX; posted to the last one; the TX thread
\* may be behind, for openMic() blocks it for as long as the OS takes.
LinkUp ==
  /\ ~link /\ sessions < MaxSessions
  /\ \A i \in DOMAIN ioQ : ioQ[i].kind # "TX"
  /\ link' = TRUE
  /\ sessions' = sessions + 1
  /\ overtaken' = StopDue
  /\ UNCHANGED <<mainVars, mainQ, pipe, buf, txQ, ioQ, radio>>

-----------------------------------------------------------------------------
Requests ==
  \/ \E site \in CallSites : EngageRequest(site[1], site[2])
  \/ \E who \in Producers : ReleaseRequest(who)
  \/ XmitStops \/ Escape \/ CatStopsRadio

Environment ==
  \/ RadioNoticesSilence \/ RadioKeysItself \/ RadioUnkeysItself
  \/ LinkLost \/ LinkUp \/ MicDeviceLost \/ MicAccessAnswered

Next == Requests \/ MainStep \/ TxStep \/ TakeBlock \/ SendBlock \/ IoStep \/ Environment

Spec == Init /\ [][Next]_vars

\* Each thread's event loop delivers what is posted to it; on the TX thread that waits for the block in
\* hand, and is not put off by the next one.
Fairness == WF_vars(MainStep) /\ SF_vars(TxStep) /\ WF_vars(SendBlock) /\ WF_vars(IoStep)

FairSpec == Spec /\ Fairness

-----------------------------------------------------------------------------
(* What is checked. *)

\* What is posted to whom.
MainTask == [do : {"Source", "Switch"}, src : AudioSource]
              \cup [do : {"Gate"}, on : BOOLEAN] \cup [do : {"TX", "RX", "Abort", "Stop"}]

TxCall == [kind : {"Gate"}, on : BOOLEAN, ep : Nat]
            \cup [kind : {"Switch"}, src : AudioSource, current : BOOLEAN]
            \cup [kind : {"Reconcile", "Access", "Stop"}]

IoCall == [kind : {"TX", "RX", "Abort", "Audio"}, ep : Nat, src : AudioSource]

Event == [kind : {"TX", "RX", "Lost"}, ep : Nat]

\* Shape: types, and a state of the arbiter that its decisions can reach.
TypeOK ==
  /\ arb \in State /\ Paired(arb)
  /\ indicator \in BOOLEAN /\ rsTx \in BOOLEAN /\ link \in BOOLEAN
  /\ todo \in Seq(MainTask) /\ mainQ \in Seq(Event)
  /\ txQ \in Seq(TxCall) /\ ioQ \in Seq(IoCall)
  /\ pipe \in [gate : BOOLEAN, source : AudioSource, mic : BOOLEAN, ep : Nat]
  /\ buf \in [block : {"None"} \cup AudioSource, left : BOOLEAN]
  /\ radio \in [tx : BOOLEAN, cat : BOOLEAN, ep : Nat]
  /\ ep \in Nat /\ sessions \in Nat /\ overtaken \in BOOLEAN

\* The button shows what is happening, not what was requested (transmitcontroller.h,
\* transmittingChanged): lit exactly while somebody holds the transmitter.
IndicatorHonest == indicator = (arb.owner # "None")

\* A transmission the radio acknowledged is one RadioState still shows as transmitting.  Otherwise
\* RadioState would filter the radio's next RX; as no change, and nothing would close the gate.
ConfirmedIsHeard == arb.radioConfirmed => arb.owner # "None" /\ rsTx

\* What the operator is shown of a transmission, and what its end will be heard by, are both true.
ShownAsItIs == IndicatorHonest /\ ConfirmedIsHeard

\* A Disconnected the main thread has not heard yet.
LostPending == \E i \in DOMAIN mainQ : mainQ[i].kind = "Lost"

\* The gate the TX thread ends up with, once it has done what is posted to it.
GateEndsAs(open) ==
  LET calls == {i \in DOMAIN txQ : txQ[i].kind \in {"Gate", "Stop"}}
  IN  IF calls = {} THEN pipe.gate = open
      ELSE \E i \in calls : /\ \A j \in calls : j <= i
                            /\ open = (txQ[i].kind = "Gate" /\ txQ[i].on)

\* Between two events of the main thread, what is posted to the TX thread leaves the gate open
\* exactly if the holder's route streams from here - unless the loss of the link is still to be heard.
GateFollowsOwner == Idling /\ ~LostPending => GateEndsAs(NeedsGate(arb.route))

\* The radio is not left keyed by a TX; of ours that nothing will undo: once every key command has
\* been sent, a K4 keyed by TX; has a holder whose route keys it that way.
KeyCommandsSent == Idling /\ \A i \in DOMAIN ioQ : ioQ[i].kind = "Audio"

NotLeftKeyed == KeyCommandsSent /\ radio.cat => KeyedByCat(arb.route)

\* Nobody holds a transmitter that is not there, once the loss of the link has been heard.
NoHoldOffline == ~link /\ ~LostPending => arb.owner = "None"

\* The microphone is not left open: with nothing left to do on the TX thread it is open only to
\* be transmitted.
MicNotLeftOpen == txQ = <<>> /\ pipe.mic => pipe.gate /\ pipe.source = "Microphone"

\* Nothing stays on behind a transmission that ended, by whatever way it ended: not the radio, not the
\* hold, not the microphone.
NothingLeftOn == NotLeftKeyed /\ NoHoldOffline /\ MicNotLeftOpen

\* XMIT keys by TX; and streams too: TX; must reach the radio before audio does (transmitcontroller.cpp).
TxBeforeAudio ==
  arb.owner = "Xmit" =>
    \A i \in DOMAIN ioQ : ioQ[i].kind = "Audio" /\ ioQ[i].ep = ep =>
      /\ \A j \in i .. Len(ioQ) : ioQ[j].kind # "TX"
      /\ \A j \in DOMAIN todo : todo[j].do # "TX"

\* The arbiter is the lock of module TransmitLock, whatever the threads do.
Lock == INSTANCE TransmitLock
          WITH Local <- {o \in Owner : IsLocal(o)},
               Remote <- {"CatClient", "TciClient", "Radio"},
               Nobody <- "None", holder <- arb.owner

ImplementsLock == Lock!Spec

\* Once the TX thread has done what is posted, an open gate sends the holder's own audio - unless the
\* stop() of the last session has put the source back in this one.
SourceSettles ==
  Idling /\ txQ = <<>> /\ pipe.gate /\ ~LostPending /\ ~overtaken => pipe.source = SourceFor(arb.owner)

\* While a TCI client holds the transmitter (again, unless such a stop() undid its source) nothing is taken
\* from the microphone once the handler that gave it to the client has named the source; and nothing of
\* the room, neither the block that was in hand then nor a half frame, is sent in the client's own
\* transmission: it is at most the tail of the one before.
RoomNeverUnderTci ==
  [][arb.owner = "TciClient" /\ ~overtaken =>
       /\ TakeBlock /\ pipe.source = "Microphone" => ~Idling /\ pipe.ep < ep
       /\ \A n \in 0 .. ep : ioQ' = Append(ioQ, Packet("Microphone", n)) => n < ep]_vars

\* Losing the radio closes the gate (AUD-001), however the threads are delayed.
LinkLossClosesGate == ~link ~> ~pipe.gate

\* The radio dropping out of an acknowledged transmission ends it (INT-002), unless audio
\* already under way keyed the radio again.
RadioDropEndsHold == (link /\ arb.radioConfirmed /\ ~radio.tx) ~> (arb.owner = "None" \/ radio.tx)

\* transmitowner.h: "A stale RX; from the previous transmission is rejected on its own evidence".
StaleRxRejected ==
  [][mainQ # <<>> /\ mainQ' = Tail(mainQ) /\ Head(mainQ).kind = "RX"
       /\ 0 < Head(mainQ).ep /\ Head(mainQ).ep < ep
       /\ arb.owner \notin {"None", "Radio"}
     => arb'.owner = arb.owner]_vars
=============================================================================

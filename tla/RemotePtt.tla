----------------------------- MODULE RemotePtt -----------------------------
(***************************************************************************)
(* PTT from client programs.  Two servers record which of their clients    *)
(* keyed, and both ask the same arbiter (module TransmitOwner):            *)
(*   - network/catserver.cpp, on the main thread, by direct calls;         *)
(*   - network/tciserver.cpp, on the TCI thread: its pttRequested is       *)
(*     queued to the main thread (toMain), and controllers/tcicontroller   *)
(*     .cpp queues releaseLocalPtt back to it (toTci).                     *)
(* The audio path is left to module TransmitControl.  Fault_... are seeded *)
(* faults (TransmitOwner).                                                 *)
(***************************************************************************)
EXTENDS Naturals, Sequences, TransmitOwner

CONSTANTS CatClients, TciClients, NoClient,
          MaxPosted    \* bound: events in flight each way at which the sender's peer pauses

ASSUME PttAssumption ==
  /\ NoClient \notin CatClients \cup TciClients
  /\ MaxPosted \in Nat

VARIABLES
  arb,      \* TransmitController::m_state
  link,     \* TcpClient::m_connected
  lost,     \* a Disconnected is posted to the main thread
  cat,      \* CatServer: m_clients, m_pttOwner, m_pttOwnerForwarded
  tci,      \* TciServer: m_clients, m_pttOwner
  toMain,   \* pttRequested(true), "Key", or (false), "Unkey", on its way to TciController
  toTci     \* number of releaseLocalPtt calls on their way to TciServer

vars == <<arb, link, lost, cat, tci, toMain, toTci>>

Init ==
  /\ arb = Idle /\ link = FALSE /\ lost = FALSE
  /\ cat = [clients |-> {}, owner |-> NoClient, forwarded |-> FALSE]
  /\ tci = [clients |-> {}, owner |-> NoClient]
  /\ toMain = <<>> /\ toTci = 0

-----------------------------------------------------------------------------
(* TransmitController::apply(), as TciController sees it.                   *)

\* AudioController::setPttActive() announces the gate, unless it drops an opening.
GateAnnounced(e) == e.setGate /\ (e.gateActive => link)

\* ownerChanged, for the one change that TciController acts on.
TciLosesIt(s) == arb.owner = "TciClient" /\ s.owner # "TciClient"

Count(cond) == IF cond THEN 1 ELSE 0

\* `driving`: TciController asked for it itself (m_drivingPtt).
Apply(r, driving) ==
  /\ arb' = r.s
  /\ toTci' = toTci + Count(GateAnnounced(r.e) /\ ~driving) + Count(TciLosesIt(r.s))

Refused(who) == ~link \/ ~MayEngage(arb, who)

\* A refused request changes nothing.
EngageOrNot(who, how) ==
  IF Refused(who) THEN UNCHANGED <<arb, toTci>> ELSE Apply(Engage(arb, who, how), FALSE)

Calm == toTci <= MaxPosted

-----------------------------------------------------------------------------
(* The CAT server. *)

CatOnly == UNCHANGED <<link, lost, tci, toMain>>

CatConnects(c) ==
  /\ c \in CatClients \ cat.clients
  /\ cat' = [cat EXCEPT !.clients = @ \cup {c}]
  /\ CatOnly /\ UNCHANGED <<arb, toTci>>

\* MainWindow's two slots.  An RX; that keys the radio directly is sent on when nobody here is keyed,
\* which leaves the arbiter as it is.
PttRequested(on) ==
  IF on THEN EngageOrNot("CatClient", "StreamedFromHere") ELSE Apply(Release(arb, "CatClient"), FALSE)

RadioKeyRequested(on) ==
  IF on THEN EngageOrNot("CatClient", "RadioLocal") ELSE Apply(Release(arb, "CatClient"), FALSE)

Asked(forward, on) == IF forward THEN RadioKeyRequested(on) ELSE PttRequested(on)

\* TX;, RX; and TX/;.  `forward` (CW, or QK4 audio off) may differ from one command to the next.
CatCommand(c, key, forward) ==
  /\ c \in cat.clients
  /\ Calm
  /\ cat' = [cat EXCEPT !.owner = IF key THEN c ELSE NoClient, !.forwarded = key /\ forward]
  /\ Asked(forward, key)
  /\ CatOnly

Fault_CatLoses(gone) ==
  /\ cat' = [clients |-> cat.clients \ gone, forwarded |-> FALSE,
              owner |-> IF cat.owner \in gone THEN NoClient ELSE cat.owner]
  /\ UNCHANGED <<arb, toTci>>

\* releasePttIfOwner(), and then the client is gone.
CatLoses(gone) ==
  IF cat.owner \in gone
    THEN /\ cat' = [clients |-> cat.clients \ gone, owner |-> NoClient, forwarded |-> FALSE]
         /\ Asked(cat.forwarded, FALSE)
    ELSE /\ cat' = [cat EXCEPT !.clients = @ \ gone]
         /\ UNCHANGED <<arb, toTci>>

CatDisconnects(c) == c \in cat.clients /\ Calm /\ CatLoses({c}) /\ CatOnly

CatServerStops == cat.clients # {} /\ Calm /\ CatLoses(cat.clients) /\ CatOnly

CatStep ==
  \/ \E c \in CatClients : CatConnects(c) \/ CatDisconnects(c)
  \/ \E c \in CatClients, key, forward \in BOOLEAN : CatCommand(c, key, forward)
  \/ CatServerStops

-----------------------------------------------------------------------------
(* The TCI server, on its own thread. *)

TciOnly == UNCHANGED <<arb, link, lost, cat>>

TciConnects(c) ==
  /\ c \in TciClients \ tci.clients
  /\ tci' = [tci EXCEPT !.clients = @ \cup {c}]
  /\ TciOnly /\ UNCHANGED <<toMain, toTci>>

\* setPtt(client, true): one owner at a time; a re-assert asks again.
TciKeys(c) ==
  /\ c \in tci.clients
  /\ tci.owner \in {NoClient, c}
  /\ Len(toMain) < MaxPosted
  /\ tci' = [tci EXCEPT !.owner = c]
  /\ toMain' = Append(toMain, "Key")
  /\ TciOnly /\ UNCHANGED toTci

\* The broadcast of trx:true drops the requester: it is released, and was never asked for.
TciKeyDropsClient(c) ==
  /\ c \in tci.clients
  /\ tci.owner \in {NoClient, c}
  /\ Len(toMain) < MaxPosted
  /\ tci' = [clients |-> tci.clients \ {c}, owner |-> NoClient]
  /\ toMain' = Append(toMain, "Unkey")
  /\ TciOnly /\ UNCHANGED toTci

\* An unkey from a client that does not hold it is a status report.
TciUnkeys(c) ==
  /\ tci.owner = c /\ c \in tci.clients
  /\ tci' = [tci EXCEPT !.owner = NoClient]
  /\ toMain' = Append(toMain, "Unkey")
  /\ TciOnly /\ UNCHANGED toTci

Fault_TciLoses(gone) ==
  /\ tci' = [tci EXCEPT !.clients = @ \ gone]
  /\ toMain' = IF tci.owner \in gone THEN Append(toMain, "Unkey") ELSE toMain

TciLoses(gone) ==
  /\ tci' = [clients |-> tci.clients \ gone, owner |-> IF tci.owner \in gone THEN NoClient ELSE tci.owner]
  /\ toMain' = IF tci.owner \in gone THEN Append(toMain, "Unkey") ELSE toMain

TciDisconnects(c) == c \in tci.clients /\ TciLoses({c}) /\ TciOnly /\ UNCHANGED toTci

TciServerStops == tci.clients # {} /\ TciLoses(tci.clients) /\ TciOnly /\ UNCHANGED toTci

\* releaseLocalPtt(): whoever holds it now loses it, and pttRequested is not emitted.
ReleaseLocalPtt ==
  /\ toTci > 0
  /\ toTci' = toTci - 1
  /\ tci' = [tci EXCEPT !.owner = NoClient]
  /\ TciOnly /\ UNCHANGED toMain

TciStep ==
  \/ \E c \in TciClients :
       TciConnects(c) \/ TciKeys(c) \/ TciKeyDropsClient(c) \/ TciUnkeys(c) \/ TciDisconnects(c)
  \/ TciServerStops

-----------------------------------------------------------------------------
(* TciController, on the main thread. *)

MainOnly == UNCHANGED <<link, lost, cat, tci>>

Fault_OnPttRequested ==
  /\ toMain # <<>> /\ Calm
  /\ toMain' = Tail(toMain)
  /\ IF Head(toMain) = "Key"
       THEN IF Refused("TciClient") THEN UNCHANGED <<arb, toTci>>
              ELSE Apply(Engage(arb, "TciClient", "StreamedFromHere"), TRUE)
       ELSE Apply(Release(arb, "TciClient"), TRUE)
  /\ MainOnly

\* A refusal is told to the server, which believes its client is transmitting.
OnPttRequested ==
  /\ toMain # <<>> /\ Calm
  /\ toMain' = Tail(toMain)
  /\ IF Head(toMain) = "Key"
       THEN IF Refused("TciClient")
              THEN arb' = arb /\ toTci' = toTci + 1
              ELSE Apply(Engage(arb, "TciClient", "StreamedFromHere"), TRUE)
       ELSE Apply(Release(arb, "TciClient"), TRUE)
  /\ MainOnly

\* setAudioEnabled(false) ends a client's transmission.
TciAudioOff ==
  /\ arb.owner = "TciClient" /\ Calm
  /\ Apply(Release(arb, "TciClient"), TRUE)
  /\ MainOnly /\ UNCHANGED toMain

-----------------------------------------------------------------------------
(* The operator, the radio and the link. *)

Others(r) == Calm /\ Apply(r, FALSE) /\ UNCHANGED <<cat, tci, toMain>>

OperatorKeys == /\ ~Refused("PttButton")
                /\ Others(Engage(arb, "PttButton", "StreamedFromHere"))
                /\ UNCHANGED <<link, lost>>

OperatorLetsGo == /\ arb.owner = "PttButton"
                  /\ Others(Release(arb, "PttButton"))
                  /\ UNCHANGED <<link, lost>>

\* XMIT clicked while somebody transmits, or Esc.
OperatorStops == arb.owner # "None" /\ Others(OperatorStop(arb)) /\ UNCHANGED <<link, lost>>

RadioTurns(tx) == link /\ Others(RadioReports(arb, tx)) /\ UNCHANGED <<link, lost>>

LinkUp == ~link /\ link' = TRUE /\ UNCHANGED <<arb, lost, cat, tci, toMain, toTci>>

LinkLost == link /\ ~lost /\ link' = FALSE /\ lost' = TRUE /\ UNCHANGED <<arb, cat, tci, toMain, toTci>>

\* TransmitController::releaseAll(), then TciController's own releaseClientPtt().
HearLost ==
  /\ lost /\ Calm
  /\ lost' = FALSE
  /\ LET r == ReleaseAll(arb)
     IN  /\ arb' = r.s
         /\ toTci' = toTci + Count(GateAnnounced(r.e)) + Count(TciLosesIt(r.s)) + 1
  /\ UNCHANGED <<link, cat, tci, toMain>>

OperatorStep == OperatorKeys \/ OperatorLetsGo \/ OperatorStops

Next ==
  \/ CatStep \/ TciStep \/ ReleaseLocalPtt
  \/ OnPttRequested \/ TciAudioOff
  \/ OperatorStep \/ (\E tx \in BOOLEAN : RadioTurns(tx))
  \/ LinkUp \/ LinkLost \/ HearLost

Spec == Init /\ [][Next]_vars

-----------------------------------------------------------------------------
(* What is checked. *)

\* Shape, and a recorded owner of a server is one of its connected clients.
TypeOK ==
  /\ arb \in State /\ link \in BOOLEAN /\ lost \in BOOLEAN
  /\ cat \in [clients : SUBSET CatClients, owner : CatClients \cup {NoClient}, forwarded : BOOLEAN]
  /\ tci \in [clients : SUBSET TciClients, owner : TciClients \cup {NoClient}]
  /\ cat.owner \in cat.clients \cup {NoClient} /\ tci.owner \in tci.clients \cup {NoClient}
  /\ toMain \in Seq({"Key", "Unkey"}) /\ toTci \in Nat

\* A transmission held for a CAT client has a connected client whose departure ends it, and with a
\* radio there the server remembers the route it was keyed by (catserver.cpp, releasePttIfOwner).
CatHolderIsAlive ==
  arb.owner = "CatClient" =>
    /\ cat.owner \in cat.clients
    /\ link /\ ~lost => (cat.forwarded <=> arb.route = "RadioLocal")

\* Nothing a client program does, and no server losing a client, unkeys the operator.
OperatorIsNotUnkeyed == [][CatStep \/ TciStep \/ OnPttRequested \/ ReleaseLocalPtt
                             => (IsLocal(arb.owner) => arb' = arb)]_vars

\* With nothing in flight the TCI server never believes a client is transmitting that is not.
Quiet == toMain = <<>> /\ toTci = 0 /\ ~lost

TciServerIsTold == Quiet /\ tci.owner # NoClient => arb.owner = "TciClient"

\* And the other way: a transmitter held for a TCI client is recorded by the server as held, or no
\* client's unkey or departure will end it (tciserver.cpp, onClientDisconnected).
TciHolderIsKnown == Quiet /\ arb.owner = "TciClient" => tci.owner # NoClient
=============================================================================

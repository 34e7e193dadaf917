--------------------------- MODULE RemotePttProofs ---------------------------
(***************************************************************************)
(* Safety of RemotePtt for every set of clients and every bound: what the  *)
(* two servers record of who keyed agrees with the arbiter.  A decision of *)
(* the arbiter is used only through the lemmas of the first part and the   *)
(* results of module TransmitOwnerProofs.                                  *)
(***************************************************************************)
EXTENDS RemotePtt, TransmitOwnerProofs, SequenceTheorems

-----------------------------------------------------------------------------
(* The decisions this module's actions carry out.                           *)

\* Who holds the transmitter, and by which route, after each decision.
LEMMA EngageHolds ==
  ASSUME NEW s \in State, NEW who \in Owner, NEW how \in Route, MayEngage(s, who)
  PROVE  /\ Engage(s, who, how).s.owner = who
         /\ Engage(s, who, how).s.route = how
BY DEF Engage, Transition

LEMMA FreeingFrees ==
  ASSUME NEW s \in State
  PROVE  /\ Transition(s, "None", "None").s.owner = "None"
         /\ ReleaseAll(s).s.owner = "None"
         /\ OperatorStop(s).s.owner = "None"
BY DEF Transition, ReleaseAll, OperatorStop, Ignore

\* A release is the holder's own, or changes nothing.
LEMMA ReleaseIsOwn ==
  ASSUME NEW s \in State, NEW who \in Owner, who # "None"
  PROVE  /\ s.owner = who => Release(s, who).s.owner = "None"
         /\ s.owner # who => Release(s, who).s = s
         /\ Release(s, who).s.owner # who
BY DEF Release, Transition, Ignore

\* What the radio reports never gives the transmitter to a client program, nor moves it between routes.
LEMMA RadioGivesNobody ==
  ASSUME NEW s \in State, NEW tx \in BOOLEAN,
         RadioReports(s, tx).s.owner \notin {"None", "Radio"}
  PROVE  /\ RadioReports(s, tx).s.owner = s.owner
         /\ RadioReports(s, tx).s.route = s.route
BY DEF RadioReports, RadioReportsTx, RadioReportsRx, Transition, Ignore, State

-----------------------------------------------------------------------------
(* The inductive invariant.                                                 *)

\* Nobody holds a transmitter that is not there, once the loss of the link has been heard.  Without
\* it the next session could begin with a CAT client's hold that no command of this session explains.
FreeOffline == ~link /\ ~lost => arb.owner = "None"

\* What a server that believes its client is transmitting rests on: the last thing it asked for was
\* the transmitter, and when that was answered and no taking back is on its way, it was granted.
\* TciServerIsTold says it only of a server with nothing in flight, and is not inductive.
ClaimStands ==
  tci.owner # NoClient =>
    /\ toMain # <<>> => toMain[Len(toMain)] = "Key"
    /\ Quiet => arb.owner = "TciClient"

IInv == TypeOK /\ Reachable(arb) /\ FreeOffline /\ CatHolderIsAlive /\ ClaimStands

LEMMA DecisionTyped ==
  ASSUME IInv, NEW r, Decision(arb, r)
  PROVE  Reachable(r.s) /\ r.s \in State /\ r.e \in Effects
BY EveryDecisionSound DEF IInv, Sound, Reachable

\* What is announced and taken back is counted, and a TCI client that loses the transmitter is among it.
LEMMA ApplyTells ==
  ASSUME IInv, NEW r, Decision(arb, r), NEW driving \in BOOLEAN, Apply(r, driving)
  PROVE  /\ Reachable(arb') /\ arb' = r.s
         /\ toTci' \in Nat /\ toTci' >= toTci
         /\ arb.owner = "TciClient" /\ arb'.owner # "TciClient" => toTci' > 0
<1>1. Reachable(r.s)
  BY DecisionTyped
<1>2. \A c \in BOOLEAN : Count(c) \in {0, 1} /\ (c => Count(c) = 1)
  BY DEF Count
<1>3. (GateAnnounced(r.e) /\ ~driving) \in BOOLEAN /\ TciLosesIt(r.s) \in BOOLEAN
  BY DEF GateAnnounced, TciLosesIt
<1> DEFINE a == Count(GateAnnounced(r.e) /\ ~driving)
           b == Count(TciLosesIt(r.s))
<1>4. a \in {0, 1} /\ b \in {0, 1} /\ (TciLosesIt(r.s) => b = 1)
  BY <1>2, <1>3
<1>5. toTci' = toTci + a + b /\ arb' = r.s
  BY DEF Apply
<1> HIDE DEF a, b
<1>6. toTci' \in Nat /\ toTci' >= toTci /\ (TciLosesIt(r.s) => toTci' > 0)
  BY <1>4, <1>5 DEF IInv, TypeOK
<1>7. QED
  BY <1>1, <1>5, <1>6 DEF TciLosesIt

\* A request that may be refused: as a decision, or as no change at all.
LEMMA EngageOrNotTells ==
  ASSUME IInv, NEW who \in Producer, NEW how \in KeyingRoute, EngageOrNot(who, how)
  PROVE  /\ Reachable(arb') /\ toTci' \in Nat /\ toTci' >= toTci
         /\ Refused(who) => arb' = arb
         /\ ~Refused(who) => arb' = Engage(arb, who, how).s
         /\ arb.owner = "TciClient" /\ arb'.owner # "TciClient" => toTci' > 0
<1>1. CASE Refused(who)
  BY <1>1 DEF EngageOrNot, IInv, TypeOK
<1>2. CASE ~Refused(who)
  <2>1. Decision(arb, Engage(arb, who, how)) /\ Apply(Engage(arb, who, how), FALSE)
    BY <1>2 DEF EngageOrNot, Decision, Request
  <2>2. QED
    BY <1>2, <2>1, ApplyTells
<1>3. QED
  BY <1>1, <1>2

\* What a CAT command, or the end of its client, does to the arbiter.
LEMMA CatAsks ==
  ASSUME IInv, NEW forward \in BOOLEAN, NEW on \in BOOLEAN, Asked(forward, on)
  PROVE  /\ Reachable(arb') /\ toTci' \in Nat /\ toTci' >= toTci
         /\ arb.owner = "TciClient" /\ arb'.owner # "TciClient" => toTci' > 0
         /\ IsLocal(arb.owner) => arb' = arb
         /\ ~link /\ arb.owner = "None" => arb'.owner = "None"
         /\ ~on => arb'.owner # "CatClient"
         /\ on /\ link /\ arb'.owner = "CatClient" => (forward <=> arb'.route = "RadioLocal")
<1> DEFINE how == IF forward THEN "RadioLocal" ELSE "StreamedFromHere"
<1>1. /\ how \in KeyingRoute /\ how \in Route /\ (forward <=> how = "RadioLocal")
      /\ "CatClient" \in Producer /\ "CatClient" \in Owner /\ "CatClient" # "None"
      /\ arb \in State
  BY DEF KeyingRoute, Route, Producer, Owner, IInv, TypeOK
<1>2. CASE on
  <2>1. EngageOrNot("CatClient", how)
    BY <1>2 DEF Asked, PttRequested, RadioKeyRequested
  <2>2. /\ Reachable(arb') /\ toTci' \in Nat /\ toTci' >= toTci
        /\ Refused("CatClient") => arb' = arb
        /\ ~Refused("CatClient") => arb' = Engage(arb, "CatClient", how).s
        /\ arb.owner = "TciClient" /\ arb'.owner # "TciClient" => toTci' > 0
    BY <1>1, <2>1, EngageOrNotTells
  <2>3. CASE Refused("CatClient")
    BY <1>2, <2>2, <2>3 DEF Refused, MayEngage
  <2>4. CASE ~Refused("CatClient")
    <3>1. /\ Engage(arb, "CatClient", how).s.owner = "CatClient"
          /\ Engage(arb, "CatClient", how).s.route = how
      BY <1>1, <2>4, EngageHolds DEF Refused
    <3>2. link /\ ~IsLocal(arb.owner)
      BY <2>4 DEF Refused, MayEngage, IsLocal
    <3>3. QED
      BY <1>1, <1>2, <2>2, <2>4, <3>1, <3>2
  <2>5. QED
    BY <2>3, <2>4
<1>3. CASE ~on
  <2>1. Apply(Release(arb, "CatClient"), FALSE)
    BY <1>3 DEF Asked, PttRequested, RadioKeyRequested
  <2>2. Decision(arb, Release(arb, "CatClient"))
    BY <1>1 DEF Decision, Request
  <2>3. /\ Reachable(arb') /\ arb' = Release(arb, "CatClient").s
        /\ toTci' \in Nat /\ toTci' >= toTci
        /\ arb.owner = "TciClient" /\ arb'.owner # "TciClient" => toTci' > 0
    BY <2>1, <2>2, ApplyTells
  <2>4. QED
    BY <1>1, <1>3, <2>3, ReleaseIsOwn DEF IsLocal
<1>4. QED
  BY <1>2, <1>3

-----------------------------------------------------------------------------
(* The CAT server.                                                          *)

\* A server's claim stands while neither it nor its requests move, unless the transmitter goes from a
\* TCI client to another and that is not told.
LEMMA ClaimKept ==
  ASSUME IInv, UNCHANGED <<tci, toMain, lost>>, toTci' \in Nat, toTci' >= toTci,
         arb.owner = "TciClient" /\ arb'.owner # "TciClient" => toTci' > 0
  PROVE  ClaimStands'
BY DEF IInv, ClaimStands, Quiet, TypeOK

LEMMA CatCommandKeeps ==
  ASSUME IInv, NEW c \in CatClients, NEW key \in BOOLEAN, NEW forward \in BOOLEAN,
         CatCommand(c, key, forward)
  PROVE  IInv'
<1>1. /\ Asked(forward, key) /\ c \in cat.clients /\ UNCHANGED <<link, lost, tci, toMain>>
      /\ cat' = [cat EXCEPT !.owner = IF key THEN c ELSE NoClient, !.forwarded = key /\ forward]
  BY DEF CatCommand, CatOnly
<1>2. /\ Reachable(arb') /\ toTci' \in Nat /\ toTci' >= toTci
      /\ arb.owner = "TciClient" /\ arb'.owner # "TciClient" => toTci' > 0
      /\ ~link /\ arb.owner = "None" => arb'.owner = "None"
      /\ ~key => arb'.owner # "CatClient"
      /\ key /\ link /\ arb'.owner = "CatClient" => (forward <=> arb'.route = "RadioLocal")
  BY <1>1, CatAsks
<1>3. /\ cat'.clients = cat.clients /\ cat'.owner = (IF key THEN c ELSE NoClient)
      /\ cat'.forwarded = (key /\ forward)
  BY <1>1 DEF IInv, TypeOK
<1>4. TypeOK'
  BY <1>1, <1>2, <1>3 DEF IInv, TypeOK, Reachable
<1>5. FreeOffline' /\ CatHolderIsAlive'
  BY <1>1, <1>2, <1>3 DEF IInv, FreeOffline, CatHolderIsAlive
<1>6. QED
  BY <1>1, <1>2, <1>4, <1>5, ClaimKept DEF IInv

\* A client that leaves takes its own transmission with it, and no other.
LEMMA CatLosesKeeps ==
  ASSUME IInv, NEW gone \in SUBSET cat.clients, CatLoses(gone), CatOnly
  PROVE  IInv'
<1>1. UNCHANGED <<link, lost, tci, toMain>> /\ NoClient \notin gone
  BY PttAssumption DEF CatOnly, IInv, TypeOK
<1>2. CASE cat.owner \in gone
  <2>1. /\ cat' = [clients |-> cat.clients \ gone, owner |-> NoClient, forwarded |-> FALSE]
        /\ Asked(cat.forwarded, FALSE)
    BY <1>2 DEF CatLoses
  <2>2. /\ Reachable(arb') /\ toTci' \in Nat /\ toTci' >= toTci
        /\ arb.owner = "TciClient" /\ arb'.owner # "TciClient" => toTci' > 0
        /\ ~link /\ arb.owner = "None" => arb'.owner = "None"
        /\ arb'.owner # "CatClient"
    BY <2>1, CatAsks DEF IInv, TypeOK
  <2>3. TypeOK' /\ FreeOffline' /\ CatHolderIsAlive'
    BY <1>1, <2>1, <2>2 DEF IInv, TypeOK, Reachable, FreeOffline, CatHolderIsAlive
  <2>4. QED
    BY <1>1, <2>2, <2>3, ClaimKept DEF IInv
<1>3. CASE cat.owner \notin gone
  <2>1. /\ cat' \in [clients : SUBSET CatClients, owner : CatClients \cup {NoClient}, forwarded : BOOLEAN]
        /\ cat'.clients = cat.clients \ gone /\ cat'.owner = cat.owner
        /\ cat'.forwarded = cat.forwarded /\ UNCHANGED <<arb, toTci>>
    BY <1>3 DEF CatLoses, IInv, TypeOK
  <2>2. TypeOK' /\ FreeOffline' /\ CatHolderIsAlive'
    BY <1>1, <1>3, <2>1 DEF IInv, TypeOK, FreeOffline, CatHolderIsAlive
  <2>3. QED
    BY <1>1, <2>1, <2>2, ClaimKept DEF IInv, TypeOK
<1>4. QED
  BY <1>2, <1>3

LEMMA CatStepKeeps == ASSUME IInv, CatStep PROVE IInv'
<1>1. ASSUME NEW c \in CatClients, CatConnects(c)
      PROVE  IInv'
  <2>1. /\ cat' \in [clients : SUBSET CatClients, owner : CatClients \cup {NoClient}, forwarded : BOOLEAN]
        /\ cat'.clients = cat.clients \cup {c} /\ cat'.owner = cat.owner
        /\ cat'.forwarded = cat.forwarded
        /\ UNCHANGED <<arb, link, lost, tci, toMain, toTci>>
    BY <1>1 DEF CatConnects, CatOnly, IInv, TypeOK
  <2>2. TypeOK' /\ FreeOffline' /\ CatHolderIsAlive'
    BY <2>1 DEF IInv, TypeOK, FreeOffline, CatHolderIsAlive
  <2>3. QED
    BY <2>1, <2>2, ClaimKept DEF IInv, TypeOK
<1>2. ASSUME NEW c \in CatClients, CatDisconnects(c)
      PROVE  IInv'
  BY <1>2, CatLosesKeeps DEF CatDisconnects
<1>3. CASE CatServerStops
  BY <1>3, CatLosesKeeps DEF CatServerStops
<1>4. QED
  BY <1>1, <1>2, <1>3, CatCommandKeeps DEF CatStep

-----------------------------------------------------------------------------
(* The TCI server, and releaseLocalPtt() arriving there.                    *)

Commands == {"Key", "Unkey"}
USE DEF Commands

\* What is posted is the last of the queue; what is taken is its first, and the last stays the last.
LEMMA Posted ==
  ASSUME NEW S, NEW q \in Seq(S), NEW b \in S
  PROVE  /\ Append(q, b) \in Seq(S) /\ Append(q, b) # <<>>
         /\ Append(q, b)[Len(Append(q, b))] = b
<1>1. Len(q) \in Nat
  OBVIOUS
<1>2. QED
  BY <1>1, AppendProperties

LEMMA Taken ==
  ASSUME NEW S, NEW q \in Seq(S), q # <<>>
  PROVE  /\ Tail(q) \in Seq(S) /\ Head(q) \in S
         /\ Tail(q) # <<>> => Tail(q)[Len(Tail(q))] = q[Len(q)]
         /\ Tail(q) = <<>> => Head(q) = q[Len(q)]
<1>1. /\ Head(q) \in S /\ Tail(q) \in Seq(S) /\ Len(Tail(q)) = Len(q) - 1
      /\ \A i \in 1..Len(Tail(q)) : Tail(q)[i] = q[i + 1]
  BY HeadTailProperties
<1>2. Len(q) \in Nat /\ Len(Tail(q)) \in Nat /\ Head(q) = q[1]
  BY <1>1
<1>3. ASSUME Tail(q) # <<>>
      PROVE  Tail(q)[Len(Tail(q))] = q[Len(q)]
  <2>1. Len(Tail(q)) > 0
    BY <1>1, <1>3, EmptySeq
  <2>2. QED
    BY <1>1, <1>2, <2>1
<1>4. ASSUME Tail(q) = <<>>
      PROVE  Head(q) = q[Len(q)]
  BY <1>1, <1>2, <1>4
<1>5. QED
  BY <1>1, <1>3, <1>4

\* A step of the TCI thread touches its own record and what it posts: the claim has to stand after it.
LEMMA TciMoveKeeps ==
  ASSUME IInv, UNCHANGED <<arb, link, lost, cat>>, toTci' \in Nat, toMain' \in Seq(Commands),
         tci' \in [clients : SUBSET TciClients, owner : TciClients \cup {NoClient}],
         tci'.owner \in tci'.clients \cup {NoClient},
         ClaimStands'
  PROVE  IInv'
BY DEF IInv, TypeOK, FreeOffline, CatHolderIsAlive

LEMMA TciLosesKeeps ==
  ASSUME IInv, NEW gone \in SUBSET tci.clients, TciLoses(gone), TciOnly, UNCHANGED toTci
  PROVE  IInv'
<1>1. /\ tci' = [clients |-> tci.clients \ gone,
                 owner |-> IF tci.owner \in gone THEN NoClient ELSE tci.owner]
      /\ UNCHANGED <<arb, link, lost, cat, toTci>>
      /\ toMain \in Seq(Commands)
  BY DEF TciLoses, TciOnly, IInv, TypeOK
<1>2. toMain' \in Seq(Commands)
  BY <1>1, Posted DEF TciLoses
<1>3. /\ tci' \in [clients : SUBSET TciClients, owner : TciClients \cup {NoClient}]
      /\ tci'.owner \in tci'.clients \cup {NoClient}
  BY <1>1 DEF IInv, TypeOK
<1>4. tci'.owner # NoClient => tci.owner = tci'.owner /\ toMain' = toMain
  BY <1>1 DEF TciLoses
<1>5. ClaimStands'
  BY <1>1, <1>4 DEF IInv, ClaimStands, Quiet
<1>6. QED
  BY <1>1, <1>2, <1>3, <1>5, TciMoveKeeps DEF IInv, TypeOK

LEMMA TciStepKeeps == ASSUME IInv, TciStep \/ ReleaseLocalPtt PROVE IInv'
<1> DEFINE Tcis == [clients : SUBSET TciClients, owner : TciClients \cup {NoClient}]
<1>1. toMain \in Seq(Commands) /\ toTci \in Nat /\ tci \in Tcis /\ tci.owner \in tci.clients \cup {NoClient}
  BY DEF IInv, TypeOK
<1>2. ASSUME NEW c \in TciClients, TciConnects(c)
      PROVE  IInv'
  <2>1. /\ tci' = [tci EXCEPT !.clients = @ \cup {c}]
        /\ UNCHANGED <<arb, link, lost, cat, toMain, toTci>>
    BY <1>2 DEF TciConnects, TciOnly
  <2>2. tci' \in Tcis /\ tci'.owner = tci.owner /\ tci'.clients = tci.clients \cup {c}
    BY <1>1, <2>1
  <2>3. ClaimStands'
    BY <2>1, <2>2 DEF IInv, ClaimStands, Quiet
  <2>4. QED
    BY <1>1, <2>1, <2>2, <2>3, TciMoveKeeps
<1>3. ASSUME NEW c \in TciClients, TciKeys(c)
      PROVE  IInv'
  <2>1. /\ tci' = [tci EXCEPT !.owner = c] /\ c \in tci.clients
        /\ toMain' = Append(toMain, "Key")
        /\ UNCHANGED <<arb, link, lost, cat, toTci>>
    BY <1>3 DEF TciKeys, TciOnly
  <2>2. tci' \in Tcis /\ tci'.owner \in tci'.clients
    BY <1>1, <2>1
  <2>3. toMain' \in Seq(Commands) /\ toMain' # <<>> /\ toMain'[Len(toMain')] = "Key"
    BY <1>1, <2>1, Posted
  <2>4. ClaimStands'
    BY <2>3 DEF ClaimStands, Quiet
  <2>5. QED
    BY <1>1, <2>1, <2>2, <2>3, <2>4, TciMoveKeeps
<1>4. ASSUME NEW c \in TciClients, TciKeyDropsClient(c) \/ TciUnkeys(c)
      PROVE  IInv'
  <2>1. /\ tci' \in Tcis /\ tci'.owner = NoClient
        /\ toMain' = Append(toMain, "Unkey")
        /\ UNCHANGED <<arb, link, lost, cat, toTci>>
    BY <1>1, <1>4 DEF TciKeyDropsClient, TciUnkeys, TciOnly
  <2>2. toMain' \in Seq(Commands)
    BY <1>1, <2>1, Posted
  <2>3. ClaimStands'
    BY <2>1 DEF ClaimStands
  <2>4. QED
    BY <1>1, <2>1, <2>2, <2>3, TciMoveKeeps
<1>5. ASSUME NEW c \in TciClients, TciDisconnects(c)
      PROVE  IInv'
  BY <1>5, TciLosesKeeps DEF TciDisconnects
<1>6. CASE TciServerStops
  BY <1>6, TciLosesKeeps DEF TciServerStops
<1>7. CASE ReleaseLocalPtt
  <2>1. /\ tci' = [tci EXCEPT !.owner = NoClient] /\ toTci' \in Nat
        /\ UNCHANGED <<arb, link, lost, cat, toMain>>
    BY <1>1, <1>7 DEF ReleaseLocalPtt, TciOnly
  <2>2. tci' \in Tcis /\ tci'.owner = NoClient
    BY <1>1, <2>1
  <2>3. ClaimStands'
    BY <2>2 DEF ClaimStands
  <2>4. QED
    BY <1>1, <2>1, <2>2, <2>3, TciMoveKeeps
<1>8. QED
  BY <1>2, <1>3, <1>4, <1>5, <1>6, <1>7 DEF TciStep

-----------------------------------------------------------------------------
(* TciController.                                                           *)

\* A step of the main thread that leaves the servers and the link alone.
LEMMA ArbiterMoveKeeps ==
  ASSUME IInv, UNCHANGED <<link, cat, tci>>, Reachable(arb'), toTci' \in Nat,
         toMain' \in Seq(Commands), lost' \in BOOLEAN, FreeOffline', ClaimStands',
         arb'.owner = "CatClient" =>
           arb.owner = "CatClient" /\ arb'.route = arb.route /\ (~lost' => ~lost)
  PROVE  IInv'
BY DEF IInv, TypeOK, Reachable, CatHolderIsAlive

\* The answer to the last thing the server asked for decides whether its claim stands.
LEMMA OnPttRequestedKeeps ==
  ASSUME IInv, OnPttRequested
  PROVE  IInv' /\ (IsLocal(arb.owner) => arb' = arb)
<1> DEFINE how == "StreamedFromHere"
<1>1. /\ toMain \in Seq(Commands) /\ toMain # <<>> /\ toMain' = Tail(toMain)
      /\ UNCHANGED <<link, lost, cat, tci>>
      /\ arb \in State /\ Reachable(arb) /\ toTci \in Nat
      /\ "TciClient" \in Producer /\ "TciClient" \in Owner /\ how \in KeyingRoute /\ how \in Route
  BY DEF OnPttRequested, MainOnly, IInv, TypeOK, Producer, Owner, KeyingRoute, Route
<1>2. /\ toMain' \in Seq(Commands) /\ Head(toMain) \in Commands
      /\ toMain' # <<>> => toMain'[Len(toMain')] = toMain[Len(toMain)]
      /\ toMain' = <<>> => Head(toMain) = toMain[Len(toMain)]
  BY <1>1, Taken
<1>3. /\ Reachable(arb') /\ toTci' \in Nat /\ toTci' >= toTci
      /\ arb'.owner = "CatClient" => arb.owner = "CatClient" /\ arb'.route = arb.route
      /\ ~link /\ arb.owner = "None" => arb'.owner = "None"
      /\ IsLocal(arb.owner) => arb' = arb
      /\ Head(toMain) = "Key" => toTci' > 0 \/ arb'.owner = "TciClient"
  <2>1. CASE Head(toMain) = "Key" /\ Refused("TciClient")
    <3>1. arb' = arb /\ toTci' = toTci + 1
      BY <2>1 DEF OnPttRequested
    <3>2. QED
      BY <1>1, <3>1
  <2>2. CASE Head(toMain) = "Key" /\ ~Refused("TciClient")
    <3>1. Apply(Engage(arb, "TciClient", how), TRUE)
      BY <2>2 DEF OnPttRequested
    <3>2. Decision(arb, Engage(arb, "TciClient", how))
      BY <1>1 DEF Decision, Request
    <3>3. /\ Reachable(arb') /\ toTci' \in Nat /\ toTci' >= toTci
          /\ arb' = Engage(arb, "TciClient", how).s
      BY <3>1, <3>2, ApplyTells
    <3>4. MayEngage(arb, "TciClient") /\ link
      BY <2>2 DEF Refused
    <3>5. arb'.owner = "TciClient"
      BY <1>1, <3>3, <3>4, EngageHolds
    <3>6. QED
      BY <2>2, <3>3, <3>4, <3>5 DEF MayEngage, IsLocal
  <2>3. CASE Head(toMain) # "Key"
    <3>1. Apply(Release(arb, "TciClient"), TRUE)
      BY <2>3 DEF OnPttRequested
    <3>2. Decision(arb, Release(arb, "TciClient"))
      BY <1>1 DEF Decision, Request
    <3>3. /\ Reachable(arb') /\ toTci' \in Nat /\ toTci' >= toTci
          /\ arb' = Release(arb, "TciClient").s
      BY <3>1, <3>2, ApplyTells
    <3>4. QED
      BY <1>1, <2>3, <3>3, ReleaseIsOwn DEF IsLocal
  <2>4. QED
    BY <2>1, <2>2, <2>3
<1>4. FreeOffline'
  BY <1>1, <1>3 DEF IInv, FreeOffline
<1>5. ClaimStands'
  BY <1>1, <1>2, <1>3 DEF IInv, ClaimStands, Quiet
<1>6. QED
  BY <1>1, <1>2, <1>3, <1>4, <1>5, ArbiterMoveKeeps DEF IInv, TypeOK

-----------------------------------------------------------------------------
(* The operator, the radio and the link.                                    *)

\* What the main thread decides for itself, as a decision of the arbiter.
LEMMA OthersKeep ==
  ASSUME IInv, NEW r, Decision(arb, r), NEW driving \in BOOLEAN, Apply(r, driving),
         UNCHANGED <<link, lost, cat, tci, toMain>>,
         link \/ r.s.owner = "None" \/ r.s = arb,
         r.s.owner = "CatClient" => arb.owner = "CatClient" /\ r.s.route = arb.route
  PROVE  IInv'
<1>1. /\ Reachable(arb') /\ arb' = r.s /\ toTci' \in Nat /\ toTci' >= toTci
      /\ arb.owner = "TciClient" /\ arb'.owner # "TciClient" => toTci' > 0
  BY ApplyTells
<1>2. FreeOffline'
  BY <1>1 DEF IInv, FreeOffline
<1>3. ClaimStands'
  BY <1>1, ClaimKept
<1>4. QED
  BY <1>1, <1>2, <1>3, ArbiterMoveKeeps DEF IInv, TypeOK

LEMMA OperatorStepKeeps == ASSUME IInv, OperatorStep PROVE IInv'
<1>1. /\ arb \in State /\ "PttButton" \in Producer /\ "PttButton" \in Owner /\ "PttButton" # "None"
      /\ "StreamedFromHere" \in KeyingRoute /\ "StreamedFromHere" \in Route
  BY DEF IInv, TypeOK, Producer, Owner, KeyingRoute, Route
<1>2. CASE OperatorKeys
  <2>1. /\ link /\ MayEngage(arb, "PttButton")
        /\ Apply(Engage(arb, "PttButton", "StreamedFromHere"), FALSE)
        /\ UNCHANGED <<link, lost, cat, tci, toMain>>
    <3>1. Others(Engage(arb, "PttButton", "StreamedFromHere")) /\ UNCHANGED <<link, lost>>
      BY <1>2 DEF OperatorKeys
    <3>2. link /\ MayEngage(arb, "PttButton")
      BY <1>2 DEF OperatorKeys, Refused, MayEngage
    <3>3. Apply(Engage(arb, "PttButton", "StreamedFromHere"), FALSE)
      BY <3>1, Zenon DEF Others
    <3>4. UNCHANGED <<link, lost, cat, tci, toMain>>
      BY <3>1 DEF Others
    <3>5. QED
      BY <3>2, <3>3, <3>4, Zenon
  <2>2. /\ Decision(arb, Engage(arb, "PttButton", "StreamedFromHere"))
        /\ Engage(arb, "PttButton", "StreamedFromHere").s.owner = "PttButton"
    BY <1>1, <2>1, EngageHolds DEF Decision, Request
  <2>3. QED
    BY <2>1, <2>2, OthersKeep
<1>3. CASE OperatorLetsGo
  <2>1. /\ arb.owner = "PttButton" /\ Apply(Release(arb, "PttButton"), FALSE)
        /\ UNCHANGED <<link, lost, cat, tci, toMain>>
    BY <1>3 DEF OperatorLetsGo, Others
  <2>2. Decision(arb, Release(arb, "PttButton")) /\ Release(arb, "PttButton").s.owner = "None"
    BY <1>1, <2>1, ReleaseIsOwn DEF Decision, Request
  <2>3. QED
    BY <2>1, <2>2, OthersKeep
<1>4. CASE OperatorStops
  <2>1. Apply(OperatorStop(arb), FALSE) /\ UNCHANGED <<link, lost, cat, tci, toMain>>
    BY <1>4 DEF OperatorStops, Others
  <2>2. Decision(arb, OperatorStop(arb)) /\ OperatorStop(arb).s.owner = "None"
    BY <1>1, FreeingFrees DEF Decision, Request
  <2>3. QED
    BY <2>1, <2>2, OthersKeep
<1>5. QED
  BY <1>2, <1>3, <1>4 DEF OperatorStep

LEMMA TciAudioOffKeeps == ASSUME IInv, TciAudioOff PROVE IInv'
<1>1. /\ arb.owner = "TciClient" /\ Apply(Release(arb, "TciClient"), TRUE)
      /\ UNCHANGED <<link, lost, cat, tci, toMain>>
      /\ arb \in State /\ "TciClient" \in Producer /\ "TciClient" \in Owner
  BY DEF TciAudioOff, MainOnly, IInv, TypeOK, Producer, Owner
<1>2. Decision(arb, Release(arb, "TciClient")) /\ Release(arb, "TciClient").s.owner = "None"
  BY <1>1, ReleaseIsOwn DEF Decision, Request
<1>3. QED
  BY <1>1, <1>2, OthersKeep

LEMMA RadioTurnsKeeps ==
  ASSUME IInv, NEW tx \in BOOLEAN, RadioTurns(tx)
  PROVE  IInv'
<1>1. /\ link /\ arb \in State /\ Apply(RadioReports(arb, tx), FALSE)
      /\ UNCHANGED <<link, lost, cat, tci, toMain>>
  BY DEF RadioTurns, Others, IInv, TypeOK
<1>2. Decision(arb, RadioReports(arb, tx))
  BY DEF Decision, Request
<1>3. QED
  BY <1>1, <1>2, OthersKeep, RadioGivesNobody

\* The link comes up over a free transmitter, or with a loss still to be heard.
LEMMA LinkMovesKeep == ASSUME IInv, LinkUp \/ LinkLost PROVE IInv'
<1>1. TypeOK' /\ Reachable(arb') /\ FreeOffline' /\ CatHolderIsAlive'
  BY DEF LinkUp, LinkLost, IInv, TypeOK, FreeOffline, CatHolderIsAlive, Reachable
<1>2. ClaimStands'
  BY DEF LinkUp, LinkLost, IInv, ClaimStands, Quiet
<1>3. QED
  BY <1>1, <1>2 DEF IInv

\* Hearing the loss frees the transmitter and takes every claim back.
LEMMA HearLostKeeps == ASSUME IInv, HearLost PROVE IInv'
<1> DEFINE r == ReleaseAll(arb)
           a == Count(GateAnnounced(r.e))
           b == Count(TciLosesIt(r.s))
<1>1. /\ lost' = FALSE /\ arb' = r.s /\ toTci' = toTci + a + b + 1
      /\ UNCHANGED <<link, cat, tci, toMain>>
  BY DEF HearLost
<1>2. a \in {0, 1} /\ b \in {0, 1}
  BY DEF Count
<1> HIDE DEF a, b
<1>3. Reachable(r.s) /\ r.s.owner = "None"
  <2>1. Decision(arb, r)
    BY DEF Decision, Request
  <2>2. QED
    BY <2>1, DecisionTyped, FreeingFrees DEF IInv, TypeOK
<1>4. toTci' \in Nat /\ toTci' > 0
  BY <1>1, <1>2 DEF IInv, TypeOK
<1>5. ClaimStands'
  BY <1>1, <1>4 DEF IInv, ClaimStands, Quiet
<1>6. FreeOffline'
  BY <1>1, <1>3 DEF FreeOffline
<1>7. QED
  BY <1>1, <1>3, <1>4, <1>5, <1>6, ArbiterMoveKeeps DEF IInv, TypeOK

-----------------------------------------------------------------------------
(* The theorems.                                                            *)

LEMMA InitIInv == Init => IInv
<1> SUFFICES ASSUME Init PROVE IInv
  OBVIOUS
<1>1. arb = Idle /\ Idle.owner = "None" /\ Reachable(Idle) /\ Idle \in State
  BY DEF Init, Idle, Reachable, Paired, State, Owner, Route
<1>2. TypeOK
  <2>1. /\ cat \in [clients : SUBSET CatClients, owner : CatClients \cup {NoClient}, forwarded : BOOLEAN]
        /\ cat.owner = NoClient
    BY DEF Init
  <2>2. tci \in [clients : SUBSET TciClients, owner : TciClients \cup {NoClient}] /\ tci.owner = NoClient
    BY DEF Init
  <2>3. toMain \in Seq(Commands)
    BY EmptySeq DEF Init
  <2>4. QED
    BY <1>1, <2>1, <2>2, <2>3 DEF Init, TypeOK
<1>3. FreeOffline /\ CatHolderIsAlive /\ ClaimStands
  BY <1>1 DEF Init, FreeOffline, CatHolderIsAlive, ClaimStands
<1>4. QED
  BY <1>1, <1>2, <1>3 DEF Init, IInv

LEMMA NextIInv == IInv /\ [Next]_vars => IInv'
<1> SUFFICES ASSUME IInv, [Next]_vars PROVE IInv'
  OBVIOUS
<1>1. CASE UNCHANGED vars
  BY <1>1 DEF vars, IInv, TypeOK, Reachable, FreeOffline, CatHolderIsAlive, ClaimStands, Quiet
<1>2. ASSUME NEW tx \in BOOLEAN, RadioTurns(tx)
      PROVE  IInv'
  BY <1>2, RadioTurnsKeeps
<1>3. QED
  BY <1>1, <1>2, CatStepKeeps, TciStepKeeps, OnPttRequestedKeeps, TciAudioOffKeeps,
     OperatorStepKeeps, LinkMovesKeep, HearLostKeeps DEF Next

\* The inductive invariant holds in every state of the two servers and the arbiter.
THEOREM Invariant == Spec => []IInv
BY InitIInv, NextIInv, PTL DEF Spec

\* The shape of every record, and a recorded owner of a server is one of its connected clients
\* (catserver.cpp and tciserver.cpp clear m_pttOwner wherever they forget a client).
THEOREM TypeCorrect == Spec => []TypeOK
<1>1. IInv => TypeOK
  BY DEF IInv
<1>2. QED
  BY <1>1, Invariant, PTL

\* For any number of CAT clients: a transmission held for one has a connected client whose departure
\* ends it, by the route it was keyed by (catserver.cpp, releasePttIfOwner).
THEOREM CatHoldIsAlive == Spec => []CatHolderIsAlive
<1>1. IInv => CatHolderIsAlive
  BY DEF IInv
<1>2. QED
  BY <1>1, Invariant, PTL

\* For any number of TCI clients and any bound on what is in flight between the two threads: once
\* nothing is, a server that believes its client is transmitting is right (tcicontroller.cpp,
\* onPttRequested and releaseClientPtt).
THEOREM TciIsTold == Spec => []TciServerIsTold
<1>1. IInv => TciServerIsTold
  BY DEF IInv, ClaimStands, TciServerIsTold
<1>2. QED
  BY <1>1, Invariant, PTL

\* No client program, connected or leaving, unkeys the operator (transmitowner.h, release: only the
\* owner's own request is honoured).
THEOREM OperatorKeepsIt == Spec => OperatorIsNotUnkeyed
<1>1. ASSUME IInv, CatStep, IsLocal(arb.owner) PROVE arb' = arb
  <2>1. ASSUME NEW c \in CatClients, CatConnects(c) PROVE arb' = arb
    BY <2>1 DEF CatConnects
  <2>2. ASSUME NEW c \in CatClients, NEW key \in BOOLEAN, NEW forward \in BOOLEAN,
               CatCommand(c, key, forward)
        PROVE  arb' = arb
    BY <1>1, <2>2, CatAsks DEF CatCommand
  <2>3. ASSUME NEW gone, CatLoses(gone) PROVE arb' = arb
    <3>1. cat.forwarded \in BOOLEAN
      BY <1>1 DEF IInv, TypeOK
    <3>2. QED
      BY <1>1, <2>3, <3>1, CatAsks DEF CatLoses
  <2>4. QED
    BY <1>1, <2>1, <2>2, <2>3 DEF CatStep, CatDisconnects, CatServerStops
<1>2. TciStep \/ ReleaseLocalPtt => arb' = arb
  BY DEF TciStep, TciConnects, TciKeys, TciKeyDropsClient, TciUnkeys, TciDisconnects, TciServerStops,
         ReleaseLocalPtt, TciOnly
<1>3. IInv /\ [Next]_vars
        => [CatStep \/ TciStep \/ OnPttRequested \/ ReleaseLocalPtt
              => (IsLocal(arb.owner) => arb' = arb)]_vars
  BY <1>1, <1>2, OnPttRequestedKeeps
<1>4. QED
  BY <1>3, Invariant, PTL DEF Spec, OperatorIsNotUnkeyed
=============================================================================

------------------------ MODULE TransmitOwnerProofs ------------------------
(***************************************************************************)
(* What every decision of the arbiter guarantees, for every State it can   *)
(* be asked in.  The proofs about the threads (module TransmitProofs) see  *)
(* the arbiter through the results at the end of this module.              *)
(***************************************************************************)
EXTENDS TransmitOwner, TLAPS

Producer == Owner \ {"None", "Radio"}

KeyingRoute == Route \ {"None", "Observed"}

\* A State the arbiter can be in: nothing is confirmed that nobody holds.
Reachable(s) == s \in State /\ Paired(s) /\ (s.radioConfirmed => s.owner # "None")

\* r is what the arbiter answers in s to one of the program's own requests.
Request(s, r) ==
  \/ \E who \in Producer, how \in KeyingRoute : r = Engage(s, who, how)
  \/ \E who \in Owner : r = Release(s, who)
  \/ r = ReleaseAll(s)
  \/ r = OperatorStop(s)

\* ... or to a report of the radio.
Decision(s, r) == Request(s, r) \/ r = RadioReports(s, TRUE) \/ r = RadioReports(s, FALSE)

\* The transmitter passes from hand to hand only as it may.
LawfulStep(from, to) ==
  \/ to = from
  \/ to = "None"
  \/ from = "None"
  \/ IsLocal(to) /\ ~IsLocal(from)

\* A decision leads to a State the arbiter can be in, lawfully, and says truly whether anybody
\* transmits; a confirmation is never older than the transmission.
Sound(s, r) ==
  /\ Reachable(r.s)
  /\ r.e \in Effects
  /\ r.e.transmitting = (r.s.owner # "None")
  /\ LawfulStep(s.owner, r.s.owner)

\* The effects are exactly what takes the radio and the gate from the old route to the new one.
Balanced(s, r) ==
  /\ r.e.setGate = (NeedsGate(s.route) # NeedsGate(r.s.route))
  /\ r.e.gateActive = (~NeedsGate(s.route) /\ NeedsGate(r.s.route))
  /\ r.e.sendTx = (~KeyedByCat(s.route) /\ KeyedByCat(r.s.route))
  /\ KeyedByCat(s.route) /\ ~KeyedByCat(r.s.route) => r.e.sendRx \/ r.e.abortCw
  /\ ~ (r.e.sendTx /\ (r.e.sendRx \/ r.e.abortCw))

-----------------------------------------------------------------------------
LEMMA RoutePartition == \A who \in Owner, how \in Route :
    /\ NeedsGate(how) \in BOOLEAN /\ KeyedByCat(how) \in BOOLEAN
    /\ SourceFor(who) \in AudioSource
BY DEF NeedsGate, KeyedByCat, SourceFor, AudioSource

\* The comparison of old and new requirements, on which every decision that moves anything rests.
LEMMA TransitionSound ==
  ASSUME NEW s, Reachable(s), NEW who \in Owner, NEW how \in Route,
         Paired([owner |-> who, route |-> how]), LawfulStep(s.owner, who)
  PROVE  Sound(s, Transition(s, who, how)) /\ Balanced(s, Transition(s, who, how))
<1> DEFINE r == Transition(s, who, how)
<1>1. r.s = [owner |-> who, route |-> how,
             radioConfirmed |-> s.radioConfirmed /\ SameEpisode(s, who, how)]
  BY DEF Transition
<1>2. r.e \in Effects
  <2> DEFINE gateWas == NeedsGate(s.route)
             gateNow == NeedsGate(how)
             moved == gateNow /\ (~gateWas \/ SourceFor(s.owner) # SourceFor(who))
             tx == KeyedByCat(how) /\ ~KeyedByCat(s.route)
             rx == KeyedByCat(s.route) /\ ~KeyedByCat(how)
             src == IF moved THEN SourceFor(who) ELSE "Microphone"
  <2>1. r.e = [refused |-> FALSE, ignored |-> FALSE, sendTx |-> tx, sendRx |-> rx,
               abortCw |-> FALSE, setGate |-> gateWas # gateNow, gateActive |-> gateNow /\ ~gateWas,
               setSource |-> moved \/ (gateWas /\ ~gateNow), source |-> src,
               transmitting |-> who # "None"]
    BY DEF Transition, NoEffects
  <2>2. src \in AudioSource
    BY DEF SourceFor, AudioSource
  <2>3. /\ tx \in BOOLEAN /\ rx \in BOOLEAN
        /\ (gateWas # gateNow) \in BOOLEAN /\ (gateNow /\ ~gateWas) \in BOOLEAN
        /\ (moved \/ (gateWas /\ ~gateNow)) \in BOOLEAN /\ (who # "None") \in BOOLEAN
    OBVIOUS
  <2> HIDE DEF src, tx, rx, gateWas, gateNow, moved, r
  <2>4. QED
    BY <2>1, <2>2, <2>3 DEF Effects
<1>3. Reachable(r.s)
  <2> DEFINE still == s.radioConfirmed /\ SameEpisode(s, who, how)
  <2>1. still \in BOOLEAN /\ (still => who # "None")
    BY DEF SameEpisode
  <2>2. r.s = [owner |-> who, route |-> how, radioConfirmed |-> still]
    BY <1>1
  <2> HIDE DEF still, r
  <2>3. r.s \in State
    BY <2>1, <2>2 DEF State
  <2>4. Paired(r.s)
    BY <2>2 DEF Paired
  <2>5. r.s.radioConfirmed => r.s.owner # "None"
    BY <2>1, <2>2
  <2>6. QED
    BY <2>3, <2>4, <2>5 DEF Reachable
<1>4. r.e.transmitting = (r.s.owner # "None")
  BY <1>1 DEF Transition, NoEffects
<1>5. Balanced(s, r)
  BY <1>1 DEF Transition, NoEffects, Balanced, NeedsGate, KeyedByCat
<1>6. QED
  BY <1>1, <1>2, <1>3, <1>4, <1>5 DEF Sound

\* Leaving things as they are is a sound decision.
LEMMA IgnoreSound ==
  ASSUME NEW s, Reachable(s)
  PROVE  Sound(s, Ignore(s)) /\ Balanced(s, Ignore(s))
<1> DEFINE r == Ignore(s)
<1>1. r.s = s /\ r.e.transmitting = (s.owner # "None") /\ r.e.setGate = FALSE /\ r.e.gateActive = FALSE
      /\ r.e.sendTx = FALSE /\ r.e.sendRx = FALSE /\ r.e.abortCw = FALSE
  BY DEF Ignore, NoEffects
<1>2. r.e \in Effects
  BY DEF Ignore, NoEffects, Effects, AudioSource
<1>3. QED
  BY <1>1, <1>2 DEF Sound, Balanced, LawfulStep, NeedsGate, KeyedByCat

\* So is refusing.
LEMMA RefuseSound ==
  ASSUME NEW s, Reachable(s)
  PROVE  Sound(s, Refuse(s)) /\ Balanced(s, Refuse(s))
<1> DEFINE r == Refuse(s)
<1>1. r.s = s /\ r.e.transmitting = (s.owner # "None") /\ r.e.setGate = FALSE /\ r.e.gateActive = FALSE
      /\ r.e.sendTx = FALSE /\ r.e.sendRx = FALSE /\ r.e.abortCw = FALSE
  BY DEF Refuse, NoEffects
<1>2. r.e \in Effects
  BY DEF Refuse, NoEffects, Effects, AudioSource
<1>3. QED
  BY <1>1, <1>2 DEF Sound, Balanced, LawfulStep, NeedsGate, KeyedByCat

\* A granted request, an accepted release, and the radio's word, are each a sound decision.
LEMMA EngageSound ==
  ASSUME NEW s, Reachable(s), NEW who \in Producer, NEW how \in KeyingRoute
  PROVE  Sound(s, Engage(s, who, how)) /\ Balanced(s, Engage(s, who, how))
<1>1. who \in Owner /\ how \in Route /\ Paired([owner |-> who, route |-> how])
  BY DEF Producer, KeyingRoute, Paired
<1>2. CASE MayEngage(s, who)
  <2>1. LawfulStep(s.owner, who)
    BY <1>2 DEF MayEngage, LawfulStep
  <2>2. Engage(s, who, how) = Transition(s, who, how)
    BY <1>2 DEF Engage
  <2>3. QED
    BY <1>1, <2>1, <2>2, TransitionSound
<1>3. CASE ~MayEngage(s, who)
  BY <1>3, RefuseSound DEF Engage
<1>4. QED
  BY <1>2, <1>3

LEMMA FreeingSound ==
  ASSUME NEW s, Reachable(s)
  PROVE  LET r == Transition(s, "None", "None") IN Sound(s, r) /\ Balanced(s, r)
<1>1. "None" \in Owner /\ "None" \in Route /\ Paired([owner |-> "None", route |-> "None"])
  BY DEF Owner, Route, Paired
<1>2. LawfulStep(s.owner, "None")
  BY DEF LawfulStep
<1>3. QED
  BY <1>1, <1>2, TransitionSound

LEMMA ReleaseSound ==
  ASSUME NEW s, Reachable(s), NEW who \in Owner
  PROVE  /\ Sound(s, Release(s, who)) /\ Balanced(s, Release(s, who))
         /\ Sound(s, ReleaseAll(s)) /\ Balanced(s, ReleaseAll(s))
BY FreeingSound, IgnoreSound DEF Release, ReleaseAll

\* Esc frees the transmitter, and the abort carries the RX; that freeing it would have sent.
LEMMA OperatorStopSound ==
  ASSUME NEW s, Reachable(s)
  PROVE  Sound(s, OperatorStop(s)) /\ Balanced(s, OperatorStop(s))
<1> DEFINE idle == [s |-> s, e |-> NoEffects]
           freed == IF s.owner = "None" THEN idle ELSE Transition(s, "None", "None")
           r == OperatorStop(s)
<1>1. Sound(s, freed) /\ Balanced(s, freed)
  <2>1. CASE s.owner = "None"
    <3>1. idle.e \in Effects /\ idle.e.transmitting = FALSE /\ idle.s = s
      BY DEF NoEffects, Effects, AudioSource
    <3>2. idle.e.setGate = FALSE /\ idle.e.gateActive = FALSE /\ idle.e.sendTx = FALSE
          /\ idle.e.sendRx = FALSE /\ idle.e.abortCw = FALSE
      BY DEF NoEffects
    <3>3. QED
      BY <2>1, <3>1, <3>2 DEF Sound, Balanced, LawfulStep, NeedsGate, KeyedByCat
  <2>2. CASE s.owner # "None"
    BY <2>2, FreeingSound
  <2>3. QED
    BY <2>1, <2>2
<1>2. freed.s.owner = "None" /\ freed.s.route = "None"
  BY DEF Transition, Reachable, Paired
<1>3. freed.e \in Effects /\ freed.e.sendTx = FALSE
  BY <1>1, <1>2 DEF Sound, Balanced, KeyedByCat, Effects
<1>4. /\ r.s = freed.s
      /\ r.e = [freed.e EXCEPT !.sendRx = FALSE, !.abortCw = TRUE]
  BY DEF OperatorStop, Transition
<1> HIDE DEF freed, r
<1>5. r.e \in Effects /\ r.e.abortCw = TRUE /\ r.e.sendTx = FALSE
      /\ r.e.transmitting = freed.e.transmitting
      /\ r.e.setGate = freed.e.setGate /\ r.e.gateActive = freed.e.gateActive
  BY <1>3, <1>4 DEF Effects
<1>6. QED
  <2>1. Sound(s, r)
    BY <1>1, <1>4, <1>5 DEF Sound
  <2>2. Balanced(s, r)
    BY <1>1, <1>2, <1>4, <1>5 DEF Balanced, KeyedByCat
  <2>3. QED
    BY <2>1, <2>2 DEF r

\* The radio's word: an echo confirms, a transmission of its own is observed, an RX; ends what it ended.
LEMMA RadioReportsSound ==
  ASSUME NEW s, Reachable(s)
  PROVE  /\ Sound(s, RadioReports(s, TRUE)) /\ Balanced(s, RadioReports(s, TRUE))
         /\ Sound(s, RadioReports(s, FALSE)) /\ Balanced(s, RadioReports(s, FALSE))
<1>1. Sound(s, RadioReports(s, FALSE)) /\ Balanced(s, RadioReports(s, FALSE))
  BY IgnoreSound, FreeingSound DEF RadioReports, RadioReportsRx
<1>2. Sound(s, RadioReports(s, TRUE)) /\ Balanced(s, RadioReports(s, TRUE))
  <2> DEFINE before == IF s.owner # "None" THEN Ignore(s) ELSE Transition(s, "Radio", "Observed")
             r == RadioReports(s, TRUE)
  <2>1. Sound(s, before) /\ Balanced(s, before) /\ before.s.owner # "None"
    <3>1. CASE s.owner # "None"
      BY <3>1, IgnoreSound DEF Ignore
    <3>2. CASE s.owner = "None"
      <4>1. "Radio" \in Owner /\ "Observed" \in Route /\ LawfulStep(s.owner, "Radio")
            /\ Paired([owner |-> "Radio", route |-> "Observed"])
        BY <3>2 DEF Owner, Route, LawfulStep, Paired
      <4>2. Transition(s, "Radio", "Observed").s.owner = "Radio"
        BY DEF Transition
      <4>3. QED
        BY <3>2, <4>1, <4>2, TransitionSound
    <3>3. QED
      BY <3>1, <3>2
  <2>2. r.s = [before.s EXCEPT !.radioConfirmed = TRUE] /\ r.e = before.e
    BY DEF RadioReports, RadioReportsTx, Ignore, Transition
  <2> HIDE DEF before, r
  <2>3. /\ r.s \in State /\ r.s.owner = before.s.owner /\ r.s.route = before.s.route
        /\ r.s.radioConfirmed = TRUE
    BY <2>1, <2>2 DEF Sound, Reachable, State
  <2>4. Sound(s, r)
    BY <2>1, <2>2, <2>3 DEF Sound, Reachable, Paired
  <2>5. Balanced(s, r)
    BY <2>1, <2>2, <2>3 DEF Balanced
  <2>6. QED
    BY <2>4, <2>5 DEF r
<1>3. QED
  BY <1>1, <1>2

\* Every decision of transmitowner.h, in every State: it is sound (the next State is one the arbiter
\* can be in, the holder changes lawfully, "transmitting" is true), and its effects on the gate and on
\* the radio's key are exactly the difference between the old route and the new.  In particular TX;
\* and RX; never go out together (the comment of TransmitController::apply).
THEOREM EveryDecisionSound ==
  ASSUME NEW s, Reachable(s), NEW r, Decision(s, r)
  PROVE  Sound(s, r) /\ Balanced(s, r)
<1>1. CASE \E who \in Producer, how \in KeyingRoute : r = Engage(s, who, how)
  BY <1>1, EngageSound
<1>2. CASE \E who \in Owner : r = Release(s, who)
  BY <1>2, ReleaseSound
<1>3. CASE r = ReleaseAll(s)
  <2>1. "None" \in Owner
    BY DEF Owner
  <2>2. QED
    BY <1>3, <2>1, ReleaseSound
<1>4. CASE r = OperatorStop(s)
  BY <1>4, OperatorStopSound
<1>5. CASE r = RadioReports(s, TRUE) \/ r = RadioReports(s, FALSE)
  BY <1>5, RadioReportsSound
<1>6. QED
  BY <1>1, <1>2, <1>3, <1>4, <1>5 DEF Decision, Request

\* Only the radio's own TX; confirms, and its RX; or the loss of the link takes any confirmation back.
LEMMA ConfirmedByRadioOnly ==
  ASSUME NEW s, Reachable(s)
  PROVE  /\ \A r : Request(s, r) /\ r.s.radioConfirmed => s.radioConfirmed
         /\ ~ RadioReports(s, FALSE).s.radioConfirmed
         /\ ~ ReleaseAll(s).s.radioConfirmed
<1>1. \A who \in Owner, how \in Route : Transition(s, who, how).s.radioConfirmed =>
                                            s.radioConfirmed /\ who # "None"
  BY DEF Transition, SameEpisode
<1>2. Transition(s, "None", "None").s.radioConfirmed = FALSE
  BY DEF Transition, SameEpisode
<1>3. OperatorStop(s).s = IF s.owner = "None" THEN s ELSE Transition(s, "None", "None").s
  BY DEF OperatorStop, Transition
<1>4. ~ RadioReports(s, FALSE).s.radioConfirmed
  BY <1>2 DEF RadioReports, RadioReportsRx, Ignore, Reachable
<1>5. ~ ReleaseAll(s).s.radioConfirmed
  BY <1>2 DEF ReleaseAll, Ignore, Reachable
<1>6. ASSUME NEW who \in Producer, NEW how \in KeyingRoute, Engage(s, who, how).s.radioConfirmed
      PROVE  s.radioConfirmed
  BY <1>1, <1>6 DEF Engage, Refuse, Producer, KeyingRoute
<1>7. ASSUME NEW who \in Owner, Release(s, who).s.radioConfirmed
      PROVE  s.radioConfirmed
  BY <1>2, <1>7 DEF Release, Ignore
<1>8. OperatorStop(s).s.radioConfirmed => s.radioConfirmed
  BY <1>2, <1>3
<1>9. QED
  BY <1>4, <1>5, <1>6, <1>7, <1>8 DEF Request
-----------------------------------------------------------------------------
(* Who is on the air after a decision. *)

\* The effects leave no task behind.
Inert(e) == ~e.sendTx /\ ~e.sendRx /\ ~e.abortCw /\ ~e.setGate /\ ~e.setSource

\* A gate that is to be open after the decision has the new holder's source: named by the decision, or
\* the one there was.
Sourced(s, r) ==
  NeedsGate(r.s.route) =>
    IF r.e.setSource THEN r.e.source = SourceFor(r.s.owner)
                     ELSE NeedsGate(s.route) /\ SourceFor(s.owner) = SourceFor(r.s.owner)

\* A producer that holds the transmitter after a decision was granted it by this one, or held it and
\* nothing is to be done.
LEMMA GrantedOrKept ==
  ASSUME NEW s, Reachable(s), NEW r, Decision(s, r), r.s.owner \in Producer
  PROVE  \/ r.s.owner = s.owner /\ r.s.route = s.route /\ Inert(r.e)
         \/ \E how \in KeyingRoute : MayEngage(s, r.s.owner) /\ r = Transition(s, r.s.owner, how)
<1> DEFINE Kept == r.s.owner = s.owner /\ r.s.route = s.route /\ Inert(r.e)
<1>1. Transition(s, "None", "None").s.owner \notin Producer /\ Transition(s, "Radio", "Observed").s.owner \notin Producer
  BY DEF Transition, Producer
<1>2. ASSUME r = Ignore(s) \/ r = Refuse(s)
      PROVE  Kept
  <2>1. /\ Ignore(s).s = s /\ Ignore(s).e.sendTx = FALSE /\ Ignore(s).e.sendRx = FALSE
        /\ Ignore(s).e.abortCw = FALSE /\ Ignore(s).e.setGate = FALSE /\ Ignore(s).e.setSource = FALSE
    BY DEF Ignore, NoEffects
  <2>2. /\ Refuse(s).s = s /\ Refuse(s).e.sendTx = FALSE /\ Refuse(s).e.sendRx = FALSE
        /\ Refuse(s).e.abortCw = FALSE /\ Refuse(s).e.setGate = FALSE /\ Refuse(s).e.setSource = FALSE
    BY DEF Refuse, NoEffects
  <2>3. QED
    BY <1>2, <2>1, <2>2 DEF Inert
<1>3. ASSUME NEW who \in Producer, NEW how \in KeyingRoute, r = Engage(s, who, how)
      PROVE  Kept \/ (MayEngage(s, r.s.owner) /\ r = Transition(s, r.s.owner, how))
  <2>1. CASE MayEngage(s, who)
    <3>1. r = Transition(s, who, how) /\ r.s.owner = who
      BY <1>3, <2>1 DEF Engage, Transition
    <3>2. QED
      BY <2>1, <3>1
  <2>2. CASE ~MayEngage(s, who)
    BY <1>2, <1>3, <2>2 DEF Engage
  <2>3. QED
    BY <2>1, <2>2
<1>4. CASE (\E who \in Owner : r = Release(s, who)) \/ r = ReleaseAll(s) \/ r = RadioReports(s, FALSE)
  <2>1. r = Ignore(s) \/ r = Transition(s, "None", "None")
    BY <1>4 DEF Release, ReleaseAll, RadioReports, RadioReportsRx
  <2>2. QED
    BY <1>1, <1>2, <2>1
<1>5. CASE r = OperatorStop(s)
  <2>1. r.s.owner = "None"
    BY <1>5 DEF OperatorStop, Transition
  <2>2. QED
    BY <2>1 DEF Producer
<1>6. CASE r = RadioReports(s, TRUE)
  <2>1. CASE s.owner # "None"
    <3>1. r.s = [s EXCEPT !.radioConfirmed = TRUE] /\ r.e = Ignore(s).e
      BY <1>6, <2>1 DEF RadioReports, RadioReportsTx, Ignore
    <3>2. r.s.owner = s.owner /\ r.s.route = s.route
      BY <3>1 DEF Reachable, State
    <3>3. QED
      BY <3>1, <3>2 DEF Ignore, NoEffects, Inert
  <2>2. CASE s.owner = "None"
    <3>1. r.s.owner = "Radio"
      BY <1>6, <2>2 DEF RadioReports, RadioReportsTx, Transition
    <3>2. QED
      BY <3>1 DEF Producer
  <2>3. QED
    BY <2>1, <2>2
<1>7. QED
  BY <1>3, <1>4, <1>5, <1>6 DEF Decision, Request

LEMMA TransitionSourced ==
  ASSUME NEW s, NEW who, NEW how
  PROVE  Sourced(s, Transition(s, who, how))
<1> DEFINE gateWas == NeedsGate(s.route)
           gateNow == NeedsGate(how)
           moved == gateNow /\ (~gateWas \/ SourceFor(s.owner) # SourceFor(who))
           named == moved \/ (gateWas /\ ~gateNow)
           src == IF moved THEN SourceFor(who) ELSE "Microphone"
           r == Transition(s, who, how)
<1>1. r.s.route = how /\ r.s.owner = who
  BY DEF Transition
<1>2. r.e.setSource = named /\ r.e.source = src
  BY DEF Transition, NoEffects
<1>3. r.e.setSource <=> named
  BY <1>2
<1>4. CASE moved
  BY <1>1, <1>2, <1>3, <1>4 DEF Sourced
<1>5. CASE ~moved /\ gateNow
  BY <1>1, <1>2, <1>3, <1>5 DEF Sourced
<1>6. CASE ~gateNow
  BY <1>1, <1>6 DEF Sourced
<1>7. QED
  BY <1>4, <1>5, <1>6

\* Every decision names the source of the gate it leaves open.
LEMMA EveryDecisionSourced ==
  ASSUME NEW s, Reachable(s), NEW r, Decision(s, r)
  PROVE  Sourced(s, r)
<1>1. CASE r.s.owner \in Producer
  <2>1. CASE r.s.owner = s.owner /\ r.s.route = s.route /\ Inert(r.e)
    BY <2>1 DEF Sourced, Inert
  <2>2. ASSUME NEW how \in KeyingRoute, r = Transition(s, r.s.owner, how)
        PROVE  Sourced(s, r)
    BY <2>2, TransitionSourced
  <2>3. QED
    BY <1>1, <2>1, <2>2, GrantedOrKept
<1>2. CASE r.s.owner \notin Producer
  <2>1. r.s.owner \in {"None", "Radio"} /\ Paired(r.s)
    BY <1>2, EveryDecisionSound DEF Sound, Reachable, State, Producer
  <2>2. ~NeedsGate(r.s.route)
    BY <2>1 DEF Paired, NeedsGate
  <2>3. QED
    BY <2>2 DEF Sourced
<1>3. QED
  BY <1>1, <1>2

\* The two decisions that put a new transmission on the air by more than one call.
LEMMA StartEffects ==
  ASSUME NEW s, Reachable(s), s.owner = "None"
  PROVE  LET tci == Transition(s, "TciClient", "StreamedFromHere").e
         IN  /\ tci.setSource /\ tci.gateActive /\ tci.source = "Tci" /\ tci.setGate
             /\ ~tci.sendTx /\ ~tci.sendRx /\ ~tci.abortCw
<1>1. s.route = "None"
  BY DEF Reachable, Paired
<1>2. QED
  BY <1>1 DEF Transition, NoEffects, NeedsGate, KeyedByCat, SourceFor
=============================================================================

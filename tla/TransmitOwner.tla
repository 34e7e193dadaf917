--------------------------- MODULE TransmitOwner ---------------------------
(***************************************************************************)
(* The transmit arbiter of models/transmitowner.h: pure decisions, no      *)
(* state of its own.  A decision takes the arbiter's State and returns a   *)
(* record [s |-> next State, e |-> Effects]; the caller executes the       *)
(* effects (module TransmitControl).                                       *)
(* A definition named Fault_... is a seeded fault: what the definition of  *)
(* that name would be with a plausible bug, for a property to catch.       *)
(***************************************************************************)

Owner == {"None", "PttButton", "Xmit", "CatClient", "TciClient", "Ulanzi", "Radio"}

Route == {"None", "StreamedFromHere", "RadioLocal", "CatKeyedAndStreamed", "Observed"}

AudioSource == {"Microphone", "Tci"}

State == [owner : Owner, route : Route, radioConfirmed : BOOLEAN]

\* The pairing of holder and route that every decision keeps.
Paired(s) == (s.owner = "None" <=> s.route = "None") /\ (s.owner = "Radio" <=> s.route = "Observed")

Idle == [owner |-> "None", route |-> "None", radioConfirmed |-> FALSE]

Effects == [refused : BOOLEAN, ignored : BOOLEAN, sendTx : BOOLEAN, sendRx : BOOLEAN,
            abortCw : BOOLEAN, setGate : BOOLEAN, gateActive : BOOLEAN,
            setSource : BOOLEAN, source : AudioSource, transmitting : BOOLEAN]

\* Every field "do nothing": a no-op decision cannot key anything.
NoEffects == [refused |-> FALSE, ignored |-> FALSE, sendTx |-> FALSE, sendRx |-> FALSE,
              abortCw |-> FALSE, setGate |-> FALSE, gateActive |-> FALSE,
              setSource |-> FALSE, source |-> "Microphone", transmitting |-> FALSE]

-----------------------------------------------------------------------------
(* What a route requires while it is held. *)

NeedsGate(route) == route \in {"StreamedFromHere", "CatKeyedAndStreamed"}

KeyedByCat(route) == route \in {"RadioLocal", "CatKeyedAndStreamed"}

IsLocal(owner) == owner \in {"PttButton", "Xmit", "Ulanzi"}

SourceFor(owner) == IF owner = "TciClient" THEN "Tci" ELSE "Microphone"

\* An episode goes on when the transmitter passes from hand to hand without our unkeying the radio.
SameEpisode(s, who, how) ==
  /\ s.owner # "None"
  /\ who # "None"
  /\ ~ (KeyedByCat(s.route) /\ ~ KeyedByCat(how))

\* The one place where old and new requirements are compared.
Transition(s, who, how) ==
  LET gateWas == NeedsGate(s.route)
      gateNow == NeedsGate(how)
  IN  [s |-> [owner |-> who,
              route |-> how,
              radioConfirmed |-> s.radioConfirmed /\ SameEpisode(s, who, how)],
       e |-> [NoEffects EXCEPT
                !.transmitting = who # "None",
                !.setGate = gateWas # gateNow,
                !.gateActive = gateNow /\ ~gateWas,
                !.sendTx = KeyedByCat(how) /\ ~KeyedByCat(s.route),
                !.sendRx = KeyedByCat(s.route) /\ ~KeyedByCat(how),
                !.setSource = \/ gateNow /\ (~gateWas \/ SourceFor(s.owner) # SourceFor(who))
                              \/ gateWas /\ ~gateNow,
                !.source = IF gateNow /\ (~gateWas \/ SourceFor(s.owner) # SourceFor(who))
                             THEN SourceFor(who) ELSE "Microphone"]]

\* A decision that leaves the State alone.
Refuse(s) == [s |-> s, e |-> [NoEffects EXCEPT !.refused = TRUE, !.transmitting = s.owner # "None"]]

Fault_Ignore(s) == [s |-> s, e |-> [NoEffects EXCEPT !.ignored = TRUE]]

Ignore(s) == [s |-> s, e |-> [NoEffects EXCEPT !.ignored = TRUE, !.transmitting = s.owner # "None"]]

-----------------------------------------------------------------------------
(* The public decisions. *)

Fault_MayEngage(s, who) == s.owner \in {"None", who} \/ IsLocal(who)

\* Free, or already yours, or you are local and the holder is not.
MayEngage(s, who) == s.owner \in {"None", who} \/ (IsLocal(who) /\ ~IsLocal(s.owner))

Engage(s, who, how) == IF MayEngage(s, who) THEN Transition(s, who, how) ELSE Refuse(s)

Fault_Release(s, who) == IF s.owner # "None" THEN Transition(s, "None", "None") ELSE Ignore(s)

Release(s, who) ==
  IF s.owner = who /\ s.owner # "None" THEN Transition(s, "None", "None") ELSE Ignore(s)

Fault_ReleaseAll(s) ==
  [s |-> [s EXCEPT !.owner = "None"], e |-> Transition(s, "None", "None").e]

ReleaseAll(s) == IF s.owner = "None" THEN Ignore(s) ELSE Transition(s, "None", "None")

\* Esc: releases whoever holds it, and always asks for the CW abort (which carries its own RX;).
OperatorStop(s) ==
  LET freed == IF s.owner = "None" THEN [s |-> s, e |-> NoEffects]
                                   ELSE Transition(s, "None", "None")
  IN  [freed EXCEPT !.e.sendRx = FALSE, !.e.abortCw = TRUE]

\* TX; heard from the radio: our echo if somebody holds it, the radio's own transmission if not.
RadioReportsTx(s) ==
  IF s.owner # "None"
    THEN [Ignore(s) EXCEPT !.s.radioConfirmed = TRUE]
    ELSE [Transition(s, "Radio", "Observed") EXCEPT !.s.radioConfirmed = TRUE]

Fault_RadioReportsRx(s) == Ignore(s)

\* RX; heard from the radio: taken as stale until the radio has acknowledged this episode.
RadioReportsRx(s) ==
  IF s.owner = "None" \/ ~s.radioConfirmed THEN Ignore(s) ELSE Transition(s, "None", "None")

RadioReports(s, transmitting) == IF transmitting THEN RadioReportsTx(s) ELSE RadioReportsRx(s)
=============================================================================

-------------------------- MODULE TcpSessionProofs --------------------------
(***************************************************************************)
(* Safety of TcpSession for every choice of its constants.  Each handler   *)
(* of TcpClient is an operator on the client's record, so the induction is *)
(* made of lemmas about the operators - what each keeps of Sound, and of   *)
(* Apart - and the actions only put them together.  What a handler has     *)
(* emitted so far counts as queued: Queue.                                 *)
(***************************************************************************)
EXTENDS TcpSession, SequenceTheorems, TLAPS

-----------------------------------------------------------------------------
(* What a queue of signals tells. *)

NoneOf(q, W) == \A i \in 1 .. Len(q) : q[i] \notin W

\* The last of the W in q is a V.
Ends(q, W, V) == \E i \in 1 .. Len(q) : q[i] \in V /\ \A j \in i + 1 .. Len(q) : q[j] \notin W

Signals == [kind : {"State"}, state : States] \cup [kind : {"Ready", "Error"}] \cup [kind : {"Data"}, own : BOOLEAN]
StateSignals == {m \in Signals : m.kind = "State"}
ReadySignals == {m \in Signals : m.kind = "Ready"}
\* The packets an attempt reads on the socket it opened.
DataSignals == {m \in Signals : m.kind = "Data" /\ m.own}
News == StateSignals \cup ReadySignals
InSession == {StateSignal("Connected")}
OutOfSession == StateSignals \ InSession

\* The main thread will have heard st when it has heard q.
Tells(q, st) == Ends(q, StateSignals, {StateSignal(st)}) \/ (NoneOf(q, StateSignals) /\ main.state = st)

\* The keyer will be ready then.
TellsReady(q) == Ends(q, News, ReadySignals) \/ (NoneOf(q, News) /\ main.ready)

\* A session begins in q before k and after i.
Begins(q, i, k) == \E n \in i + 1 .. k - 1 : q[n] \in InSession

\* Between the end of a session and the next at most one packet is heard; late counts the one that was.
Late(q) ==
  /\ \A i, j, k \in 1 .. Len(q) :
       q[i] \in OutOfSession /\ q[j] \in DataSignals /\ q[k] \in DataSignals /\ i < j /\ j < k => Begins(q, i, k)
  /\ main.state # "Connected" =>
       \A j, k \in 1 .. Len(q) : q[j] \in DataSignals /\ q[k] \in DataSignals /\ j < k => Begins(q, 0, k)
  /\ main.state # "Connected" /\ main.late # 0 =>
       \A k \in 1 .. Len(q) : q[k] \in DataSignals => Begins(q, 0, k)
  /\ main.state = "Connected" => main.late = 0
  /\ main.late \in {0, 1}

\* One more packet may follow.
Fits(q) ==
  /\ \A i \in 1 .. Len(q) : q[i] \in OutOfSession =>
       Begins(q, i, Len(q) + 1) \/ \A j \in i + 1 .. Len(q) : q[j] \notin DataSignals
  /\ main.state # "Connected" =>
       Begins(q, 0, Len(q) + 1) \/ (main.late = 0 /\ NoneOf(q, DataSignals))

-----------------------------------------------------------------------------
(* What holds of the client, inside a handler or between two. *)

Client ==
  [state : States, attempt : Nat, radio : Radios \cup {Nobody}, host : Radios \cup {Nobody},
   answered : BOOLEAN, retries : 0 .. 2, timers : SUBSET Timers, macro : Nat, socket : Sockets,
   tail : Nat, request : Nat, told : Nat, met : Leftovers, out : Seq(Signals)]

Queue(s) == signals \o s.out

Known(s) ==
  /\ s \in Client /\ signals \in Seq(Signals)
  /\ s.socket.secure => s.socket.tls
  /\ s.host = s.radio /\ s.socket.of <= s.attempt
  /\ Tells(Queue(s), s.state)
  /\ TellsReady(Queue(s)) => s.state = "Connected"

\* The phase has its timer (the attempt's own, Due, is apart), its socket and its signals.
Sound(s) ==
  /\ Known(s)
  /\ s.state = "Connected" => TellsReady(Queue(s))
  /\ s.state = "Connected" <=> "Ping" \in s.timers
  /\ s.state = "Authenticating" => "Auth" \in s.timers
  /\ s.state \in {"Authenticating", "Connected"} => s.socket.st = "Connected"
  /\ s.state \in {"Connecting", "Authenticating"} => ~s.answered
  /\ s.socket.st \in {"Connecting", "Connected"} => s.tail \in {0, s.socket.of}

\* A timer is running that ends the attempt.
Due(s) == s.timers \cap {"Connect", "Retry"} # {}

\* The attempt has opened the socket, or not; it has been heard of no failure, or of one.
Own(s) == s.socket.of = s.attempt
Untold(s) == s.met # "Retry" => s.told = 0
ToldAtMostOnce(s) == s.met # "Retry" => s.told \in {0, 1}

\* The socket is of the present attempt, but for one that is closing, and those a leftover retry opens.
Apart(s) ==
  /\ s.socket.st = "Unconnected" => s.socket = Unconnected
  /\ s.socket.st = "Connecting" => ~s.socket.secure
  /\ s.socket.st = "Closing" =>
       s.timers = {} /\ ~Own(s) /\ (s.state # "Disconnected" => s.state = "Connecting" /\ s.met = "Closing")
  /\ s.socket.st \in {"Connecting", "Connected"} => Own(s) \/ s.met = "Retry"
  /\ s.socket.st \in {"Connecting", "Connected"} /\ Own(s) =>
       s.socket.peer = s.radio /\ (s.socket.tls <=> s.radio \in Tls) /\ s.socket.keyed \in {Nobody, s.socket.peer}
  /\ s.state = "Connecting" /\ s.socket.st = "Connected" /\ Own(s) => s.socket.tls /\ ~s.socket.secure
  /\ s.met # "Retry" /\ "Retry" \in s.timers =>
       s.state \in {"Connecting", "Disconnected"} /\ s.socket = Unconnected /\ s.told = 0
  /\ ToldAtMostOnce(s) /\ (s.state # "Disconnected" => Untold(s))
  /\ Late(Queue(s))

\* While a lookup is under way the attempt has no socket of its own and no retry.
Waiting(s, l) ==
  l.attempt = s.attempt /\ s.state = "Connecting" /\ s.met # "Retry" =>
    s.socket.st \in {"Unconnected", "Closing"} /\ "Retry" \notin s.timers

Call ==
  [kind : {"Macro"}, macro : Nat] \cup [kind : {"Connect"}, radio : Radios, request : Nat] \cup [kind : {"Disconnect"}]

\* A macro that is not of a request before n.
NotBefore(macro, n) == macro = 0 \/ macro >= n

\* Each connect call comes behind the macro of its own request, and no call carries one of a request before.
MacrosInOrder ==
  /\ \A i \in 1 .. Len(calls) : calls[i].kind = "Macro" =>
       calls[i].macro <= requests /\ NotBefore(calls[i].macro, tcp.request)
  /\ \A i, j \in 1 .. Len(calls) : i < j /\ calls[i].kind = "Connect" /\ calls[j].kind = "Macro" =>
       NotBefore(calls[j].macro, calls[i].request)
  /\ \A i \in 1 .. Len(calls) : calls[i].kind = "Connect" =>
       /\ calls[i].request <= requests
       /\ IF i = 1 THEN NotBefore(tcp.macro, calls[1].request)
          ELSE calls[i - 1].kind = "Macro" /\ NotBefore(calls[i - 1].macro, calls[i].request)
  /\ NotBefore(tcp.macro, tcp.request)
  /\ tcp.macro <= requests /\ tcp.request <= requests

IInv ==
  /\ Sound(tcp) /\ tcp.out = <<>>
  /\ requests \in Nat /\ calls \in Seq(Call) /\ main \in [state : States, ready : BOOLEAN, late : Nat]
  /\ lookups \subseteq [attempt : Nat, radio : Mdns]
  /\ tcp.state = "Connecting" => Due(tcp) \/ \E l \in lookups : l.attempt = tcp.attempt
  /\ \A l \in lookups : l.attempt <= tcp.attempt /\ (l.attempt = tcp.attempt => l.radio = tcp.radio)
  /\ MacrosInOrder

AttemptsApart == Apart(tcp) /\ \A l \in lookups : Waiting(tcp, l)

-----------------------------------------------------------------------------
(* Queues. *)

LEMMA EmptyEnds ==
  ASSUME NEW W, NEW V
  PROVE  NoneOf(<<>>, W) /\ ~Ends(<<>>, W, V)
BY DEF NoneOf, Ends

LEMMA AppendEnds ==
  ASSUME NEW S, NEW q \in Seq(S), NEW c \in S, NEW W, NEW V \in SUBSET W
  PROVE  /\ NoneOf(Append(q, c), W) <=> NoneOf(q, W) /\ c \notin W
         /\ Ends(Append(q, c), W, V) <=> c \in V \/ (c \notin W /\ Ends(q, W, V))
<1> DEFINE t == Append(q, c)
<1>1. /\ Len(q) \in Nat /\ Len(t) = Len(q) + 1 /\ t[Len(q) + 1] = c
      /\ \A i \in 1 .. Len(q) : t[i] = q[i]
  BY AppendProperties
<1> HIDE DEF t
<1>2. \A i \in 1 .. Len(t) : i \in 1 .. Len(q) \/ i = Len(q) + 1
  BY <1>1
<1>3. NoneOf(t, W) <=> NoneOf(q, W) /\ c \notin W
  BY <1>1, <1>2 DEF NoneOf
<1>4. ASSUME Ends(t, W, V)
      PROVE  c \in V \/ (c \notin W /\ Ends(q, W, V))
  <2>1. PICK i \in 1 .. Len(t) : t[i] \in V /\ \A j \in i + 1 .. Len(t) : t[j] \notin W
    BY <1>4 DEF Ends
  <2>2. CASE i = Len(q) + 1
    BY <1>1, <2>1, <2>2
  <2>3. CASE i \in 1 .. Len(q)
    <3>1. Len(q) + 1 \in i + 1 .. Len(t) /\ \A j \in i + 1 .. Len(q) : j \in i + 1 .. Len(t) /\ j \in 1 .. Len(q)
      BY <1>1, <2>3
    <3>2. c \notin W /\ q[i] \in V /\ \A j \in i + 1 .. Len(q) : q[j] \notin W
      BY <1>1, <2>1, <2>3, <3>1
    <3>3. QED
      BY <2>3, <3>2 DEF Ends
  <2>4. QED
    BY <1>2, <2>2, <2>3
<1>5. ASSUME c \in V
      PROVE  Ends(t, W, V)
  <2>1. Len(q) + 1 \in 1 .. Len(t) /\ (Len(q) + 1) + 1 .. Len(t) = {}
    BY <1>1
  <2>2. QED
    BY <1>1, <1>5, <2>1 DEF Ends
<1>6. ASSUME c \notin W, Ends(q, W, V)
      PROVE  Ends(t, W, V)
  <2>1. PICK i \in 1 .. Len(q) : q[i] \in V /\ \A j \in i + 1 .. Len(q) : q[j] \notin W
    BY <1>6 DEF Ends
  <2>2. i \in 1 .. Len(t) /\ t[i] \in V /\ \A j \in i + 1 .. Len(t) : j \in i + 1 .. Len(q) \/ j = Len(q) + 1
    BY <1>1, <2>1
  <2>3. \A j \in i + 1 .. Len(q) : t[j] = q[j]
    BY <1>1, <2>1
  <2>4. QED
    BY <1>1, <1>6, <2>1, <2>2, <2>3 DEF Ends
<1>7. QED
  BY <1>3, <1>4, <1>5, <1>6 DEF t

LEMMA TailEnds ==
  ASSUME NEW S, NEW q \in Seq(S), q # <<>>, NEW W, NEW V \in SUBSET W
  PROVE  /\ NoneOf(q, W) <=> Head(q) \notin W /\ NoneOf(Tail(q), W)
         /\ Ends(q, W, V) <=> Ends(Tail(q), W, V) \/ (Head(q) \in V /\ NoneOf(Tail(q), W))
<1> DEFINE t == Tail(q)
<1>1. /\ Len(q) \in Nat \ {0} /\ Head(q) = q[1] /\ Len(t) = Len(q) - 1
      /\ \A i \in 1 .. Len(t) : t[i] = q[i + 1]
  OBVIOUS
<1> HIDE DEF t
<1>2. /\ 1 \in 1 .. Len(q)
      /\ \A i \in 1 .. Len(t) : i + 1 \in 1 .. Len(q) /\ i + 1 # 1
      /\ \A i \in 1 .. Len(q) : i # 1 => i - 1 \in 1 .. Len(t) /\ t[i - 1] = q[i]
  <2>1. 1 \in 1 .. Len(q) /\ \A i \in 1 .. Len(t) : i + 1 \in 1 .. Len(q) /\ i + 1 # 1
    BY <1>1
  <2>2. ASSUME NEW i \in 1 .. Len(q), i # 1
        PROVE  i - 1 \in 1 .. Len(t) /\ t[i - 1] = q[i]
    <3>1. i - 1 \in 1 .. Len(t) /\ (i - 1) + 1 = i
      BY <1>1, <2>2
    <3>2. QED
      BY <1>1, <3>1
  <2>3. QED
    BY <2>1, <2>2
<1>3. NoneOf(q, W) <=> Head(q) \notin W /\ NoneOf(t, W)
  BY <1>1, <1>2 DEF NoneOf
<1>4. ASSUME Ends(q, W, V)
      PROVE  Ends(t, W, V) \/ (Head(q) \in V /\ NoneOf(t, W))
  <2>1. PICK i \in 1 .. Len(q) : q[i] \in V /\ \A j \in i + 1 .. Len(q) : q[j] \notin W
    BY <1>4 DEF Ends
  <2>2. CASE i = 1
    <3>1. \A k \in 1 .. Len(t) : k + 1 \in i + 1 .. Len(q)
      BY <1>1, <2>2
    <3>2. NoneOf(t, W)
      BY <1>1, <2>1, <3>1 DEF NoneOf
    <3>3. QED
      BY <1>1, <2>1, <2>2, <3>2
  <2>3. CASE i # 1
    <3>1. i - 1 \in 1 .. Len(t) /\ t[i - 1] \in V
      BY <1>2, <2>1, <2>3
    <3>2. \A k \in (i - 1) + 1 .. Len(t) : k + 1 \in i + 1 .. Len(q) /\ k \in 1 .. Len(t)
      BY <1>1, <2>3
    <3>3. \A k \in (i - 1) + 1 .. Len(t) : t[k] \notin W
      BY <1>1, <2>1, <3>2
    <3>4. QED
      BY <3>1, <3>3 DEF Ends
  <2>4. QED
    BY <2>2, <2>3
<1>5. ASSUME Ends(t, W, V)
      PROVE  Ends(q, W, V)
  <2>1. PICK i \in 1 .. Len(t) : t[i] \in V /\ \A j \in i + 1 .. Len(t) : t[j] \notin W
    BY <1>5 DEF Ends
  <2>2. i + 1 \in 1 .. Len(q) /\ q[i + 1] \in V
    BY <1>1, <2>1
  <2>3. \A j \in (i + 1) + 1 .. Len(q) : j - 1 \in i + 1 .. Len(t) /\ j \in 1 .. Len(q) /\ j # 1
    BY <1>1, <2>1
  <2>4. \A j \in (i + 1) + 1 .. Len(q) : q[j] \notin W
    BY <1>2, <2>1, <2>3
  <2>5. QED
    BY <2>2, <2>4 DEF Ends
<1>6. ASSUME Head(q) \in V, NoneOf(t, W)
      PROVE  Ends(q, W, V)
  <2>1. \A j \in 1 + 1 .. Len(q) : j \in 1 .. Len(q) /\ j # 1
    BY <1>1
  <2>2. \A j \in 1 + 1 .. Len(q) : q[j] \notin W
    BY <1>2, <1>6, <2>1 DEF NoneOf
  <2>3. QED
    BY <1>1, <1>2, <1>6, <2>2 DEF Ends
<1>7. QED
  BY <1>3, <1>4, <1>5, <1>6 DEF t

\* Whatever is not a packet changes nothing for the packets, and one more may follow where it fits.
LEMMA LateAppend ==
  ASSUME NEW q \in Seq(Signals), NEW m \in Signals
  PROVE  /\ m \notin DataSignals /\ Late(q) => Late(Append(q, m))
         /\ m \notin DataSignals /\ Fits(q) => Fits(Append(q, m))
         /\ Late(q) /\ Fits(q) => Late(Append(q, m))
<1> DEFINE t == Append(q, m)
<1>1. /\ Len(q) \in Nat /\ Len(t) = Len(q) + 1 /\ t[Len(q) + 1] = m
      /\ \A i \in 1 .. Len(q) : t[i] = q[i]
  BY AppendProperties
<1> HIDE DEF t
<1>2. \A i \in 1 .. Len(t) : i \in 1 .. Len(q) \/ i = Len(q) + 1
  BY <1>1
<1>3. \A i \in 0 .. Len(q), k \in 1 .. Len(q) + 1 : Begins(q, i, k) => Begins(t, i, k)
  <2> SUFFICES ASSUME NEW i \in 0 .. Len(q), NEW k \in 1 .. Len(q) + 1, NEW n \in i + 1 .. k - 1, q[n] \in InSession
               PROVE  Begins(t, i, k)
    BY DEF Begins
  <2>1. n \in 1 .. Len(q)
    BY <1>1
  <2>2. QED
    BY <1>1, <2>1 DEF Begins
<1>4. \A i \in 0 .. Len(q) : Begins(q, i, Len(q) + 1) => Begins(t, i, Len(t) + 1)
  <2> SUFFICES ASSUME NEW i \in 0 .. Len(q), NEW n \in i + 1 .. (Len(q) + 1) - 1, q[n] \in InSession
               PROVE  Begins(t, i, Len(t) + 1)
    BY DEF Begins
  <2>1. n \in 1 .. Len(q) /\ n \in i + 1 .. (Len(t) + 1) - 1
    BY <1>1
  <2>2. QED
    BY <1>1, <2>1 DEF Begins
<1>5. ASSUME m \notin DataSignals, Late(q)
      PROVE  Late(t)
  <2>1. \A k \in 1 .. Len(t) : t[k] \in DataSignals => k \in 1 .. Len(q) /\ q[k] \in DataSignals
    BY <1>1, <1>2, <1>5
  <2>2. ASSUME NEW i \in 1 .. Len(t), NEW j \in 1 .. Len(t), NEW k \in 1 .. Len(t),
               t[i] \in OutOfSession, t[j] \in DataSignals, t[k] \in DataSignals, i < j, j < k
        PROVE  Begins(t, i, k)
    <3>1. i \in 1 .. Len(q) /\ j \in 1 .. Len(q) /\ k \in 1 .. Len(q)
      BY <1>1, <2>1, <2>2
    <3>2. Begins(q, i, k)
      BY <1>1, <1>5, <2>2, <3>1 DEF Late
    <3>3. QED
      BY <1>1, <1>3, <3>1, <3>2
  <2>3. ASSUME main.state # "Connected", NEW j \in 1 .. Len(t), NEW k \in 1 .. Len(t),
               t[j] \in DataSignals, t[k] \in DataSignals, j < k
        PROVE  Begins(t, 0, k)
    <3>1. Begins(q, 0, k)
      BY <1>5, <2>1, <2>3 DEF Late
    <3>2. QED
      BY <1>1, <1>3, <2>1, <2>3, <3>1
  <2>4. ASSUME main.state # "Connected", main.late # 0, NEW k \in 1 .. Len(t), t[k] \in DataSignals
        PROVE  Begins(t, 0, k)
    <3>1. Begins(q, 0, k)
      BY <1>5, <2>1, <2>4 DEF Late
    <3>2. QED
      BY <1>1, <1>3, <2>1, <2>4, <3>1
  <2>5. QED
    BY <1>5, <2>2, <2>3, <2>4 DEF Late
<1>6. ASSUME m \notin DataSignals, Fits(q)
      PROVE  Fits(t)
  <2>1. ASSUME NEW i \in 1 .. Len(t), t[i] \in OutOfSession, ~Begins(t, i, Len(t) + 1), NEW j \in i + 1 .. Len(t)
        PROVE  t[j] \notin DataSignals
    <3>1. CASE j = Len(q) + 1
      BY <1>1, <1>6, <3>1
    <3>2. CASE j # Len(q) + 1
      <4>1. i \in 1 .. Len(q) /\ j \in i + 1 .. Len(q) /\ j \in 1 .. Len(q)
        BY <1>1, <2>1, <3>2
      <4>2. q[j] \notin DataSignals
        BY <1>1, <1>4, <1>6, <2>1, <4>1 DEF Fits
      <4>3. QED
        BY <1>1, <4>1, <4>2
    <3>3. QED
      BY <3>1, <3>2
  <2>2. ASSUME main.state # "Connected", ~Begins(t, 0, Len(t) + 1)
        PROVE  main.late = 0 /\ NoneOf(t, DataSignals)
    <3>1. ~Begins(q, 0, Len(q) + 1)
      BY <1>1, <1>4, <2>2
    <3>2. main.late = 0 /\ NoneOf(q, DataSignals)
      BY <1>6, <2>2, <3>1 DEF Fits
    <3>3. QED
      BY <1>1, <1>2, <1>6, <3>2 DEF NoneOf
  <2>3. QED
    BY <2>1, <2>2 DEF Fits
<1>7. ASSUME Late(q), Fits(q)
      PROVE  Late(t)
  <2>1. ASSUME NEW i \in 1 .. Len(t), NEW j \in 1 .. Len(t), NEW k \in 1 .. Len(t),
               t[i] \in OutOfSession, t[j] \in DataSignals, t[k] \in DataSignals, i < j, j < k
        PROVE  Begins(t, i, k)
    <3>1. i \in 1 .. Len(q) /\ j \in 1 .. Len(q) /\ j \in i + 1 .. Len(q)
      BY <1>1, <2>1
    <3>2. q[i] \in OutOfSession /\ q[j] \in DataSignals
      BY <1>1, <2>1, <3>1
    <3>3. CASE k = Len(q) + 1
      <4>1. Begins(q, i, Len(q) + 1)
        BY <1>7, <3>1, <3>2 DEF Fits
      <4>2. QED
        BY <1>1, <1>3, <3>1, <3>3, <4>1
    <3>4. CASE k \in 1 .. Len(q)
      <4>1. Begins(q, i, k)
        BY <1>1, <1>7, <2>1, <3>1, <3>2, <3>4 DEF Late
      <4>2. QED
        BY <1>1, <1>3, <3>1, <3>4, <4>1
    <3>5. QED
      BY <1>2, <3>3, <3>4
  <2>2. ASSUME main.state # "Connected", NEW k \in 1 .. Len(t), t[k] \in DataSignals, ~Begins(t, 0, k)
        PROVE  main.late = 0 /\ \A j \in 1 .. Len(t) : t[j] \in DataSignals => ~(j < k)
    <3>1. ~Begins(q, 0, k)
      BY <1>1, <1>3, <2>2
    <3>2. CASE k = Len(q) + 1
      <4>1. main.late = 0 /\ NoneOf(q, DataSignals)
        BY <1>7, <2>2, <3>1, <3>2 DEF Fits
      <4>2. QED
        BY <1>1, <1>2, <3>2, <4>1 DEF NoneOf
    <3>3. CASE k \in 1 .. Len(q)
      <4>1. q[k] \in DataSignals
        BY <1>1, <2>2, <3>3
      <4>2. main.late = 0
        BY <1>7, <2>2, <3>1, <3>3, <4>1 DEF Late
      <4>3. ASSUME NEW j \in 1 .. Len(t), t[j] \in DataSignals, j < k
            PROVE  FALSE
        <5>1. j \in 1 .. Len(q) /\ q[j] \in DataSignals
          BY <1>1, <3>3, <4>3
        <5>2. QED
          BY <1>7, <2>2, <3>1, <3>3, <4>1, <4>3, <5>1 DEF Late
      <4>4. QED
        BY <4>2, <4>3
    <3>4. QED
      BY <1>2, <3>2, <3>3
  <2>3. QED
    BY <1>7, <2>1, <2>2 DEF Late
<1>8. QED
  BY <1>5, <1>6, <1>7 DEF t

LEMMA TellsAppend ==
  ASSUME NEW q \in Seq(Signals), NEW m \in Signals, NEW st \in States
  PROVE  /\ m.kind = "State" => (Tells(Append(q, m), st) <=> m.state = st) /\ ~TellsReady(Append(q, m))
         /\ m.kind # "State" => (Tells(Append(q, m), st) <=> Tells(q, st))
         /\ m.kind = "Ready" => TellsReady(Append(q, m))
         /\ m.kind \notin {"State", "Ready"} => (TellsReady(Append(q, m)) <=> TellsReady(q))
<1>1. StateSignal(st) \in StateSignals /\ {StateSignal(st)} \in SUBSET StateSignals /\ ReadySignals \in SUBSET News
  BY DEF StateSignals, StateSignal, Signals, News
<1>2. /\ NoneOf(Append(q, m), StateSignals) <=> NoneOf(q, StateSignals) /\ m \notin StateSignals
      /\ Ends(Append(q, m), StateSignals, {StateSignal(st)})
           <=> m = StateSignal(st) \/ (m \notin StateSignals /\ Ends(q, StateSignals, {StateSignal(st)}))
  BY <1>1, AppendEnds
<1>3. /\ NoneOf(Append(q, m), News) <=> NoneOf(q, News) /\ m \notin News
      /\ Ends(Append(q, m), News, ReadySignals) <=> m \in ReadySignals \/ (m \notin News /\ Ends(q, News, ReadySignals))
  BY <1>1, AppendEnds
<1>4. /\ m \in StateSignals <=> m.kind = "State"
      /\ m \in ReadySignals <=> m.kind = "Ready"
      /\ m \in News <=> m.kind \in {"State", "Ready"}
  BY DEF StateSignals, ReadySignals, News
<1>5. m.kind = "State" => (m = StateSignal(st) <=> m.state = st)
  BY DEF StateSignal, Signals
<1>6. m.kind # "State" => m # StateSignal(st)
  BY DEF StateSignal
<1>7. QED
  BY <1>2, <1>3, <1>4, <1>5, <1>6 DEF Tells, TellsReady

\* In a session a packet always fits.
LEMMA SessionFits ==
  ASSUME NEW q \in Seq(Signals), Tells(q, "Connected")
  PROVE  Fits(q)
<1>1. Len(q) \in Nat
  OBVIOUS
<1>2. CASE Ends(q, StateSignals, {StateSignal("Connected")})
  <2>1. PICK n \in 1 .. Len(q) : q[n] \in InSession /\ \A j \in n + 1 .. Len(q) : q[j] \notin StateSignals
    BY <1>2 DEF Ends, InSession
  <2>2. Begins(q, 0, Len(q) + 1)
    BY <1>1, <2>1 DEF Begins
  <2>3. ASSUME NEW i \in 1 .. Len(q), q[i] \in OutOfSession
        PROVE  Begins(q, i, Len(q) + 1)
    <3>1. i # n /\ i \notin n + 1 .. Len(q)
      BY <2>1, <2>3 DEF OutOfSession
    <3>2. n \in i + 1 .. (Len(q) + 1) - 1
      BY <1>1, <3>1
    <3>3. QED
      BY <2>1, <3>2 DEF Begins
  <2>4. QED
    BY <2>2, <2>3 DEF Fits
<1>3. CASE NoneOf(q, StateSignals) /\ main.state = "Connected"
  BY <1>3 DEF Fits, NoneOf, OutOfSession
<1>4. QED
  BY <1>2, <1>3 DEF Tells

-----------------------------------------------------------------------------
(* The parts of the handlers. *)

\* What no handler but connectToHost() changes, and what each says adds no packet.
Follows(s, t) ==
  /\ t.radio = s.radio /\ t.request = s.request /\ t.met = s.met
  /\ s.attempt <= t.attempt /\ t.macro \in {s.macro, 0}
  /\ Late(Queue(s)) => Late(Queue(t))
  /\ Fits(Queue(s)) => Fits(Queue(t))

\* An attempt that goes on has a timer, unless it had none.
Busy(s, t) ==
  t.state = "Connecting" => s.state = "Connecting" /\ (Due(t) \/ (t.attempt = s.attempt /\ ~Due(s)))

\* The attempt or the session is over.
Ended(s, t) ==
  /\ Sound(t) /\ Follows(s, t)
  /\ t.state = "Disconnected" /\ t.timers = {} /\ t.told \in {s.told, s.told + 1} /\ s.attempt < t.attempt
  /\ t.tail = 0

LEMMA FollowsOn ==
  ASSUME NEW s \in Client, NEW t \in Client, NEW u \in Client, Follows(s, t), Follows(t, u)
  PROVE  Follows(s, u)
<1>1. s.attempt \in Nat /\ t.attempt \in Nat /\ u.attempt \in Nat
  BY DEF Client
<1>2. QED
  BY <1>1 DEF Follows

LEMMA SaysNothing ==
  ASSUME NEW s \in Client, NEW t, t.out = s.out, t.radio = s.radio, t.request = s.request, t.met = s.met,
         t.attempt \in {s.attempt, s.attempt + 1}, t.macro \in {s.macro, 0}
  PROVE  Follows(s, t) /\ Queue(t) = Queue(s)
<1>1. s.attempt \in Nat
  BY DEF Client
<1>2. QED
  BY <1>1 DEF Follows, Queue

LEMMA Emits ==
  ASSUME NEW s \in Client, signals \in Seq(Signals), NEW m \in Signals
  PROVE  /\ Emit(s, m) \in Client /\ Queue(s) \in Seq(Signals)
         /\ Queue(Emit(s, m)) = Append(Queue(s), m)
         /\ m.kind # "Data" => Follows(s, Emit(s, m))
<1>1. s.out \in Seq(Signals) /\ s.attempt \in Nat
  BY DEF Client
<1>2. Emit(s, m) = [s EXCEPT !.out = Append(s.out, m)]
  BY DEF Emit
<1>3. Append(s.out, m) \in Seq(Signals)
  BY <1>1
<1>4. Emit(s, m) \in Client /\ Emit(s, m).out = Append(s.out, m)
  BY <1>2, <1>3 DEF Client
<1>5. signals \o s.out \in Seq(Signals) /\ signals \o Append(s.out, m) = Append(signals \o s.out, m)
  BY <1>1
<1>6. Queue(s) \in Seq(Signals) /\ Queue(Emit(s, m)) = Append(Queue(s), m)
  BY <1>4, <1>5 DEF Queue
<1>7. ASSUME m.kind # "Data"
      PROVE  Follows(s, Emit(s, m))
  <2>1. m \notin DataSignals
    BY <1>7 DEF DataSignals
  <2>2. /\ Late(Queue(s)) => Late(Queue(Emit(s, m)))
        /\ Fits(Queue(s)) => Fits(Queue(Emit(s, m)))
    BY <1>6, <2>1, LateAppend
  <2>3. /\ Emit(s, m).radio = s.radio /\ Emit(s, m).request = s.request /\ Emit(s, m).met = s.met
        /\ Emit(s, m).attempt = s.attempt /\ Emit(s, m).macro = s.macro
    BY <1>2 DEF Client
  <2>4. QED
    BY <1>1, <2>2, <2>3 DEF Follows
<1>8. QED
  BY <1>2, <1>4, <1>6, <1>7

LEMMA UnconnectedIs ==
  /\ Unconnected \in Sockets /\ Unconnected.st = "Unconnected" /\ ~Unconnected.secure
  /\ Unconnected.keyed = Nobody /\ ~Up(Unconnected) /\ Unconnected.of = 0
BY DEF Unconnected, Sockets, Up

\* setState() tells the main thread, unless the state is the same.
LEMMA StateSet ==
  ASSUME NEW s, Known(s), NEW st \in States
  PROVE  LET t == SetState(s, st) IN
         /\ t \in Client /\ t = [s EXCEPT !.state = st, !.out = t.out] /\ Follows(s, t)
         /\ Tells(Queue(t), st) /\ (TellsReady(Queue(t)) => s.state = st /\ st = "Connected")
<1>1. s \in Client /\ signals \in Seq(Signals) /\ s.out \in Seq(Signals) /\ s.attempt \in Nat
  BY DEF Known, Client
<1>2. CASE s.state = st
  <2>1. SetState(s, st) = s /\ s = [s EXCEPT !.state = st, !.out = s.out]
    BY <1>1, <1>2 DEF SetState, Client
  <2>2. Follows(s, s)
    BY <1>1 DEF Follows
  <2>3. QED
    BY <1>1, <1>2, <2>1, <2>2 DEF Known
<1>3. CASE s.state # st
  <2> DEFINE c == [s EXCEPT !.state = st]
             m == StateSignal(st)
             t == Emit(c, m)
  <2>1. SetState(s, st) = t
    BY <1>3 DEF SetState
  <2>2. c \in Client /\ c.out = s.out /\ c.radio = s.radio /\ c.request = s.request /\ c.met = s.met
        /\ c.attempt = s.attempt /\ c.macro = s.macro
    BY <1>1 DEF Client
  <2>3. m \in Signals /\ m.kind = "State" /\ m.state = st
    BY DEF Signals, StateSignal
  <2>4. t = [s EXCEPT !.state = st, !.out = t.out]
    BY <1>1, <2>2 DEF Emit, Client
  <2> HIDE DEF c, m
  <2>5. Follows(s, c) /\ Queue(c) = Queue(s)
    BY <1>1, <2>2, SaysNothing
  <2>6. t \in Client /\ Queue(c) \in Seq(Signals) /\ Queue(t) = Append(Queue(c), m) /\ Follows(c, t)
    BY <1>1, <2>2, <2>3, Emits
  <2>7. Tells(Queue(t), st) /\ ~TellsReady(Queue(t))
    BY <2>3, <2>6, TellsAppend
  <2>8. Follows(s, t)
    BY <1>1, <2>2, <2>5, <2>6, FollowsOn
  <2>9. QED
    BY <2>1, <2>4, <2>6, <2>7, <2>8
<1>4. QED
  BY <1>2, <1>3

LEMMA Retires ==
  ASSUME NEW s, Known(s)
  PROVE  /\ Ended(s, Retire(s)) /\ Retire(s).socket = s.socket
         /\ Retire(s).macro = s.macro /\ Retire(s).told = s.told
<1> DEFINE c == [s EXCEPT !.attempt = @ + 1, !.timers = {}]
           t == SetState(c, "Disconnected")
<1>1. s \in Client /\ s.attempt \in Nat
  BY DEF Known, Client
<1>2. s.attempt + 1 \in Nat /\ {} \in SUBSET Timers
  BY <1>1
<1>3. /\ c \in Client /\ c.out = s.out /\ c.radio = s.radio /\ c.request = s.request /\ c.met = s.met /\ c.host = s.host
      /\ c.attempt = s.attempt + 1 /\ c.macro = s.macro /\ c.state = s.state /\ c.timers = {}
      /\ c.socket = s.socket /\ c.told = s.told
  <2> DEFINE b == [s EXCEPT !.attempt = @ + 1]
  <2>1. /\ b \in Client /\ b.out = s.out /\ b.radio = s.radio /\ b.request = s.request /\ b.met = s.met /\ b.host = s.host
        /\ b.attempt = s.attempt + 1 /\ b.macro = s.macro /\ b.state = s.state
        /\ b.socket = s.socket /\ b.told = s.told
    BY <1>2, <1>1 DEF Client
  <2> HIDE DEF b
  <2>2. c = [b EXCEPT !.timers = {}]
    BY DEF b
  <2>3. QED
    BY <1>2, <2>1, <2>2 DEF Client
<1>4. Retire(s) = [t EXCEPT !.tail = 0]
  BY DEF Retire, ResetParser
<1> HIDE DEF c
<1>5. Follows(s, c) /\ Queue(c) = Queue(s)
  BY <1>1, <1>3, SaysNothing
<1>6. s.socket.of \in Nat
  BY <1>1 DEF Client, Sockets
<1>7. Known(c)
  BY <1>1, <1>3, <1>5, <1>6 DEF Known
<1>8. "Disconnected" \in States
  BY DEF States
<1>9. /\ t \in Client /\ t = [c EXCEPT !.state = "Disconnected", !.out = t.out] /\ Follows(c, t)
      /\ Tells(Queue(t), "Disconnected") /\ ~TellsReady(Queue(t))
  BY <1>7, <1>8, StateSet
<1> HIDE DEF t
<1> DEFINE r == [t EXCEPT !.tail = 0]
<1>10. /\ r \in Client /\ r.out = t.out /\ r.radio = c.radio /\ r.request = c.request /\ r.met = c.met /\ r.host = c.host
      /\ r.attempt = c.attempt /\ t.attempt = c.attempt /\ t.radio = c.radio /\ t.request = c.request /\ t.met = c.met
      /\ r.macro = c.macro /\ t.macro = c.macro /\ r.state = "Disconnected" /\ r.timers = {}
      /\ r.socket = c.socket /\ r.told = c.told /\ r.tail = 0
  BY <1>3, <1>9 DEF Client
<1> HIDE DEF r
<1>11. Follows(t, r) /\ Queue(r) = Queue(t)
  BY <1>9, <1>10, SaysNothing
<1>12. Follows(s, r)
  BY <1>1, <1>3, <1>5, <1>9, <1>10, <1>11, FollowsOn
<1>13. Sound(r)
  BY <1>3, <1>7, <1>9, <1>10, <1>11 DEF Known, Sound
<1>14. QED
  BY <1>1, <1>3, <1>4, <1>10, <1>12, <1>13 DEF Ended, r

\* Telling the operator touches nothing else.
LEMMA Telling ==
  ASSUME NEW s \in Client, Known(s)
  PROVE  LET t == Tell(s) IN
         /\ t \in Client /\ t = [s EXCEPT !.told = s.told + 1, !.out = t.out]
         /\ Known(t) /\ Follows(s, t) /\ (TellsReady(Queue(t)) <=> TellsReady(Queue(s)))
<1> DEFINE c == [s EXCEPT !.told = @ + 1]
           m == Signal("Error")
           t == Emit(c, m)
<1>1. signals \in Seq(Signals) /\ s.told \in Nat /\ s.told + 1 \in Nat /\ s.state \in States
  BY DEF Known, Client
<1>2. /\ c \in Client /\ c.out = s.out /\ c.radio = s.radio /\ c.request = s.request /\ c.met = s.met
      /\ c.attempt = s.attempt /\ c.macro = s.macro
  BY <1>1 DEF Client
<1>3. m \in Signals /\ m.kind = "Error"
  BY DEF Signals, Signal
<1>4. Tell(s) = t /\ t = [s EXCEPT !.told = s.told + 1, !.out = t.out]
  BY <1>2 DEF Tell, Emit, Client
<1> HIDE DEF c, m
<1>5. Follows(s, c) /\ Queue(c) = Queue(s)
  BY <1>2, SaysNothing
<1>6. t \in Client /\ Queue(c) \in Seq(Signals) /\ Queue(t) = Append(Queue(c), m) /\ Follows(c, t)
  BY <1>1, <1>2, <1>3, Emits
<1> HIDE DEF t
<1>7. /\ Tells(Queue(t), s.state) <=> Tells(Queue(s), s.state)
      /\ TellsReady(Queue(t)) <=> TellsReady(Queue(s))
  BY <1>1, <1>3, <1>5, <1>6, TellsAppend
<1>8. Follows(s, t)
  BY <1>2, <1>5, <1>6, FollowsOn
<1>9. t.state = s.state /\ t.socket = s.socket /\ t.host = s.host /\ t.radio = s.radio /\ t.attempt = s.attempt
  BY <1>4 DEF Client
<1>10. Known(t)
  BY <1>6, <1>7, <1>9 DEF Known
<1>11. QED
  BY <1>4, <1>6, <1>7, <1>8, <1>10

\* The timers of a client change, those of its phase apart.
LEMMA TimersChange ==
  ASSUME NEW s, Sound(s), NEW tms \in SUBSET Timers, "Ping" \in tms <=> "Ping" \in s.timers,
         s.state = "Authenticating" => "Auth" \in tms
  PROVE  LET t == [s EXCEPT !.timers = tms] IN
         /\ Sound(t) /\ Follows(s, t) /\ Queue(t) = Queue(s)
         /\ t.state = s.state /\ t.timers = tms /\ t.socket = s.socket /\ t.attempt = s.attempt
         /\ t.told = s.told /\ t.macro = s.macro
         /\ t.met = s.met /\ t.radio = s.radio /\ t.answered = s.answered
         /\ Apart(s) /\ ("Retry" \in tms => "Retry" \in s.timers) /\ (s.socket.st = "Closing" => tms \subseteq s.timers) => Apart(t)
<1> DEFINE t == [s EXCEPT !.timers = tms]
<1>1. s \in Client
  BY DEF Sound, Known
<1>2. /\ t \in Client /\ t.state = s.state /\ t.timers = tms /\ t.socket = s.socket /\ t.attempt = s.attempt
      /\ t.told = s.told /\ t.macro = s.macro /\ t.out = s.out /\ t.radio = s.radio /\ t.request = s.request /\ t.met = s.met
      /\ t.host = s.host /\ t.tail = s.tail /\ t.answered = s.answered
  BY <1>1 DEF Client
<1> HIDE DEF t
<1>3. Follows(s, t) /\ Queue(t) = Queue(s)
  BY <1>1, <1>2, SaysNothing
<1>4. Sound(t)
  BY <1>2, <1>3 DEF Sound, Known
<1>5. Apart(s) /\ ("Retry" \in tms => "Retry" \in s.timers) /\ (s.socket.st = "Closing" => tms \subseteq s.timers) => Apart(t)
  BY <1>2, <1>3 DEF Apart, Own, Untold, ToldAtMostOnce
<1>6. QED
  BY <1>2, <1>3, <1>4, <1>5 DEF t

\* Whether or not the event is a failure, and the operator told.
LEMMA Reports ==
  ASSUME NEW s, Known(s), NEW event
  PROVE  LET t == ReportFailure(s, event) IN
         /\ t \in Client /\ t = [s EXCEPT !.told = t.told, !.out = t.out] /\ t.told \in {s.told, s.told + 1}
         /\ Known(t) /\ Follows(s, t) /\ (event = "SocketClosed" /\ ~Silent(s) => t = s)
<1>1. s \in Client
  BY DEF Known
<1>2. s = [s EXCEPT !.told = s.told, !.out = s.out] /\ Follows(s, s)
  BY <1>1, SaysNothing DEF Client
<1>3. Tell(s).told = s.told + 1
  BY <1>1, Telling DEF Client
<1>4. QED
  BY <1>1, <1>2, <1>3, Telling DEF ReportFailure, IsFailure

LEMMA EndedApart ==
  ASSUME NEW t, t.state = "Disconnected", t.timers = {}, t.socket = Unconnected, ToldAtMostOnce(t), Late(Queue(t))
  PROVE  Apart(t)
BY UnconnectedIs DEF Apart, Untold

\* The socket is closed: what was going on over it has ended.
LEMMA Aborts ==
  ASSUME NEW s, Sound(s)
  PROVE  LET t == Abort(s) IN
         /\ Sound(t) /\ Follows(s, t) /\ Busy(s, t) /\ t.socket = Unconnected
         /\ t.state \in {"Disconnected", "Connecting"}
         /\ \/ Up(s.socket) /\ s.state # "Disconnected" /\ Ended(s, t)
            \/ (~Up(s.socket) \/ s.state = "Disconnected") /\ t = [s EXCEPT !.socket = Unconnected]
         /\ s.state = "Connecting" => t.told = s.told
         /\ Apart(s) => Apart(t)
<1> DEFINE g == [s EXCEPT !.socket = Unconnected]
<1>1. s \in Client
  BY DEF Sound, Known
<1>2. /\ g \in Client /\ g.state = s.state /\ g.timers = s.timers /\ g.socket = Unconnected
      /\ g.attempt = s.attempt /\ g.told = s.told /\ g.macro = s.macro /\ g.out = s.out
      /\ g.radio = s.radio /\ g.request = s.request /\ g.met = s.met /\ g.host = s.host /\ g.answered = s.answered
  BY <1>1, UnconnectedIs DEF Client
<1>3. Abort(s) = IF Up(s.socket) /\ s.state # "Disconnected" THEN Retire(ReportFailure(g, "SocketClosed")) ELSE g
  BY <1>2 DEF Abort, OnSocketDisconnected
<1> HIDE DEF g
<1>4. Follows(s, g) /\ Queue(g) = Queue(s)
  BY <1>1, <1>2, SaysNothing
<1>5. Known(g)
  BY <1>1, <1>2, <1>4, UnconnectedIs DEF Sound, Known, Client
<1>6. CASE Up(s.socket) /\ s.state # "Disconnected"
  <2> DEFINE f == ReportFailure(g, "SocketClosed")
             t == Retire(f)
  <2>1. /\ f \in Client /\ f = [g EXCEPT !.told = f.told, !.out = f.out] /\ f.told \in {g.told, g.told + 1}
        /\ Known(f) /\ Follows(g, f)
    BY <1>5, Reports
  <2>2. f.socket = Unconnected /\ f.attempt = g.attempt
    BY <1>2, <2>1 DEF Client
  <2> HIDE DEF f
  <2>3. Ended(f, t) /\ t.socket = f.socket /\ t.told = f.told
    BY <2>1, Retires
  <2>4. t \in Client /\ Follows(f, t)
    BY <2>3 DEF Ended, Sound, Known
  <2>5. Follows(s, t)
    BY <1>1, <1>2, <1>4, <2>1, <2>4, FollowsOn
  <2>6. Ended(s, t)
    BY <1>2, <2>1, <2>2, <2>3, <2>5 DEF Ended
  <2>7. t.state = "Disconnected" /\ t.timers = {} /\ t.socket = Unconnected
    BY <2>2, <2>3 DEF Ended
  <2>8. ASSUME Apart(s)
        PROVE  Apart(t)
    <3>1. Untold(s) /\ Late(Queue(s))
      BY <1>6, <2>8 DEF Apart
    <3>2. ToldAtMostOnce(t) /\ Late(Queue(t))
      BY <1>2, <2>1, <2>3, <2>5, <3>1 DEF Follows, Untold, ToldAtMostOnce
    <3>3. QED
      BY <2>7, <3>2, EndedApart
  <2>9. Abort(s) = t /\ Sound(t) /\ Busy(s, t)
    BY <1>3, <1>6, <2>6, <2>7 DEF Ended, Busy, f
  <2>10. s.state = "Connecting" => t.told = s.told
    <3>1. s.state = "Connecting" => f = g
      BY <1>2, <1>5, Reports DEF Silent, f
    <3>2. QED
      BY <1>2, <2>3, <3>1
  <2>11. QED
    BY <1>6, <2>5, <2>6, <2>7, <2>8, <2>9, <2>10
<1>7. CASE ~(Up(s.socket) /\ s.state # "Disconnected")
  <2>1. s.state \in States
    BY <1>1 DEF Client
  <2>2. s.state \in {"Disconnected", "Connecting"}
    BY <1>7, <2>1 DEF Sound, Up, States
  <2>3. Sound(g)
    BY <1>2, <1>4, <1>5, <2>2, UnconnectedIs DEF Sound
  <2>4. Busy(s, g)
    BY <1>2 DEF Busy, Due
  <2>5. Apart(s) => Apart(g)
    BY <1>2, <1>4, <2>2, UnconnectedIs DEF Apart, Untold, ToldAtMostOnce
  <2>6. QED
    BY <1>2, <1>3, <1>4, <1>7, <2>2, <2>3, <2>4, <2>5 DEF g
<1>8. QED
  BY <1>6, <1>7

\* endSession(Close::Abort)
LEMMA SessionEnds ==
  ASSUME NEW s, Known(s)
  PROVE  LET t == EndSession(s) IN
         /\ Ended(s, t) /\ t.socket = Unconnected /\ t.told = s.told /\ t.macro = s.macro
         /\ ToldAtMostOnce(s) /\ Late(Queue(s)) => Apart(t)
<1> DEFINE r == Retire(s)
           t == EndSession(s)
<1>1. Ended(s, r) /\ r.told = s.told /\ r.macro = s.macro
  BY Retires
<1>2. r \in Client /\ Sound(r) /\ r.state = "Disconnected" /\ r.timers = {} /\ s \in Client /\ Follows(s, r)
  BY <1>1 DEF Ended, Sound, Known
<1>3. t = Abort(r)
  BY DEF EndSession
<1> HIDE DEF r, t
<1>4. Sound(t) /\ Follows(r, t) /\ t.socket = Unconnected /\ t = [r EXCEPT !.socket = Unconnected]
  BY <1>2, <1>3, Aborts
<1>5. /\ t \in Client /\ t.state = "Disconnected" /\ t.timers = {} /\ t.told = s.told
      /\ t.macro = s.macro /\ t.attempt = r.attempt
  BY <1>1, <1>2, <1>4, UnconnectedIs DEF Client
<1>6. Follows(s, t)
  BY <1>2, <1>4, <1>5, FollowsOn
<1>7. Ended(s, t)
  BY <1>1, <1>4, <1>5, <1>6 DEF Ended
<1>8. ToldAtMostOnce(s) /\ Late(Queue(s)) => Apart(t)
  BY <1>4, <1>5, <1>6, EndedApart DEF Follows, ToldAtMostOnce
<1>9. QED
  BY <1>4, <1>5, <1>7, <1>8 DEF t

\* An error is reported and ends the attempt or the session,
LEMMA ReportedEnd ==
  ASSUME NEW s, Known(s), s.state # "Disconnected", NEW event
  PROVE  LET t == EndSession(ReportFailure(s, event)) IN
         /\ Ended(s, t) /\ t.socket = Unconnected
         /\ Untold(s) /\ Late(Queue(s)) => Apart(t)
<1> DEFINE f == ReportFailure(s, event)
           t == EndSession(f)
<1>1. /\ f \in Client /\ f = [s EXCEPT !.told = f.told, !.out = f.out] /\ f.told \in {s.told, s.told + 1}
      /\ Known(f) /\ Follows(s, f)
  BY Reports
<1>2. s \in Client /\ f.attempt = s.attempt
  BY <1>1 DEF Known, Client
<1> HIDE DEF f
<1>3. Ended(f, t) /\ t.socket = Unconnected /\ t.told = f.told /\ (ToldAtMostOnce(f) /\ Late(Queue(f)) => Apart(t))
  BY <1>1, SessionEnds
<1>4. Follows(f, t) /\ t \in Client
  BY <1>3 DEF Ended, Sound, Known
<1>5. Follows(s, t)
  BY <1>1, <1>2, <1>4, FollowsOn
<1>6. Ended(s, t)
  BY <1>1, <1>2, <1>3, <1>5 DEF Ended
<1>7. Untold(s) /\ Late(Queue(s)) => Apart(t)
  BY <1>1, <1>3 DEF Follows, Untold, ToldAtMostOnce
<1>8. QED
  BY <1>3, <1>6, <1>7 DEF f

\* but an unreachable network is tried again.
LEMMA ErrorHandled ==
  ASSUME NEW s, Sound(s), NEW e \in Errors
  PROVE  LET t == OnSocketError(s, e) IN
         /\ Sound(t) /\ Follows(s, t) /\ Busy(s, t)
         /\ t.state \in {"Disconnected", "Connecting"} /\ (t.state = "Connecting" => t.socket = Unconnected)
         /\ Up(s.socket) => t.state = "Disconnected"
         /\ Apart(s) => Apart(t)
<1> DEFINE t == OnSocketError(s, e)
<1>1. s \in Client /\ s.state \in States
  BY DEF Sound, Known, Client
<1>2. CASE s.state = "Disconnected"
  <2>1. t = s /\ Follows(s, s) /\ Busy(s, s)
    BY <1>1, <1>2, SaysNothing DEF OnSocketError, Busy
  <2>2. QED
    BY <1>2, <2>1
<1>3. CASE e = "Network" /\ s.state = "Connecting" /\ s.retries < 2
  <2> DEFINE c == [s EXCEPT !.retries = @ + 1]
             b == [c EXCEPT !.timers = c.timers \ {"Connect"}]
             a == Abort(b)
             d == [a EXCEPT !.timers = a.timers \cup {"Retry"}]
  <2>1. t = d
    BY <1>3 DEF OnSocketError, Stop, Start
  <2>2. s.retries + 1 \in 0 .. 2
    BY <1>1, <1>3 DEF Client
  <2>3. /\ c \in Client /\ c.state = s.state /\ c.timers = s.timers /\ c.socket = s.socket /\ c.attempt = s.attempt
        /\ c.told = s.told /\ c.macro = s.macro /\ c.out = s.out /\ c.radio = s.radio /\ c.request = s.request /\ c.met = s.met
        /\ c.host = s.host /\ c.tail = s.tail /\ c.answered = s.answered
    BY <1>1, <2>2 DEF Client
  <2> HIDE DEF c
  <2>4. Follows(s, c) /\ Queue(c) = Queue(s)
    BY <1>1, <2>3, SaysNothing
  <2>5. Sound(c) /\ (Apart(s) => Apart(c))
    BY <2>3, <2>4 DEF Sound, Known, Apart, Own, Untold, ToldAtMostOnce
  <2>6. c.timers \ {"Connect"} \in SUBSET Timers
    BY <2>3 DEF Client
  <2>7. /\ Sound(b) /\ Follows(c, b) /\ b.state = "Connecting" /\ b.socket = s.socket /\ b.told = s.told
        /\ Apart(c) => Apart(b)
    BY <1>3, <2>3, <2>5, <2>6, TimersChange
  <2> HIDE DEF b
  <2>8. /\ Sound(a) /\ Follows(b, a) /\ a.socket = Unconnected /\ a.state \in {"Disconnected", "Connecting"}
        /\ a.told = s.told /\ (Apart(b) => Apart(a)) /\ (Up(s.socket) => a.state = "Disconnected")
    BY <2>7, Aborts DEF Ended
  <2> HIDE DEF a
  <2>9. a.timers \cup {"Retry"} \in SUBSET Timers
    BY <2>8 DEF Sound, Known, Client, Timers
  <2>10. Sound(d) /\ Follows(a, d) /\ d.state = a.state /\ d.socket = a.socket /\ "Retry" \in d.timers
    BY <2>8, <2>9, TimersChange
  <2>12. a \in Client /\ b \in Client /\ d \in Client
    BY <2>7, <2>8, <2>10 DEF Sound, Known
  <2>11. Apart(s) /\ Apart(a) => Apart(d)
    <3>1. /\ a \in Client /\ d.told = a.told /\ d.answered = a.answered /\ d.radio = a.radio /\ d.met = a.met
          /\ d.attempt = a.attempt /\ Queue(d) = Queue(a)
      BY <2>8, <2>9, <2>12, TimersChange
    <3>2. a.met = s.met
      BY <2>3, <2>4, <2>7, <2>8 DEF Follows
    <3>3. QED
      BY <1>3, <2>8, <2>10, <3>1, <3>2, UnconnectedIs DEF Apart, Own, Untold, ToldAtMostOnce
  <2> HIDE DEF d
  <2>13. Follows(s, d)
    <3>1. Follows(s, b)
      BY <1>1, <2>3, <2>4, <2>7, <2>12, FollowsOn
    <3>2. Follows(s, a)
      BY <1>1, <2>8, <2>12, <3>1, FollowsOn
    <3>3. QED
      BY <1>1, <2>10, <2>12, <3>2, FollowsOn
  <2>14. Busy(s, d)
    BY <1>3, <2>10 DEF Busy, Due
  <2>15. QED
    BY <1>3, <2>1, <2>5, <2>7, <2>8, <2>10, <2>11, <2>13, <2>14
<1>4. CASE s.state # "Disconnected" /\ ~(e = "Network" /\ s.state = "Connecting" /\ s.retries < 2)
  <2>1. t = EndSession(ReportFailure(s, "SocketError"))
    BY <1>4 DEF OnSocketError
  <2>2. Ended(s, t) /\ t.socket = Unconnected /\ (Untold(s) /\ Late(Queue(s)) => Apart(t))
    BY <1>4, <2>1, ReportedEnd DEF Sound
  <2>3. Apart(s) => Apart(t)
    BY <1>4, <2>2 DEF Apart
  <2>4. QED
    BY <2>2, <2>3 DEF Ended, Busy
<1>5. QED
  BY <1>2, <1>3, <1>4

\* The socket fails.
LEMMA SocketFailed ==
  ASSUME NEW s, Sound(s), NEW e \in Errors
  PROVE  LET t == SocketError(s, e) IN
         /\ Sound(t) /\ Follows(s, t) /\ Busy(s, t) /\ t.socket = Unconnected
         /\ t.state \in {"Disconnected", "Connecting"} /\ (Up(s.socket) => t.state = "Disconnected")
         /\ Apart(s) => Apart(t)
<1> DEFINE u == OnSocketError(s, e)
           t == Abort(u)
<1>1. /\ Sound(u) /\ Follows(s, u) /\ Busy(s, u)
      /\ u.state = "Connecting" => u.socket = Unconnected
      /\ Up(s.socket) => u.state = "Disconnected"
      /\ Apart(s) => Apart(u)
  BY ErrorHandled
<1> HIDE DEF u
<1>2. /\ Sound(t) /\ Follows(u, t) /\ Busy(u, t) /\ t.socket = Unconnected
      /\ t.state \in {"Disconnected", "Connecting"}
      /\ Apart(u) => Apart(t)
  BY <1>1, Aborts, UnconnectedIs
<1>3. s \in Client /\ u \in Client /\ t \in Client
  BY <1>1, <1>2 DEF Sound, Known
<1>4. Follows(s, t)
  BY <1>1, <1>2, <1>3, FollowsOn
<1>5. Busy(s, t)
  BY <1>1, <1>2 DEF Busy
<1>6. QED
  BY <1>1, <1>2, <1>4, <1>5 DEF SocketError, Busy, u

\* A write that finds the peer gone ends what it was for.
LEMMA Writes ==
  ASSUME NEW s, Known(s), s.state \in {"Authenticating", "Connected"}, NEW fails \in BOOLEAN
  PROVE  LET t == Write(s, fails) IN
         \/ t = s
         \/ Ended(s, t) /\ t.socket = Unconnected /\ (Untold(s) /\ Late(Queue(s)) => Apart(t))
<1> DEFINE u == EndSession(ReportFailure(s, "SocketError"))
<1>1. Write(s, fails) = s \/ Write(s, fails) = Abort(u)
  BY DEF Write, SocketError, OnSocketError
<1>2. Ended(s, u) /\ u.socket = Unconnected /\ (Untold(s) /\ Late(Queue(s)) => Apart(u))
  BY ReportedEnd
<1> HIDE DEF u
<1>3. Sound(u) /\ u \in Client
  BY <1>2 DEF Ended, Sound, Known
<1>4. Abort(u) = [u EXCEPT !.socket = Unconnected]
  BY <1>2, <1>3, Aborts, UnconnectedIs
<1>5. [u EXCEPT !.socket = Unconnected] = u
  BY <1>2, <1>3 DEF Client
<1>6. QED
  BY <1>1, <1>2, <1>4, <1>5

\* disconnectFromHost() ends whatever there is; only a session's socket may take its time to close.
LEMMA Disconnects ==
  ASSUME NEW s, Sound(s), NEW fails \in BOOLEAN, NEW slow \in BOOLEAN
  PROVE  LET t == DisconnectFromHost(s, fails, slow) IN
         /\ Sound(t) /\ Follows(s, t) /\ t.state = "Disconnected" /\ t.timers = {} /\ (Apart(s) => Apart(t))
         /\ s.state # "Connected" => t.told = s.told
<1> DEFINE t == DisconnectFromHost(s, fails, slow)
<1>1. s \in Client /\ Known(s)
  BY DEF Sound, Known
<1>2. CASE ~(s.state = "Connected" /\ s.socket.st = "Connected")
  <2>1. t = EndSession(s)
    BY <1>2 DEF DisconnectFromHost
  <2>2. /\ Ended(s, t) /\ t.told = s.told
        /\ ToldAtMostOnce(s) /\ Late(Queue(s)) => Apart(t)
    BY <1>1, <2>1, SessionEnds
  <2>3. QED
    BY <2>2 DEF Ended, Apart
<1>3. CASE s.state = "Connected" /\ s.socket.st = "Connected"
  <2> DEFINE w == Write(s, fails)
             r == Retire(w)
             c == [r EXCEPT !.socket.st = "Closing"]
             a == Abort(r)
  <2>1. t = IF slow /\ r.socket.st = "Connected" THEN c ELSE a
    BY <1>3 DEF DisconnectFromHost
  <2>2. w = s \/ (Ended(s, w) /\ w.socket = Unconnected /\ (Untold(s) /\ Late(Queue(s)) => Apart(w)))
    BY <1>1, <1>3, Writes
  <2>3. Known(w) /\ Follows(s, w) /\ w \in Client /\ (Apart(s) => Apart(w))
    <3>1. Follows(s, s)
      BY <1>1, SaysNothing
    <3>2. QED
      BY <1>1, <1>3, <2>2, <3>1 DEF Ended, Sound, Known, Apart
  <2>4. r.socket.st = "Connected" => r.socket = s.socket
    BY <2>2, <2>3, Retires, UnconnectedIs
  <2> HIDE DEF w
  <2>5. Ended(w, r) /\ r.told = w.told
    BY <2>3, Retires
  <2>6. Sound(r) /\ r \in Client /\ Follows(w, r) /\ r.state = "Disconnected" /\ r.timers = {}
    BY <2>5 DEF Ended, Sound, Known
  <2> HIDE DEF r
  <2>7. Follows(s, r)
    BY <1>1, <2>3, <2>6, FollowsOn
  <2>8. Apart(s) => ToldAtMostOnce(r) /\ Late(Queue(r))
    BY <2>3, <2>5, <2>7 DEF Apart, Ended, Follows, ToldAtMostOnce
  <2>9. CASE slow /\ r.socket.st = "Connected"
    <3>1. /\ c \in Client /\ c.state = r.state /\ c.timers = r.timers /\ c.attempt = r.attempt
          /\ c.told = r.told /\ c.macro = r.macro /\ c.out = r.out /\ c.radio = r.radio /\ c.request = r.request /\ c.met = r.met
          /\ c.host = r.host /\ c.socket.st = "Closing" /\ c.socket.keyed = r.socket.keyed
          /\ c.socket.peer = r.socket.peer /\ c.socket.secure = r.socket.secure /\ c.socket.tls = r.socket.tls
          /\ c.socket.of = r.socket.of
      BY <2>6 DEF Client, Sockets
    <3> HIDE DEF c
    <3>2. Follows(r, c) /\ Queue(c) = Queue(r)
      BY <2>6, <3>1, SaysNothing
    <3>3. Sound(c)
      BY <2>6, <3>1, <3>2 DEF Sound, Known
    <3>4. Apart(s) => Apart(c)
      <4>1. c.socket.of < c.attempt /\ c.socket.of \in Nat /\ c.attempt \in Nat
        <5>1. s.socket.of <= s.attempt /\ s.socket.of \in Nat /\ s.attempt \in Nat
          BY <1>1 DEF Known, Client, Sockets
        <5>2. s.attempt < r.attempt /\ r.attempt \in Nat
          BY <1>1, <2>3, <2>5, <2>6 DEF Ended, Follows, Client
        <5>3. QED
          BY <2>4, <2>9, <3>1, <5>1, <5>2
      <4>2. QED
        BY <2>6, <2>8, <3>1, <3>2, <4>1 DEF Apart, Own, Untold, ToldAtMostOnce
    <3>5. Follows(s, c)
      BY <1>1, <2>6, <2>7, <3>1, <3>2, FollowsOn
    <3>6. QED
      BY <1>3, <2>1, <2>6, <2>9, <3>1, <3>3, <3>4, <3>5
  <2>10. CASE ~(slow /\ r.socket.st = "Connected")
    <3>1. Sound(a) /\ Follows(r, a) /\ a.socket = Unconnected /\ a = [r EXCEPT !.socket = Unconnected]
      BY <2>6, Aborts
    <3>2. a \in Client /\ a.state = r.state /\ a.timers = r.timers /\ a.told = r.told
      BY <2>6, <3>1 DEF Client, Sound, Known
    <3> HIDE DEF a
    <3>3. Follows(s, a)
      BY <1>1, <2>6, <2>7, <3>1, <3>2, FollowsOn
    <3>4. Apart(s) => Apart(a)
      BY <2>6, <2>8, <3>1, <3>2, EndedApart DEF Follows, ToldAtMostOnce
    <3>5. QED
      BY <1>3, <2>1, <2>6, <2>10, <3>1, <3>2, <3>3, <3>4
  <2>11. QED
    BY <2>9, <2>10
<1>4. QED
  BY <1>2, <1>3

\* A dial may begin: the attempt has told of no failure, and no retry is pending.
Free(s) ==
  s.met # "Retry" => s.told = 0 /\ "Retry" \notin s.timers /\ s.state \in {"Connecting", "Disconnected"}

\* attemptConnection() leaves a timer running, or has given up.
LEMMA Attempts ==
  ASSUME NEW s, Sound(s), NEW psk \in BOOLEAN, NEW outcome \in Outcomes
  PROVE  LET t == AttemptConnection(s, psk, outcome) IN
         /\ Sound(t) /\ Follows(s, t) /\ Busy(s, t) /\ (t.state = "Connecting" => Due(t))
         /\ t.state \in {"Disconnected", "Connecting"}
         /\ Apart(s) /\ Free(s) => Apart(t)
<1> DEFINE c == ResetParser(s)
           free == Abort(c)
           dialled == [free EXCEPT !.socket = Dialling(free)]
           failed == SocketError(dialled, outcome)
           begun == IF outcome = "Pending" THEN dialled ELSE failed
           t == AttemptConnection(s, psk, outcome)
<1>1. s \in Client
  BY DEF Sound, Known
<1>2. /\ c \in Client /\ c.state = s.state /\ c.timers = s.timers /\ c.socket = s.socket /\ c.attempt = s.attempt
      /\ c.told = s.told /\ c.macro = s.macro /\ c.out = s.out /\ c.radio = s.radio /\ c.request = s.request /\ c.met = s.met
      /\ c.host = s.host /\ c.answered = s.answered /\ c.tail = 0
  BY <1>1 DEF ResetParser, Client
<1> HIDE DEF c
<1>3. Follows(s, c) /\ Queue(c) = Queue(s)
  BY <1>1, <1>2, SaysNothing
<1>4. Sound(c) /\ (Apart(s) => Apart(c))
  BY <1>2, <1>3 DEF Sound, Known, Apart, Own, Untold, ToldAtMostOnce
<1>5. /\ Sound(free) /\ Follows(c, free) /\ free.socket = Unconnected /\ Busy(c, free)
      /\ free.state \in {"Disconnected", "Connecting"} /\ free \in Client
      /\ Apart(s) => Apart(free)
      /\ Free(s) => Free(free)
  <2>1. /\ Sound(free) /\ Follows(c, free) /\ free.socket = Unconnected /\ Busy(c, free)
        /\ free.state \in {"Disconnected", "Connecting"}
        /\ Apart(c) => Apart(free)
        /\ c.state = "Connecting" => free.told = c.told
        /\ (c.state # "Disconnected" /\ Ended(c, free)) \/ free = [c EXCEPT !.socket = Unconnected]
    BY <1>4, Aborts
  <2>2. free \in Client /\ free.met = s.met
    BY <1>2, <2>1 DEF Follows, Sound, Known
  <2>3. ASSUME Free(s), s.met # "Retry"
        PROVE  free.told = 0 /\ "Retry" \notin free.timers
    <3>1. c.told = 0 /\ "Retry" \notin c.timers /\ c.state \in {"Connecting", "Disconnected"}
      BY <1>2, <2>3 DEF Free
    <3>2. CASE c.state # "Disconnected" /\ Ended(c, free)
      BY <2>1, <3>1, <3>2 DEF Ended
    <3>3. CASE free = [c EXCEPT !.socket = Unconnected]
      BY <1>2, <3>1, <3>3 DEF Client
    <3>4. QED
      BY <2>1, <3>2, <3>3
  <2>4. QED
    BY <1>4, <2>1, <2>2, <2>3 DEF Free
<1> HIDE DEF free
<1>6. Follows(s, free)
  BY <1>1, <1>2, <1>3, <1>5, FollowsOn
<1>7. CASE free.radio \in Tls /\ ~psk
  <2> DEFINE f == Tell(free)
  <2>1. t = EndSession(f)
    BY <1>7 DEF AttemptConnection, free, c
  <2>2. f \in Client /\ f = [free EXCEPT !.told = free.told + 1, !.out = f.out] /\ Known(f) /\ Follows(free, f)
    BY <1>5, Telling DEF Sound
  <2>3. f.told = free.told + 1
    BY <1>5, <2>2 DEF Client
  <2> HIDE DEF f
  <2>4. Ended(f, t) /\ (ToldAtMostOnce(f) /\ Late(Queue(f)) => Apart(t))
    BY <2>1, <2>2, SessionEnds
  <2>5. t \in Client /\ Follows(f, t)
    BY <2>4 DEF Ended, Sound, Known
  <2>6. Follows(s, f)
    BY <1>1, <1>5, <1>6, <2>2, FollowsOn
  <2>7. Follows(s, t)
    BY <1>1, <2>2, <2>5, <2>6, FollowsOn
  <2>8. Apart(s) /\ Free(s) => Apart(t)
    BY <1>5, <2>2, <2>3, <2>4 DEF Apart, Free, Follows, ToldAtMostOnce
  <2>9. QED
    BY <2>4, <2>7, <2>8 DEF Ended, Busy
<1>8. CASE ~(free.radio \in Tls /\ ~psk)
  <2>1. t = Start(begun, "Connect")
    BY <1>8 DEF AttemptConnection, free, c
  <2>2. /\ Dialling(free) \in Sockets /\ Dialling(free).st = "Connecting" /\ ~Dialling(free).secure
        /\ Dialling(free).peer = free.radio /\ (Dialling(free).tls <=> free.radio \in Tls)
        /\ Dialling(free).keyed = Nobody /\ Dialling(free).of = free.attempt
    <3>1. free.host \in Radios \cup {Nobody} /\ free.attempt \in Nat /\ free.host = free.radio
      BY <1>5 DEF Client, Sound, Known
    <3>2. (free.radio \in Tls) \in BOOLEAN
      OBVIOUS
    <3>3. Dialling(free) \in Sockets
      BY <3>1, <3>2 DEF Dialling, Sockets
    <3>4. /\ Dialling(free).st = "Connecting" /\ Dialling(free).peer = free.host
          /\ Dialling(free).keyed = Nobody /\ Dialling(free).secure = FALSE
          /\ Dialling(free).of = free.attempt
      BY DEF Dialling
    <3>5. Dialling(free).tls = (free.radio \in Tls)
      BY Zenon DEF Dialling
    <3>6. QED
      BY <3>1, <3>2, <3>3, <3>4, <3>5
  <2>3. /\ dialled \in Client /\ dialled.state = free.state /\ dialled.timers = free.timers
        /\ dialled.socket = Dialling(free) /\ dialled.attempt = free.attempt /\ dialled.told = free.told
        /\ dialled.macro = free.macro /\ dialled.out = free.out /\ dialled.radio = free.radio
        /\ dialled.request = free.request /\ dialled.met = free.met /\ dialled.host = free.host /\ dialled.answered = free.answered
        /\ dialled.tail = free.tail
    BY <1>5, <2>2 DEF Client
  <2>4. free.tail = 0
    <3>1. \/ Ended(c, free)
          \/ free = [c EXCEPT !.socket = Unconnected]
      BY <1>4, Aborts DEF free
    <3>2. free = [c EXCEPT !.socket = Unconnected] => free.tail = 0
      BY <1>2 DEF Client
    <3>3. QED
      BY <3>1, <3>2 DEF Ended
  <2> HIDE DEF dialled
  <2>5. Follows(free, dialled) /\ Queue(dialled) = Queue(free)
    BY <1>5, <2>3, SaysNothing
  <2>6. Sound(dialled)
    <3>1. dialled.socket.of <= dialled.attempt
      BY <1>5, <2>2, <2>3 DEF Client
    <3>2. QED
      BY <1>5, <2>2, <2>3, <2>4, <2>5, <3>1 DEF Sound, Known
  <2>7. Apart(s) /\ Free(s) => Apart(dialled)
    BY <1>5, <2>2, <2>3, <2>5 DEF Apart, Free, Own, Untold, ToldAtMostOnce
  <2>8. /\ Sound(begun) /\ Follows(dialled, begun) /\ begun.state \in {"Disconnected", "Connecting"}
        /\ begun.state = "Connecting" => dialled.state = "Connecting"
        /\ begun.socket.st # "Closing"
        /\ Apart(dialled) => Apart(begun)
    <3>1. CASE outcome = "Pending"
      BY <1>5, <2>2, <2>3, <2>6, <3>1, SaysNothing
    <3>2. CASE outcome # "Pending"
      <4>1. outcome \in Errors /\ ~Up(dialled.socket)
        BY <2>2, <2>3, <3>2 DEF Outcomes, Up
      <4>2. QED
        BY <2>6, <3>2, <4>1, SocketFailed, UnconnectedIs DEF Busy
    <3>3. QED
      BY <3>1, <3>2
  <2> HIDE DEF begun
  <2>9. begun.timers \cup {"Connect"} \in SUBSET Timers /\ begun \in Client
    BY <2>8 DEF Sound, Known, Client, Timers
  <2>10. t = [begun EXCEPT !.timers = begun.timers \cup {"Connect"}]
    BY <2>1 DEF Start
  <2>11. /\ Sound(t) /\ Follows(begun, t) /\ t.state = begun.state /\ "Connect" \in t.timers
         /\ Apart(begun) => Apart(t)
    BY <2>8, <2>9, <2>10, TimersChange DEF Sound
  <2>12. t \in Client
    BY <2>11 DEF Sound, Known
  <2>13. Follows(s, t)
    <3>1. Follows(s, dialled)
      BY <1>1, <1>5, <1>6, <2>3, <2>5, FollowsOn
    <3>2. Follows(s, begun)
      BY <1>1, <2>3, <2>8, <2>9, <3>1, FollowsOn
    <3>3. QED
      BY <1>1, <2>9, <2>11, <2>12, <3>2, FollowsOn
  <2>14. Busy(s, t)
    BY <1>2, <1>5, <2>3, <2>8, <2>11 DEF Busy, Due
  <2>15. QED
    BY <2>7, <2>8, <2>11, <2>13, <2>14 DEF Due
<1>9. QED
  BY <1>7, <1>8

\* The first packet begins the session, unless the set-up cannot be written.
LEMMA Accepts ==
  ASSUME NEW s, Sound(s), s.state = "Authenticating", NEW fails \in BOOLEAN
  PROVE  LET t == Accept(s, fails) IN
         /\ Sound(t) /\ Follows(s, t) /\ Fits(Queue(t)) /\ t.state # "Connecting"
         /\ s.attempt < t.attempt \/ (t.attempt = s.attempt /\ t.socket = s.socket)
         /\ Apart(s) => Apart(t)
<1> DEFINE b == [s EXCEPT !.answered = TRUE]
           c == [b EXCEPT !.timers = b.timers \ {"Auth"}]
           up == SetState(c, "Connected")
           m == Signal("Ready")
           rd == Emit(up, m)
           pg == [rd EXCEPT !.timers = rd.timers \cup {"Ping"}]
           z == [pg EXCEPT !.macro = 0]
           t == Accept(s, fails)
<1>1. s \in Client /\ s.attempt \in Nat /\ Known(s)
  BY DEF Sound, Known, Client
<1>2. t = Write(z, fails)
  BY DEF Accept, Start, Stop
<1>3. /\ b \in Client /\ b.state = s.state /\ b.timers = s.timers /\ b.socket = s.socket /\ b.attempt = s.attempt
      /\ b.told = s.told /\ b.macro = s.macro /\ b.out = s.out /\ b.radio = s.radio /\ b.request = s.request /\ b.met = s.met
      /\ b.host = s.host /\ b.tail = s.tail
  BY <1>1 DEF Client
<1> HIDE DEF b
<1>4. b.timers \ {"Auth"} \in SUBSET Timers
  BY <1>3 DEF Client
<1>5. /\ c \in Client /\ c.state = s.state /\ c.timers = s.timers \ {"Auth"} /\ c.socket = s.socket
      /\ c.attempt = s.attempt /\ c.told = s.told /\ c.macro = s.macro /\ c.out = s.out /\ c.radio = s.radio
      /\ c.request = s.request /\ c.met = s.met /\ c.host = s.host /\ c.tail = s.tail
  BY <1>3, <1>4 DEF Client
<1> HIDE DEF c
<1>6. Follows(s, c) /\ Queue(c) = Queue(s)
  BY <1>1, <1>5, SaysNothing
<1>7. Known(c)
  BY <1>1, <1>5, <1>6 DEF Known
<1>8. "Connected" \in States /\ m \in Signals /\ m.kind = "Ready"
  BY DEF States, Signals, Signal
<1> HIDE DEF m
<1>9. /\ up \in Client /\ up = [c EXCEPT !.state = "Connected", !.out = up.out] /\ Follows(c, up)
      /\ Tells(Queue(up), "Connected")
  BY <1>7, <1>8, StateSet
<1> HIDE DEF up
<1>10. /\ up.state = "Connected" /\ up.timers = c.timers /\ up.socket = s.socket /\ up.attempt = s.attempt
       /\ up.told = s.told /\ up.radio = s.radio /\ up.request = s.request /\ up.met = s.met /\ up.host = s.host /\ up.tail = s.tail
  BY <1>5, <1>9 DEF Client
<1>11. signals \in Seq(Signals)
  BY <1>1 DEF Known
<1>12. /\ rd \in Client /\ Queue(up) \in Seq(Signals) /\ Queue(rd) = Append(Queue(up), m) /\ Follows(up, rd)
  BY <1>8, <1>9, <1>11, Emits
<1>13. Fits(Queue(up)) /\ Fits(Queue(rd))
  BY <1>9, <1>12, SessionFits DEF Follows
<1>14. Tells(Queue(rd), "Connected") /\ TellsReady(Queue(rd))
  BY <1>8, <1>9, <1>12, TellsAppend
<1>15. /\ rd.state = "Connected" /\ rd.timers = c.timers /\ rd.socket = s.socket /\ rd.attempt = s.attempt
       /\ rd.told = s.told /\ rd.radio = s.radio /\ rd.request = s.request /\ rd.met = s.met /\ rd.host = s.host /\ rd.tail = s.tail
  BY <1>9, <1>10 DEF Emit, Client
<1> HIDE DEF rd
<1>16. rd.timers \cup {"Ping"} \in SUBSET Timers
  BY <1>12 DEF Client, Timers
<1>17. /\ pg \in Client /\ pg.state = "Connected" /\ pg.timers = rd.timers \cup {"Ping"} /\ pg.socket = s.socket
       /\ pg.attempt = s.attempt /\ pg.told = s.told /\ pg.radio = s.radio /\ pg.request = s.request /\ pg.met = s.met
       /\ pg.host = s.host /\ pg.tail = s.tail /\ pg.out = rd.out /\ pg.macro = rd.macro
  BY <1>12, <1>15, <1>16 DEF Client
<1> HIDE DEF pg
<1>18. /\ z \in Client /\ z.state = "Connected" /\ z.timers = rd.timers \cup {"Ping"} /\ z.socket = s.socket
       /\ z.attempt = s.attempt /\ z.told = s.told /\ z.radio = s.radio /\ z.request = s.request /\ z.met = s.met
       /\ z.host = s.host /\ z.tail = s.tail /\ z.out = rd.out /\ z.macro = 0
  BY <1>17 DEF Client
<1> HIDE DEF z
<1>19. Follows(rd, z) /\ Queue(z) = Queue(rd)
  BY <1>12, <1>15, <1>18, SaysNothing
<1>20. Sound(z)
  BY <1>11, <1>14, <1>18, <1>19 DEF Sound, Known
<1>21. Follows(s, z)
  <2>1. Follows(s, up)
    BY <1>1, <1>5, <1>6, <1>9, FollowsOn
  <2>2. Follows(s, rd)
    BY <1>1, <1>9, <1>12, <2>1, FollowsOn
  <2>3. QED
    BY <1>1, <1>12, <1>18, <1>19, <2>2, FollowsOn
<1>22. Apart(s) => Apart(z)
  <2>1. Apart(s) => (z.met # "Retry" => "Retry" \notin z.timers) /\ s.socket.st # "Closing"
    BY <1>5, <1>15, <1>18 DEF Apart
  <2>2. (Own(z) <=> Own(s)) /\ (Untold(z) <=> Untold(s)) /\ (ToldAtMostOnce(z) <=> ToldAtMostOnce(s))
    BY <1>18 DEF Own, Untold, ToldAtMostOnce
  <2>3. QED
    BY <1>18, <1>21, <2>1, <2>2 DEF Apart, Follows
<1>23. CASE t = z
  BY <1>13, <1>18, <1>19, <1>20, <1>21, <1>22, <1>23
<1>24. CASE Ended(z, t) /\ t.socket = Unconnected /\ (Untold(z) /\ Late(Queue(z)) => Apart(t))
  <2>1. t \in Client /\ Follows(z, t)
    BY <1>24 DEF Ended, Sound, Known
  <2>2. Follows(s, t)
    BY <1>1, <1>18, <1>21, <2>1, FollowsOn
  <2>3. Fits(Queue(t))
    BY <1>13, <1>19, <2>1 DEF Follows
  <2>4. Apart(s) => Apart(t)
    BY <1>18, <1>22, <1>24 DEF Apart
  <2>5. s.attempt < t.attempt
    BY <1>18, <1>24 DEF Ended
  <2>6. QED
    BY <1>24, <2>2, <2>3, <2>4, <2>5 DEF Ended
<1>25. t = z \/ (Ended(z, t) /\ t.socket = Unconnected /\ (Untold(z) /\ Late(Queue(z)) => Apart(t)))
  <2>1. Known(z) /\ z.state \in {"Authenticating", "Connected"}
    BY <1>18, <1>20 DEF Sound
  <2>2. QED
    BY <1>2, <2>1, Writes
<1>26. QED
  BY <1>23, <1>24, <1>25

\* What only connectToHost() changes.
Keeps(s, t) == t.radio = s.radio /\ t.request = s.request /\ t.met = s.met /\ s.attempt <= t.attempt /\ t.macro \in {s.macro, 0}

\* The bytes of a socket that can be read are of the present attempt, and its packets of a session that
\* the main thread will have heard of.
LEMMA Reads ==
  ASSUME NEW s, Sound(s), NEW packet \in BOOLEAN, NEW part \in BOOLEAN, NEW fails \in BOOLEAN
  PROVE  LET t == OnReadyRead(s, packet, part, fails) IN
         /\ Sound(t) /\ Keeps(s, t) /\ Busy(s, t)
         /\ Apart(s) /\ Up(s.socket) /\ (s.socket.tls => s.socket.secure) => Apart(t)
         /\ t.state = "Connecting" => t.socket = s.socket /\ t.timers = s.timers
<1> DEFINE ac == IF s.state = "Authenticating" /\ ~s.answered THEN Accept(s, fails) ELSE s
           m == DataSignal(s.socket.of = s.attempt)
           told == IF packet THEN Emit(ac, m) ELSE s
           n == IF part /\ told.attempt = s.attempt THEN s.socket.of ELSE 0
           t == OnReadyRead(s, packet, part, fails)
           Legible == Apart(s) /\ Up(s.socket) /\ (s.socket.tls => s.socket.secure)
<1>1. s \in Client /\ s.attempt \in Nat /\ s.socket.of \in Nat /\ signals \in Seq(Signals) /\ s.state \in States
  BY DEF Sound, Known, Client, Sockets
<1>2. t = s \/ (t = [told EXCEPT !.tail = n] /\ s.state # "Disconnected")
  BY DEF OnReadyRead, Parse
<1>3. CASE t = s
  <2>1. Keeps(s, s) /\ Busy(s, s)
    BY <1>1 DEF Keeps, Busy
  <2>2. QED
    BY <1>3, <2>1
<1>4. CASE t = [told EXCEPT !.tail = n] /\ s.state # "Disconnected"
  <2>1. /\ Sound(ac) /\ Follows(s, ac) /\ Busy(s, ac)
        /\ s.attempt < ac.attempt \/ (ac.attempt = s.attempt /\ ac.socket = s.socket)
        /\ Legible => Apart(ac) /\ (Own(s) => Fits(Queue(ac)))
        /\ ac.state = "Connecting" => ac.socket = s.socket /\ ac.timers = s.timers
    <3>1. CASE s.state = "Authenticating" /\ ~s.answered
      <4>1. Accept(s, fails).state # "Connecting"
        BY <3>1, Accepts
      <4>2. QED
        BY <3>1, <4>1, Accepts DEF Busy
    <3>2. CASE ~(s.state = "Authenticating" /\ ~s.answered)
      <4>1. ac = s /\ Follows(s, s) /\ Busy(s, s)
        BY <1>1, <3>2, SaysNothing DEF Busy
      <4>2. Legible /\ Own(s) => s.state = "Connected"
        BY <1>1, <1>4, <3>2 DEF Sound, Apart, Up, States
      <4>3. s.state = "Connected" => Fits(Queue(s))
        <5>1. s.out \in Seq(Signals)
          BY <1>1 DEF Client
        <5>2. Queue(s) \in Seq(Signals)
          BY <1>1, <5>1 DEF Queue
        <5>3. QED
          BY <5>2, SessionFits DEF Sound, Known
      <4>4. QED
        BY <4>1, <4>2, <4>3
    <3>3. QED
      BY <3>1, <3>2
  <2> HIDE DEF ac
  <2>2. ac \in Client /\ ac.attempt \in Nat
    BY <2>1 DEF Sound, Known, Client
  <2>3. m \in Signals /\ m.kind = "Data" /\ (m \in DataSignals => Own(s))
    BY DEF Signals, DataSignal, DataSignals, Own
  <2> HIDE DEF m
  <2>4. /\ Emit(ac, m) \in Client /\ Queue(ac) \in Seq(Signals) /\ Queue(Emit(ac, m)) = Append(Queue(ac), m)
    BY <1>1, <2>2, <2>3, Emits
  <2>5. Emit(ac, m) = [ac EXCEPT !.out = Append(ac.out, m)]
    BY DEF Emit
  <2>6. /\ told \in Client /\ Sound(told) /\ Keeps(s, told) /\ Busy(s, told)
        /\ told.attempt = s.attempt => told.socket = s.socket
        /\ Legible => Apart(told)
        /\ told.state = "Connecting" => told.socket = s.socket /\ told.timers = s.timers
    <3>1. CASE ~packet
      BY <1>1, <3>1 DEF Keeps, Busy
    <3>2. CASE packet
      <4> DEFINE e == Emit(ac, m)
      <4>1. /\ e.state = ac.state /\ e.timers = ac.timers /\ e.socket = ac.socket /\ e.attempt = ac.attempt
            /\ e.told = ac.told /\ e.radio = ac.radio /\ e.request = ac.request /\ e.host = ac.host
            /\ e.tail = ac.tail /\ e.macro = ac.macro /\ e.answered = ac.answered /\ e.met = ac.met
        BY <2>2, <2>5 DEF Client
      <4> HIDE DEF e
      <4>2. Tells(Queue(e), ac.state) /\ (TellsReady(Queue(e)) <=> TellsReady(Queue(ac)))
        <5>1. ac.state \in States /\ Tells(Queue(ac), ac.state)
          BY <2>1, <2>2 DEF Sound, Known, Client
        <5>2. QED
          BY <2>3, <2>4, <5>1, TellsAppend DEF e
      <4>3. Sound(e)
        BY <2>1, <2>4, <4>1, <4>2 DEF Sound, Known, e
      <4>4. Keeps(s, e) /\ Busy(s, e)
        BY <2>1, <4>1 DEF Follows, Keeps, Busy, Due
      <4>5. Legible => Late(Queue(e))
        <5>1. Legible => Late(Queue(ac)) /\ (Own(s) => Fits(Queue(ac)))
          BY <2>1 DEF Apart
        <5>2. QED
          BY <2>3, <2>4, <5>1, LateAppend DEF e
      <4>6. Legible => Apart(e)
        BY <2>1, <4>1, <4>5 DEF Apart, Own, Untold, ToldAtMostOnce
      <4>7. e.attempt = s.attempt => e.socket = s.socket
        BY <1>1, <2>1, <2>2, <4>1
      <4>8. told = e /\ e \in Client
        BY <2>4, <3>2 DEF e
      <4>9. QED
        BY <2>1, <4>1, <4>3, <4>4, <4>6, <4>7, <4>8
    <3>3. QED
      BY <3>1, <3>2
  <2> HIDE DEF told
  <2> DEFINE w == [told EXCEPT !.tail = n]
  <2>7. n \in {0, s.socket.of} /\ n \in Nat /\ (n # 0 => told.attempt = s.attempt)
    BY <1>1
  <2> HIDE DEF n
  <2>8. /\ w \in Client /\ w.state = told.state /\ w.timers = told.timers /\ w.socket = told.socket
        /\ w.attempt = told.attempt /\ w.told = told.told /\ w.radio = told.radio /\ w.request = told.request
        /\ w.host = told.host /\ w.macro = told.macro /\ w.answered = told.answered /\ w.out = told.out
        /\ w.tail = n /\ w.met = told.met
    BY <2>6, <2>7 DEF Client
  <2> HIDE DEF w
  <2>9. Queue(w) = Queue(told)
    BY <2>8 DEF Queue
  <2>10. n \in {0, w.socket.of}
    BY <2>6, <2>7, <2>8
  <2>11. Sound(w)
    BY <2>6, <2>8, <2>9, <2>10 DEF Sound, Known
  <2>12. Keeps(s, w) /\ Busy(s, w)
    BY <2>6, <2>8 DEF Keeps, Busy, Due
  <2>13. Legible => Apart(w)
    BY <2>6, <2>8, <2>9 DEF Apart, Own, Untold, ToldAtMostOnce
  <2>14. QED
    BY <1>4, <2>6, <2>8, <2>11, <2>12, <2>13 DEF w
<1>5. QED
  BY <1>2, <1>3, <1>4

\* connectToHost() begins an attempt with nothing of the one before.
LEMMA Asks ==
  ASSUME NEW s, Sound(s), NEW r \in Radios, NEW n \in Nat, NEW fails \in BOOLEAN, NEW slow \in BOOLEAN
  PROVE  LET t == Asked(s, r, n, fails, slow) IN
         /\ Sound(t) /\ t.state = "Connecting" /\ t.radio = r /\ t.request = n
         /\ s.attempt < t.attempt /\ t.macro \in {s.macro, 0}
         /\ \A l : Waiting(t, l)
         /\ Apart(s) => Apart(t) /\ Free(t)
<1> DEFINE free == IF s.state = "Disconnected" THEN s ELSE DisconnectFromHost(s, fails, slow)
           c == [free EXCEPT !.attempt = free.attempt + 1, !.radio = r, !.host = r, !.answered = FALSE, !.retries = 0,
                             !.request = n, !.told = 0, !.met = LeftOver(free)]
           t == SetState(c, "Connecting")
<1>1. s \in Client /\ s.attempt \in Nat
  BY DEF Sound, Known, Client
<1>2. Sound(free) /\ Follows(s, free) /\ free.state = "Disconnected" /\ (Apart(s) => Apart(free))
  BY <1>1, Disconnects, SaysNothing
<1>3. Asked(s, r, n, fails, slow) = t
  BY DEF Asked
<1> HIDE DEF free
<1>4. free \in Client /\ free.attempt + 1 \in Nat /\ s.attempt < free.attempt + 1
  BY <1>1, <1>2 DEF Sound, Known, Client, Follows
<1>5. free.socket.of <= free.attempt + 1 /\ free.socket.of # free.attempt + 1
  <2>1. free.socket.of \in Nat /\ free.attempt \in Nat /\ free.socket.of <= free.attempt
    BY <1>2, <1>4 DEF Sound, Known, Client, Sockets
  <2>2. QED
    BY <2>1
<1>6. LeftOver(free) \in Leftovers
  BY DEF LeftOver, Leftovers
<1>7. /\ c \in Client /\ c.state = free.state /\ c.timers = free.timers /\ c.socket = free.socket
      /\ c.attempt = free.attempt + 1 /\ c.told = 0 /\ c.macro = free.macro /\ c.out = free.out /\ c.radio = r
      /\ c.host = r /\ c.request = n /\ c.tail = free.tail /\ c.answered = FALSE /\ c.met = LeftOver(free)
  <2> DEFINE d == [free EXCEPT !.attempt = free.attempt + 1, !.radio = r, !.host = r]
  <2>1. /\ d \in Client /\ d.state = free.state /\ d.timers = free.timers /\ d.socket = free.socket
        /\ d.attempt = free.attempt + 1 /\ d.macro = free.macro /\ d.out = free.out /\ d.radio = r
        /\ d.host = r /\ d.tail = free.tail
    BY <1>4 DEF Client
  <2> DEFINE e == [d EXCEPT !.answered = FALSE, !.retries = 0]
  <2>2. c = [e EXCEPT !.request = n, !.told = 0, !.met = LeftOver(free)]
    BY DEF d
  <2> HIDE DEF c, d
  <2>3. /\ e \in Client /\ e.state = d.state /\ e.timers = d.timers /\ e.socket = d.socket
        /\ e.attempt = d.attempt /\ e.macro = d.macro /\ e.out = d.out /\ e.radio = d.radio
        /\ e.host = d.host /\ e.tail = d.tail /\ e.answered = FALSE
    <3> DEFINE b == [d EXCEPT !.answered = FALSE]
    <3>1. /\ b \in Client /\ b.state = d.state /\ b.timers = d.timers /\ b.socket = d.socket
          /\ b.attempt = d.attempt /\ b.macro = d.macro /\ b.out = d.out /\ b.radio = d.radio
          /\ b.host = d.host /\ b.tail = d.tail /\ b.answered = FALSE
      BY <2>1 DEF Client
    <3>2. e = [b EXCEPT !.retries = 0] /\ 0 \in 0 .. 2
      OBVIOUS
    <3> HIDE DEF b, e
    <3>3. QED
      BY <3>1, <3>2 DEF Client
  <2> HIDE DEF e
  <2>4. QED
    BY <1>6, <2>1, <2>2, <2>3 DEF Client
<1> HIDE DEF c
<1>8. Queue(c) = Queue(free)
  BY <1>7 DEF Queue
<1>9. Known(c)
  <2>1. c.socket.of <= c.attempt
    BY <1>7, <1>5
  <2>2. Known(free)
    BY <1>2 DEF Sound
  <2>3. QED
    BY <1>7, <1>8, <2>1, <2>2 DEF Known
<1>10. "Connecting" \in States
  BY DEF States
<1>11. /\ t \in Client /\ t = [c EXCEPT !.state = "Connecting", !.out = t.out] /\ Follows(c, t)
      /\ Tells(Queue(t), "Connecting") /\ ~TellsReady(Queue(t))
  BY <1>9, <1>10, StateSet
<1> HIDE DEF t
<1>12. /\ t.state = "Connecting" /\ t.timers = free.timers /\ t.socket = free.socket
       /\ t.attempt = free.attempt + 1 /\ t.told = 0 /\ t.macro = free.macro /\ t.radio = r
       /\ t.host = r /\ t.request = n /\ t.tail = free.tail /\ t.answered = FALSE
       /\ t.met = LeftOver(free)
  BY <1>7, <1>11 DEF Client
<1>13. Sound(t)
  <2>1. t.socket.of <= t.attempt
    BY <1>12, <1>5
  <2>2. QED
    BY <1>2, <1>11, <1>12, <2>1 DEF Sound, Known
<1>14. Apart(s) => Late(Queue(t))
  BY <1>2, <1>8, <1>11 DEF Apart, Follows
<1>15. Apart(s) => Apart(t) /\ Free(t)
  <2>1. ~Own(t)
    BY <1>12, <1>5 DEF Own
  <2>2. /\ t.met # "Retry" => "Retry" \notin t.timers /\ t.socket.st \notin {"Connecting", "Connected"}
        /\ "Retry" \notin t.timers /\ t.socket.st = "Closing" => t.met = "Closing"
    BY <1>12 DEF LeftOver
  <2>3. ASSUME Apart(s)
        PROVE  /\ t.socket.st = "Unconnected" => t.socket = Unconnected
               /\ t.socket.st = "Connecting" => ~t.socket.secure
               /\ t.socket.st = "Closing" => t.timers = {}
    BY <1>2, <1>12, <2>3 DEF Apart
  <2>4. QED
    BY <1>12, <1>14, <2>1, <2>2, <2>3 DEF Apart, Free, Untold, ToldAtMostOnce
<1>16. t.socket.st \in {"Unconnected", "Connecting", "Connected", "Closing"}
  BY <1>11 DEF Client, Sockets
<1>17. \A l : Waiting(t, l)
  BY <1>12, <1>16 DEF Waiting, LeftOver
<1>18. t.macro \in {s.macro, 0}
  BY <1>2, <1>12 DEF Follows
<1>19. QED
  BY <1>3, <1>4, <1>12, <1>13, <1>15, <1>18, <1>17

\* The connection is up: it is the radio's turn to answer, and a timer's.
LEMMA Connects ==
  ASSUME NEW p, Sound(p), p.socket.st = "Connecting", NEW fails \in BOOLEAN
  PROVE  LET t == OnSocketConnected([p EXCEPT !.socket.st = "Connected"], fails) IN
         /\ Sound(t) /\ Follows(p, t) /\ Busy(p, t)
         /\ Apart(p) => Apart(t)
<1> DEFINE s == [p EXCEPT !.socket.st = "Connected"]
           t == OnSocketConnected(s, fails)
<1>1. p \in Client /\ p.state \in States /\ p.socket \in Sockets
  BY DEF Sound, Known, Client
<1>2. p.state \in {"Disconnected", "Connecting"}
  BY <1>1 DEF Sound, States
<1>3. /\ s \in Client /\ s.state = p.state /\ s.timers = p.timers /\ s.attempt = p.attempt
      /\ s.told = p.told /\ s.macro = p.macro /\ s.out = p.out /\ s.radio = p.radio /\ s.request = p.request /\ s.met = p.met
      /\ s.host = p.host /\ s.tail = p.tail /\ s.answered = p.answered
      /\ s.socket.st = "Connected" /\ s.socket.peer = p.socket.peer /\ s.socket.keyed = p.socket.keyed
      /\ s.socket.tls = p.socket.tls /\ s.socket.secure = p.socket.secure /\ s.socket.of = p.socket.of
  BY <1>1 DEF Client, Sockets
<1> HIDE DEF s
<1>4. Follows(p, s) /\ Queue(s) = Queue(p)
  BY <1>1, <1>3, SaysNothing
<1>5. Sound(s)
  BY <1>2, <1>3, <1>4 DEF Sound, Known
<1>6. /\ (Own(s) <=> Own(p)) /\ (Untold(s) <=> Untold(p)) /\ (ToldAtMostOnce(s) <=> ToldAtMostOnce(p))
      /\ Apart(p) => ~p.socket.secure /\ (p.met # "Retry" => "Retry" \notin p.timers)
  <2>1. Apart(p) => ~p.socket.secure /\ (p.met # "Retry" => "Retry" \notin p.timers)
    BY UnconnectedIs DEF Apart
  <2>2. QED
    BY <1>3, <2>1 DEF Own, Untold, ToldAtMostOnce
<1>7. CASE p.state # "Connecting"
  <2>1. t = Abort(s)
    BY <1>3, <1>7 DEF OnSocketConnected
  <2>2. Sound(t) /\ Follows(s, t) /\ Busy(s, t) /\ t \in Client /\ (Apart(s) => Apart(t))
    <3>1. Sound(t) /\ Follows(s, t) /\ Busy(s, t) /\ (Apart(s) => Apart(t))
      BY <1>5, <2>1, Aborts
    <3>2. QED
      BY <3>1 DEF Sound, Known
  <2>3. Follows(p, t)
    BY <1>1, <1>3, <1>4, <2>2, FollowsOn
  <2>4. Busy(p, t)
    BY <1>3, <1>7, <2>2 DEF Busy
  <2>5. Apart(p) => Apart(s)
    BY <1>3, <1>4, <1>6, <1>7 DEF Apart
  <2>6. QED
    BY <1>7, <2>2, <2>3, <2>4, <2>5 DEF s
<1>8. CASE p.state = "Connecting" /\ p.radio \in Tls
  <2>1. t = s
    BY <1>3, <1>8 DEF OnSocketConnected
  <2>2. Busy(p, s)
    BY <1>3 DEF Busy, Due
  <2>3. Apart(p) => Apart(s)
    <3>1. Apart(p) /\ Own(p) => p.socket.tls
      BY <1>8 DEF Apart
    <3>2. QED
      BY <1>3, <1>4, <1>6, <1>8, <3>1 DEF Apart
  <2>4. QED
    BY <1>4, <1>5, <2>1, <2>2, <2>3 DEF s
<1>9. CASE p.state = "Connecting" /\ p.radio \notin Tls
  <2> DEFINE b == [s EXCEPT !.timers = s.timers \ {"Connect"}]
             a == SetState(b, "Authenticating")
             k == [a EXCEPT !.socket.keyed = s.radio]
             w == Write(k, fails)
             f == [w EXCEPT !.timers = w.timers \cup {"Auth"}]
  <2>1. t = f
    BY <1>3, <1>9 DEF OnSocketConnected, Stop, Start
  <2>2. s.timers \ {"Connect"} \in SUBSET Timers
    BY <1>3 DEF Client
  <2>3. /\ Sound(b) /\ Follows(s, b) /\ b \in Client /\ b.timers = s.timers \ {"Connect"}
        /\ b.state = "Connecting" /\ b.socket = s.socket /\ b.attempt = s.attempt /\ b.told = s.told
        /\ b.macro = s.macro
    <3>1. /\ Sound(b) /\ Follows(s, b) /\ b.timers = s.timers \ {"Connect"}
          /\ b.state = s.state /\ b.socket = s.socket /\ b.attempt = s.attempt /\ b.told = s.told
          /\ b.macro = s.macro
      <4>1. "Ping" \in s.timers \ {"Connect"} <=> "Ping" \in s.timers
        OBVIOUS
      <4>2. s.state # "Authenticating"
        BY <1>3, <1>9
      <4>3. QED
        BY <1>5, <2>2, <4>1, <4>2, TimersChange
    <3>2. b \in Client
      BY <3>1 DEF Sound, Known
    <3>3. QED
      BY <1>3, <1>9, <3>1, <3>2
  <2>4. b.host = s.host /\ b.radio = s.radio /\ b.request = s.request /\ b.met = s.met /\ b.tail = s.tail /\ b.answered = s.answered
    BY <1>3 DEF Client
  <2> HIDE DEF b
  <2>5. "Authenticating" \in States
    BY DEF States
  <2>6. /\ a \in Client /\ a = [b EXCEPT !.state = "Authenticating", !.out = a.out] /\ Follows(b, a)
        /\ Tells(Queue(a), "Authenticating") /\ ~TellsReady(Queue(a))
    BY <2>3, <2>5, StateSet DEF Sound
  <2> HIDE DEF a
  <2>7. /\ a.state = "Authenticating" /\ a.timers = b.timers /\ a.socket = s.socket /\ a.attempt = s.attempt
        /\ a.told = s.told /\ a.macro = s.macro /\ a.radio = s.radio /\ a.host = s.host /\ a.request = s.request /\ a.met = s.met
        /\ a.tail = s.tail /\ a.answered = s.answered
    BY <2>3, <2>4, <2>6 DEF Client
  <2>8. /\ k \in Client /\ k.state = "Authenticating" /\ k.timers = b.timers /\ k.attempt = s.attempt
        /\ k.told = s.told /\ k.macro = s.macro /\ k.radio = s.radio /\ k.host = s.host /\ k.request = s.request /\ k.met = s.met
        /\ k.tail = s.tail /\ k.answered = s.answered /\ k.out = a.out
        /\ k.socket.st = "Connected" /\ k.socket.peer = s.socket.peer /\ k.socket.keyed = s.radio
        /\ k.socket.tls = s.socket.tls /\ k.socket.secure = s.socket.secure /\ k.socket.of = s.socket.of
    BY <1>3, <2>6, <2>7 DEF Client, Sockets
  <2> HIDE DEF k
  <2>9. Follows(a, k) /\ Queue(k) = Queue(a)
    BY <2>6, <2>7, <2>8, SaysNothing
  <2>10. Known(k)
    BY <1>3, <1>5, <2>6, <2>8, <2>9 DEF Sound, Known
  <2>11. Follows(p, k)
    <3>1. Follows(p, b)
      BY <1>1, <1>3, <1>4, <2>3, FollowsOn
    <3>2. Follows(p, a)
      BY <1>1, <2>3, <2>6, <3>1, FollowsOn
    <3>3. QED
      BY <1>1, <2>6, <2>8, <2>9, <3>2, FollowsOn
  <2>12. w = k \/ (Ended(k, w) /\ w.socket = Unconnected /\ (Untold(k) /\ Late(Queue(k)) => Apart(w)))
    BY <2>8, <2>10, Writes
  <2> HIDE DEF w
  <2>13. CASE w = k
    <3>1. /\ f \in Client /\ f.state = "Authenticating" /\ f.timers = b.timers \cup {"Auth"} /\ f.socket = k.socket
          /\ f.told = k.told /\ f.radio = k.radio /\ f.host = k.host /\ f.request = k.request /\ f.met = k.met /\ f.macro = k.macro
          /\ f.tail = k.tail /\ f.answered = k.answered /\ f.out = k.out /\ f.attempt = k.attempt
      BY <2>8, <2>13 DEF Client, Timers
    <3> HIDE DEF f
    <3>2. Follows(k, f) /\ Queue(f) = Queue(k)
      BY <2>8, <3>1, SaysNothing
    <3>3. "Ping" \notin f.timers
      BY <1>5, <1>3, <1>9, <2>3, <3>1 DEF Sound
    <3>4. Sound(f)
      <4>1. ~f.answered
        BY <1>3, <1>9, <2>8, <3>1 DEF Sound
      <4>2. QED
        BY <1>3, <1>5, <2>8, <2>10, <3>1, <3>2, <3>3, <4>1 DEF Sound, Known
    <3>5. Follows(p, f)
      BY <1>1, <2>8, <2>11, <3>1, <3>2, FollowsOn
    <3>6. Apart(p) => Apart(f)
      <4>1. Apart(p) => ~f.socket.secure /\ (f.met # "Retry" => "Retry" \notin f.timers)
        BY <1>3, <1>6, <2>3, <2>8, <3>1
      <4>2. /\ (Own(f) <=> Own(p)) /\ (Untold(f) <=> Untold(p)) /\ (ToldAtMostOnce(f) <=> ToldAtMostOnce(p))
        BY <1>3, <2>8, <3>1 DEF Own, Untold, ToldAtMostOnce
      <4>3. QED
        BY <1>3, <1>9, <2>8, <3>1, <3>5, <4>1, <4>2 DEF Apart, Follows
    <3>7. QED
      BY <1>9, <2>1, <3>1, <3>4, <3>5, <3>6 DEF Busy, s
  <2>14. CASE Ended(k, w) /\ w.socket = Unconnected /\ (Untold(k) /\ Late(Queue(k)) => Apart(w))
    <3>1. Sound(w) /\ w \in Client /\ Follows(k, w) /\ w.state = "Disconnected" /\ w.timers = {}
      BY <2>14 DEF Ended, Sound, Known
    <3>2. {"Auth"} \in SUBSET Timers /\ w.timers \cup {"Auth"} = {"Auth"}
      BY <3>1 DEF Timers
    <3>3. Sound(f) /\ Follows(w, f) /\ f.state = "Disconnected" /\ (Apart(w) => Apart(f))
      <4>1. w.socket.st # "Closing" /\ w.state # "Authenticating" /\ ("Ping" \in {"Auth"} <=> "Ping" \in w.timers)
        BY <2>14, <3>1, UnconnectedIs
      <4>2. "Retry" \in {"Auth"} => "Retry" \in w.timers
        OBVIOUS
      <4>3. QED
        BY <3>1, <3>2, <4>1, <4>2, TimersChange
    <3>4. f \in Client
      BY <3>3 DEF Sound, Known
    <3> HIDE DEF f
    <3>5. Follows(p, w)
      BY <1>1, <2>8, <2>11, <3>1, FollowsOn
    <3>6. Follows(p, f)
      BY <1>1, <3>1, <3>3, <3>4, <3>5, FollowsOn
    <3>7. Apart(p) => Apart(w)
      <4>1. Apart(p) => Untold(p) /\ Late(Queue(p))
        BY <1>9 DEF Apart
      <4>2. Untold(p) <=> Untold(k)
        BY <1>3, <2>8 DEF Untold
      <4>3. QED
        BY <2>11, <2>14, <4>1, <4>2 DEF Follows
    <3>8. QED
      BY <1>9, <2>1, <3>3, <3>6, <3>7 DEF Busy, s
  <2>15. QED
    BY <2>12, <2>13, <2>14
<1>10. QED
  BY <1>2, <1>7, <1>8, <1>9

\* The handshake is done.
LEMMA Encrypts ==
  ASSUME NEW p, Sound(p), p.socket.st = "Connected", p.socket.tls, ~p.socket.secure
  PROVE  LET t == OnSocketEncrypted([p EXCEPT !.socket.secure = TRUE]) IN
         /\ Sound(t) /\ Follows(p, t) /\ Busy(p, t)
         /\ Apart(p) => Apart(t)
<1> DEFINE s == [p EXCEPT !.socket.secure = TRUE]
           t == OnSocketEncrypted(s)
<1>1. p \in Client /\ p.state \in States /\ p.socket \in Sockets
  BY DEF Sound, Known, Client
<1>2. /\ s \in Client /\ s.state = p.state /\ s.timers = p.timers /\ s.attempt = p.attempt
      /\ s.told = p.told /\ s.macro = p.macro /\ s.out = p.out /\ s.radio = p.radio /\ s.request = p.request /\ s.met = p.met
      /\ s.host = p.host /\ s.tail = p.tail /\ s.answered = p.answered
      /\ s.socket.st = "Connected" /\ s.socket.peer = p.socket.peer /\ s.socket.keyed = p.socket.keyed
      /\ s.socket.tls = p.socket.tls /\ s.socket.of = p.socket.of
  BY <1>1 DEF Client, Sockets
<1> HIDE DEF s
<1>3. Follows(p, s) /\ Queue(s) = Queue(p)
  BY <1>1, <1>2, SaysNothing
<1>4. Sound(s)
  BY <1>2, <1>3 DEF Sound, Known
<1>5. CASE p.state # "Connecting"
  <2>1. t = Abort(s)
    BY <1>2, <1>5 DEF OnSocketEncrypted
  <2>2. Sound(t) /\ Follows(s, t) /\ Busy(s, t) /\ t \in Client /\ (Apart(s) => Apart(t))
    <3>1. Sound(t) /\ Follows(s, t) /\ Busy(s, t) /\ (Apart(s) => Apart(t))
      BY <1>2, <1>4, <1>5, <2>1, Aborts
    <3>2. QED
      BY <3>1 DEF Sound, Known
  <2>3. Follows(p, t)
    BY <1>1, <1>2, <1>3, <2>2, FollowsOn
  <2>4. Busy(p, t)
    BY <1>2, <1>5, <2>2 DEF Busy
  <2>5. Apart(p) => Apart(s)
    BY <1>2, <1>3, <1>5, UnconnectedIs DEF Apart, Own, Untold, ToldAtMostOnce
  <2>6. QED
    BY <2>2, <2>3, <2>4, <2>5 DEF s
<1>6. CASE p.state = "Connecting"
  <2> DEFINE b == [s EXCEPT !.timers = s.timers \ {"Connect"}]
             a == SetState(b, "Authenticating")
             f == [a EXCEPT !.timers = a.timers \cup {"Auth"}]
  <2>1. t = f
    BY <1>2, <1>6 DEF OnSocketEncrypted, Stop, Start
  <2>2. s.timers \ {"Connect"} \in SUBSET Timers
    BY <1>2 DEF Client
  <2>3. /\ Sound(b) /\ Follows(s, b) /\ b \in Client /\ b.timers = s.timers \ {"Connect"}
        /\ b.state = "Connecting" /\ b.socket = s.socket /\ b.attempt = s.attempt /\ b.told = s.told
        /\ b.macro = s.macro
    <3>1. /\ Sound(b) /\ Follows(s, b) /\ b.timers = s.timers \ {"Connect"}
          /\ b.state = s.state /\ b.socket = s.socket /\ b.attempt = s.attempt /\ b.told = s.told
          /\ b.macro = s.macro
      <4>1. "Ping" \in s.timers \ {"Connect"} <=> "Ping" \in s.timers
        OBVIOUS
      <4>2. s.state # "Authenticating"
        BY <1>2, <1>6
      <4>3. QED
        BY <1>4, <2>2, <4>1, <4>2, TimersChange
    <3>2. b \in Client
      BY <3>1 DEF Sound, Known
    <3>3. QED
      BY <1>2, <1>6, <3>1, <3>2
  <2>4. b.host = s.host /\ b.radio = s.radio /\ b.request = s.request /\ b.met = s.met /\ b.tail = s.tail /\ b.answered = s.answered
    BY <1>2 DEF Client
  <2> HIDE DEF b
  <2>5. "Authenticating" \in States
    BY DEF States
  <2>6. /\ a \in Client /\ a = [b EXCEPT !.state = "Authenticating", !.out = a.out] /\ Follows(b, a)
        /\ Tells(Queue(a), "Authenticating") /\ ~TellsReady(Queue(a))
    BY <2>3, <2>5, StateSet DEF Sound
  <2> HIDE DEF a
  <2>7. /\ a.state = "Authenticating" /\ a.timers = b.timers /\ a.socket = s.socket /\ a.attempt = s.attempt
        /\ a.told = s.told /\ a.macro = s.macro /\ a.radio = s.radio /\ a.host = s.host /\ a.request = s.request /\ a.met = s.met
        /\ a.tail = s.tail /\ a.answered = s.answered
    BY <2>3, <2>4, <2>6 DEF Client
  <2>8. a.timers \cup {"Auth"} \in SUBSET Timers
    BY <2>6 DEF Client, Timers
  <2>9. /\ f \in Client /\ f.state = "Authenticating" /\ f.timers = b.timers \cup {"Auth"} /\ f.socket = s.socket
        /\ f.told = s.told /\ f.radio = s.radio /\ f.host = s.host /\ f.request = s.request /\ f.met = s.met /\ f.macro = s.macro
        /\ f.tail = s.tail /\ f.answered = s.answered /\ f.out = a.out /\ f.attempt = s.attempt
    BY <2>6, <2>7, <2>8 DEF Client
  <2> HIDE DEF f
  <2>10. Follows(a, f) /\ Queue(f) = Queue(a)
    BY <2>6, <2>7, <2>9, SaysNothing
  <2>11. "Ping" \notin f.timers
    BY <1>2, <1>4, <1>6, <2>3, <2>9 DEF Sound
  <2>12. Sound(f)
    <3>1. ~f.answered
      BY <1>2, <1>6, <2>9 DEF Sound
    <3>2. QED
      BY <1>2, <1>4, <2>6, <2>9, <2>10, <2>11, <3>1 DEF Sound, Known
  <2>13. Follows(p, f)
    <3>1. Follows(p, b)
      BY <1>1, <1>2, <1>3, <2>3, FollowsOn
    <3>2. Follows(p, a)
      BY <1>1, <2>3, <2>6, <3>1, FollowsOn
    <3>3. QED
      BY <1>1, <2>6, <2>9, <2>10, <3>2, FollowsOn
  <2>14. Apart(p) => Apart(f)
    <3>1. Apart(p) => (f.met # "Retry" => "Retry" \notin f.timers)
      BY <1>2, <2>3, <2>9, UnconnectedIs DEF Apart
    <3>2. (Own(f) <=> Own(p)) /\ (Untold(f) <=> Untold(p)) /\ (ToldAtMostOnce(f) <=> ToldAtMostOnce(p))
      BY <1>2, <2>9 DEF Own, Untold, ToldAtMostOnce
    <3>3. QED
      BY <1>2, <1>6, <2>9, <2>13, <3>1, <3>2 DEF Apart, Follows
  <2>15. QED
    BY <2>1, <2>9, <2>12, <2>13, <2>14 DEF Busy, s
<1>7. QED
  BY <1>5, <1>6

-----------------------------------------------------------------------------
(* The main thread. *)

\* Whatever it hears, at most one packet is heard between two sessions.
LEMMA LateHeard ==
  ASSUME signals \in Seq(Signals), signals # <<>>, signals' = Tail(signals), Late(signals),
         main \in [state : States, ready : BOOLEAN, late : Nat],
         \/ Head(signals) \notin StateSignals \cup DataSignals /\ main'.state = main.state /\ main'.late = main.late
         \/ /\ Head(signals) \in StateSignals /\ main'.state = Head(signals).state
            /\ main'.late = IF main'.state = "Connected" THEN 0 ELSE main.late
         \/ /\ Head(signals) \in DataSignals /\ main'.state = main.state
            /\ main'.late = IF main.state = "Connected" THEN 0 ELSE main.late + 1
  PROVE  Late(signals)'
<1> DEFINE q == signals
           t == Tail(signals)
<1>1. /\ Len(q) \in Nat \ {0} /\ Head(q) = q[1] /\ Len(t) = Len(q) - 1 /\ q[1] \in Signals
      /\ \A i \in 1 .. Len(t) : t[i] = q[i + 1]
  OBVIOUS
<1> HIDE DEF q, t
<1>2. \A i \in 1 .. Len(t) : i + 1 \in 1 .. Len(q) /\ t[i] = q[i + 1]
  BY <1>1
<1>3. ASSUME NEW i \in 0 .. Len(t), NEW k \in 1 .. Len(t), Begins(q, i + 1, k + 1)
      PROVE  Begins(t, i, k)
  <2>1. PICK n \in (i + 1) + 1 .. (k + 1) - 1 : q[n] \in InSession
    BY <1>3 DEF Begins
  <2>2. n - 1 \in i + 1 .. k - 1 /\ n - 1 \in 1 .. Len(t) /\ (n - 1) + 1 = n
    BY <1>1, <1>3, <2>1
  <2>3. QED
    BY <1>2, <2>1, <2>2 DEF Begins
<1>4. ASSUME NEW k \in 1 .. Len(t), Begins(q, 0, k + 1), q[1] \notin InSession
      PROVE  Begins(t, 0, k)
  <2>1. PICK n \in 0 + 1 .. (k + 1) - 1 : q[n] \in InSession
    BY <1>4 DEF Begins
  <2>2. n # 1
    BY <1>4, <2>1
  <2>3. n - 1 \in 0 + 1 .. k - 1 /\ n - 1 \in 1 .. Len(t) /\ (n - 1) + 1 = n
    BY <1>1, <2>1, <2>2
  <2>4. QED
    BY <1>2, <2>1, <2>3 DEF Begins
<1>5. ASSUME NEW i \in 1 .. Len(t), NEW j \in 1 .. Len(t), NEW k \in 1 .. Len(t),
             t[i] \in OutOfSession, t[j] \in DataSignals, t[k] \in DataSignals, i < j, j < k
      PROVE  Begins(t, i, k)
  <2>1. Begins(q, i + 1, k + 1)
    <3>1. i + 1 \in 1 .. Len(q) /\ j + 1 \in 1 .. Len(q) /\ k + 1 \in 1 .. Len(q) /\ i + 1 < j + 1 /\ j + 1 < k + 1
      BY <1>1, <1>5
    <3>2. QED
      BY <1>2, <1>5, <3>1 DEF Late, q
  <2>2. QED
    BY <1>1, <1>3, <2>1
<1>6. InSession \cap DataSignals = {} /\ InSession \subseteq StateSignals /\ StateSignals \cap DataSignals = {}
      /\ \A m \in StateSignals : m \in InSession <=> m.state = "Connected"
  BY DEF InSession, DataSignals, StateSignals, StateSignal, Signals, States
\* What holds of two packets, one of which may have been heard already.
<1>7. ASSUME main'.state # "Connected", NEW k \in 1 .. Len(t), t[k] \in DataSignals,
             main'.late # 0 \/ \E j \in 1 .. Len(t) : t[j] \in DataSignals /\ j < k
      PROVE  Begins(t, 0, k)
  <2>1. k + 1 \in 1 .. Len(q) /\ q[k + 1] \in DataSignals /\ 1 \in 1 .. Len(q) /\ 1 < k + 1 /\ 0 \in 0 .. Len(t)
    <3>1. k + 1 \in 1 .. Len(q) /\ q[k + 1] \in DataSignals
      BY <1>2, <1>7
    <3>2. 1 \in 1 .. Len(q) /\ 1 < k + 1 /\ 0 \in 0 .. Len(t)
      BY <1>1
    <3>3. QED
      BY <3>1, <3>2
  <2>2. CASE main.state = "Connected"
    <3>1. q[1] \in OutOfSession /\ main'.late = 0
      <4>1. main'.state # main.state
        BY <1>7, <2>2
      <4>2. q[1] \in StateSignals /\ main'.state = q[1].state /\ main'.late = main.late
        BY <1>1, <1>6, <1>7, <4>1 DEF q
      <4>3. QED
        BY <1>6, <1>7, <2>2, <4>2 DEF OutOfSession, Late
    <3>2. PICK j \in 1 .. Len(t) : t[j] \in DataSignals /\ j < k
      BY <1>7, <3>1
    <3>3. j + 1 \in 1 .. Len(q) /\ q[j + 1] \in DataSignals /\ 1 < j + 1 /\ j + 1 < k + 1
      BY <1>1, <1>2, <3>2
    <3>4. Begins(q, 1, k + 1)
      BY <2>1, <3>1, <3>3 DEF Late, q
    <3>5. QED
      BY <1>3, <2>1, <3>4
  <2>3. CASE main.state # "Connected"
    <3>1. q[1] \notin InSession
      BY <1>1, <1>6, <1>7 DEF q
    <3>2. Begins(q, 0, k + 1)
      <4>1. CASE \E j \in 1 .. Len(t) : t[j] \in DataSignals /\ j < k
        <5>1. PICK j \in 1 .. Len(t) : t[j] \in DataSignals /\ j < k
          BY <4>1
        <5>2. j + 1 \in 1 .. Len(q) /\ q[j + 1] \in DataSignals /\ j + 1 < k + 1
          BY <1>1, <1>2, <5>1
        <5>3. QED
          BY <2>1, <2>3, <5>2 DEF Late, q
      <4>2. CASE main'.late # 0 /\ main.late # 0
        BY <2>1, <2>3, <4>2 DEF Late, q
      <4>3. CASE main'.late # 0 /\ main.late = 0
        <5>1. q[1] \in DataSignals
          BY <1>1, <1>7, <4>3 DEF q
        <5>2. QED
          BY <2>1, <2>3, <5>1 DEF Late, q
      <4>4. QED
        BY <1>7, <4>1, <4>2, <4>3
    <3>3. QED
      BY <1>4, <3>1, <3>2
  <2>4. QED
    BY <2>2, <2>3
<1>8. main'.state = "Connected" => main'.late = 0
  <2>1. CASE Head(signals) \in StateSignals
    BY <1>6, <2>1
  <2>2. CASE Head(signals) \notin StateSignals
    BY <2>2 DEF Late
  <2>3. QED
    BY <2>1, <2>2
<1>9. main'.late \in {0, 1}
  <2>1. CASE Head(signals) \in DataSignals /\ main.state # "Connected"
    <3>1. main.late = 0
      <4>1. SUFFICES ASSUME main.late # 0 PROVE FALSE
        OBVIOUS
      <4>2. Begins(q, 0, 1)
        BY <1>1, <2>1, <4>1 DEF Late, q
      <4>3. QED
        BY <4>2 DEF Begins
    <3>2. QED
      BY <1>6, <2>1, <3>1
  <2>2. CASE ~(Head(signals) \in DataSignals /\ main.state # "Connected")
    BY <1>6, <2>2 DEF Late
  <2>3. QED
    BY <2>1, <2>2
<1>10. QED
  <2>1. \A i, j, k \in 1 .. Len(t) :
          t[i] \in OutOfSession /\ t[j] \in DataSignals /\ t[k] \in DataSignals /\ i < j /\ j < k => Begins(t, i, k)
    BY <1>5
  <2>2. main'.state # "Connected" =>
          \A j, k \in 1 .. Len(t) : t[j] \in DataSignals /\ t[k] \in DataSignals /\ j < k => Begins(t, 0, k)
    BY <1>7
  <2>3. main'.state # "Connected" /\ main'.late # 0 =>
          \A k \in 1 .. Len(t) : t[k] \in DataSignals => Begins(t, 0, k)
    BY <1>7
  <2>4. signals' = t
    BY DEF t
  <2>5. QED
    BY <1>8, <1>9, <2>1, <2>2, <2>3, <2>4 DEF Late

-----------------------------------------------------------------------------
(* The calls. *)

LEMMA MacrosStay ==
  ASSUME MacrosInOrder, UNCHANGED <<calls, requests>>, requests \in Nat, tcp \in Client,
         tcp'.request = tcp.request, tcp'.macro \in {tcp.macro, 0}
  PROVE  MacrosInOrder'
<1>1. tcp.request \in Nat /\ tcp.macro \in Nat /\ \A n : NotBefore(0, n)
  BY DEF Client, NotBefore
<1>2. tcp'.macro <= requests /\ \A n : NotBefore(tcp.macro, n) => NotBefore(tcp'.macro, n)
  BY <1>1 DEF MacrosInOrder
<1>3. QED
  BY <1>1, <1>2 DEF MacrosInOrder

\* A call is taken: a macro is kept for the call behind it.
LEMMA MacrosTaken ==
  ASSUME MacrosInOrder, requests \in Nat, requests' = requests, tcp \in Client,
         calls \in Seq(Call), calls # <<>>, calls' = Tail(calls),
         \/ /\ Head(calls).kind = "Macro" /\ tcp'.macro = Head(calls).macro /\ tcp'.request = tcp.request
         \/ /\ Head(calls).kind = "Disconnect" /\ tcp'.macro \in {tcp.macro, 0} /\ tcp'.request = tcp.request
         \/ /\ Head(calls).kind = "Connect" /\ tcp'.macro \in {tcp.macro, 0} /\ tcp'.request = Head(calls).request
  PROVE  MacrosInOrder'
<1> DEFINE t == Tail(calls)
<1>1. /\ Len(calls) \in Nat \ {0} /\ Head(calls) = calls[1] /\ Len(t) = Len(calls) - 1 /\ calls[1] \in Call
      /\ \A i \in 1 .. Len(t) : t[i] = calls[i + 1]
  OBVIOUS
<1> HIDE DEF t
<1>2. /\ 1 \in 1 .. Len(calls)
      /\ \A i \in 1 .. Len(t) : i + 1 \in 1 .. Len(calls) /\ t[i] = calls[i + 1] /\ 1 < i + 1
  BY <1>1
<1>3. tcp.request \in Nat /\ tcp.macro \in Nat /\ \A n : NotBefore(0, n)
  BY DEF Client, NotBefore
<1>4. \A i \in 1 .. Len(t) : t[i].kind = "Macro" => t[i].macro <= requests /\ NotBefore(t[i].macro, tcp'.request)
  <2> SUFFICES ASSUME NEW i \in 1 .. Len(t), t[i].kind = "Macro"
               PROVE  t[i].macro <= requests /\ NotBefore(t[i].macro, tcp'.request)
    OBVIOUS
  <2>1. i + 1 \in 1 .. Len(calls) /\ t[i] = calls[i + 1] /\ 1 < i + 1 /\ 1 \in 1 .. Len(calls)
    BY <1>2
  <2>2. t[i].macro <= requests /\ NotBefore(t[i].macro, tcp.request)
    BY <2>1 DEF MacrosInOrder
  <2>3. calls[1].kind = "Connect" => NotBefore(t[i].macro, calls[1].request)
    BY <2>1 DEF MacrosInOrder
  <2>4. QED
    BY <1>1, <2>2, <2>3
<1>5. ASSUME NEW i \in 1 .. Len(t), NEW j \in 1 .. Len(t), i < j, t[i].kind = "Connect", t[j].kind = "Macro"
      PROVE  NotBefore(t[j].macro, t[i].request)
  <2>1. i + 1 \in 1 .. Len(calls) /\ j + 1 \in 1 .. Len(calls) /\ i + 1 < j + 1
    BY <1>1, <1>5
  <2>2. QED
    BY <1>2, <1>5, <2>1 DEF MacrosInOrder
<1>6. ASSUME NEW i \in 1 .. Len(t), t[i].kind = "Connect"
      PROVE  /\ t[i].request <= requests
             /\ IF i = 1 THEN NotBefore(tcp'.macro, t[1].request)
                ELSE t[i - 1].kind = "Macro" /\ NotBefore(t[i - 1].macro, t[i].request)
  <2>1. i + 1 \in 1 .. Len(calls) /\ i + 1 # 1 /\ (i + 1) - 1 = i /\ t[i] = calls[i + 1]
    BY <1>2
  <2>2. t[i].request <= requests /\ calls[i].kind = "Macro" /\ NotBefore(calls[i].macro, t[i].request)
    BY <1>6, <2>1 DEF MacrosInOrder
  <2>3. CASE i = 1
    BY <1>1, <2>2, <2>3
  <2>4. CASE i # 1
    <3>1. i - 1 \in 1 .. Len(t) /\ (i - 1) + 1 = i
      BY <1>1, <2>4
    <3>2. t[i - 1] = calls[i]
      BY <1>1, <3>1
    <3>3. QED
      BY <2>2, <2>4, <3>2
  <2>5. QED
    BY <2>3, <2>4
<1>7. NotBefore(tcp'.macro, tcp'.request) /\ tcp'.macro <= requests /\ tcp'.request <= requests
  <2>1. CASE calls[1].kind = "Macro"
    BY <1>1, <1>2, <2>1 DEF MacrosInOrder
  <2>2. CASE calls[1].kind = "Disconnect"
    BY <1>1, <1>3, <2>2 DEF MacrosInOrder
  <2>3. CASE calls[1].kind = "Connect"
    BY <1>1, <1>2, <1>3, <2>3 DEF MacrosInOrder
  <2>4. QED
    BY <1>1, <2>1, <2>2, <2>3
<1>8. calls' = t
  BY DEF t
<1>9. QED
  BY <1>4, <1>5, <1>6, <1>7, <1>8 DEF MacrosInOrder

\* A request is queued behind those before it.
LEMMA MacrosAdded ==
  ASSUME MacrosInOrder, requests \in Nat, requests' = requests + 1, UNCHANGED tcp, tcp \in Client,
         calls \in Seq(Call), NEW c \in Call,
         \/ calls' = Append(calls, c) /\ c.kind = "Disconnect"
         \/ \E m \in Call :
              /\ calls' = Append(Append(calls, m), c)
              /\ m.kind = "Macro" /\ m.macro \in {0, requests + 1}
              /\ c.kind = "Connect" /\ c.request = requests + 1
  PROVE  MacrosInOrder' /\ calls' \in Seq(Call)
<1> DEFINE n == requests + 1
<1>1. Len(calls) \in Nat /\ tcp.request \in Nat /\ tcp.macro \in Nat
  BY DEF Client
<1>2. \A i \in 1 .. Len(calls) : calls[i] \in Call
  OBVIOUS
<1>3. tcp.macro <= requests /\ tcp.request <= requests /\ NotBefore(tcp.macro, tcp.request)
  BY DEF MacrosInOrder
<1>4. \A i \in 1 .. Len(calls) : calls[i].kind = "Connect" => calls[i].request \in Nat /\ calls[i].request <= requests
  BY <1>2 DEF MacrosInOrder, Call
<1>5. \A i \in 1 .. Len(calls) : calls[i].kind = "Macro" => calls[i].macro \in Nat /\ calls[i].macro <= requests
  BY <1>2 DEF MacrosInOrder, Call
<1>6. CASE calls' = Append(calls, c) /\ c.kind = "Disconnect"
  <2> DEFINE t == Append(calls, c)
  <2>1. /\ t \in Seq(Call) /\ Len(t) = Len(calls) + 1 /\ t[Len(calls) + 1] = c
        /\ \A i \in 1 .. Len(calls) : t[i] = calls[i]
    BY AppendProperties
  <2> HIDE DEF t
  <2>2. \A i \in 1 .. Len(t) : t[i].kind \in {"Macro", "Connect"} => i \in 1 .. Len(calls) /\ t[i] = calls[i]
    BY <1>1, <1>6, <2>1
  <2>3. \A i \in 1 .. Len(calls) : i # 1 => i - 1 \in 1 .. Len(calls)
    BY <1>1
  <2>4. /\ \A i \in 1 .. Len(t) : t[i].kind = "Macro" => t[i].macro <= n /\ NotBefore(t[i].macro, tcp.request)
        /\ \A i, j \in 1 .. Len(t) : i < j /\ t[i].kind = "Connect" /\ t[j].kind = "Macro" =>
             NotBefore(t[j].macro, t[i].request)
    <3>1. ASSUME NEW i \in 1 .. Len(t), t[i].kind = "Macro"
          PROVE  t[i].macro <= n /\ NotBefore(t[i].macro, tcp.request)
      <4>1. calls[i].kind = "Macro" /\ t[i].macro \in Nat /\ t[i].macro <= requests
        BY <1>5, <2>2, <3>1
      <4>2. NotBefore(t[i].macro, tcp.request)
        BY <2>2, <3>1 DEF MacrosInOrder
      <4>3. QED
        BY <4>1, <4>2
    <3>2. ASSUME NEW i \in 1 .. Len(t), NEW j \in 1 .. Len(t), i < j, t[i].kind = "Connect", t[j].kind = "Macro"
          PROVE  NotBefore(t[j].macro, t[i].request)
      BY <2>2, <3>2 DEF MacrosInOrder
    <3>3. QED
      BY <3>1, <3>2
  <2>5. \A i \in 1 .. Len(t) : t[i].kind = "Connect" =>
          /\ t[i].request <= n
          /\ IF i = 1 THEN NotBefore(tcp.macro, t[1].request)
             ELSE t[i - 1].kind = "Macro" /\ NotBefore(t[i - 1].macro, t[i].request)
    <3> SUFFICES ASSUME NEW i \in 1 .. Len(t), t[i].kind = "Connect"
                 PROVE  /\ t[i].request <= n
                        /\ IF i = 1 THEN NotBefore(tcp.macro, t[1].request)
                           ELSE t[i - 1].kind = "Macro" /\ NotBefore(t[i - 1].macro, t[i].request)
      OBVIOUS
    <3>1. i \in 1 .. Len(calls) /\ t[i] = calls[i] /\ t[i].request <= n
      BY <1>4, <2>2
    <3>2. i # 1 => t[i - 1] = calls[i - 1]
      BY <2>1, <2>3, <3>1
    <3>3. QED
      BY <3>1, <3>2 DEF MacrosInOrder
  <2>6. calls' = t
    BY <1>6 DEF t
  <2>7. QED
    BY <1>1, <1>3, <2>1, <2>4, <2>5, <2>6 DEF MacrosInOrder
<1>7. CASE \E m \in Call : /\ calls' = Append(Append(calls, m), c)
                           /\ m.kind = "Macro" /\ m.macro \in {0, requests + 1}
                           /\ c.kind = "Connect" /\ c.request = requests + 1
  <2>1. PICK m \in Call : /\ calls' = Append(Append(calls, m), c)
                          /\ m.kind = "Macro" /\ m.macro \in {0, requests + 1}
                          /\ c.kind = "Connect" /\ c.request = requests + 1
    BY <1>7
  <2> DEFINE b == Append(calls, m)
             t == Append(b, c)
             L == Len(calls)
  <2>2. /\ b \in Seq(Call) /\ Len(b) = L + 1 /\ b[L + 1] = m
        /\ \A i \in 1 .. L : b[i] = calls[i]
    BY AppendProperties
  <2> HIDE DEF b
  <2>3. /\ t \in Seq(Call) /\ Len(t) = Len(b) + 1 /\ t[Len(b) + 1] = c
        /\ \A i \in 1 .. Len(b) : t[i] = b[i]
    BY <2>2, AppendProperties
  <2> HIDE DEF t
  <2>4. /\ Len(t) = L + 2 /\ t[L + 1] = m /\ t[L + 2] = c
        /\ \A i \in 1 .. L : t[i] = calls[i]
    BY <1>1, <2>2, <2>3
  <2> HIDE DEF L
  <2>5. L \in Nat /\ L = Len(calls)
    BY <1>1 DEF L
  <2>6. \A i \in 1 .. Len(t) : t[i].kind = "Macro" => (i \in 1 .. L /\ t[i] = calls[i]) \/ (i = L + 1 /\ t[i] = m)
    BY <2>1, <2>4, <2>5
  <2>7. \A i \in 1 .. Len(t) : t[i].kind = "Connect" => (i \in 1 .. L /\ t[i] = calls[i]) \/ (i = L + 2 /\ t[i] = c)
    BY <2>1, <2>4, <2>5
  <2>8. \A k \in Nat : k <= n => NotBefore(m.macro, k)
    BY <2>1 DEF NotBefore
  <2>9. \A i \in 1 .. Len(t) : t[i].kind = "Macro" => t[i].macro <= n /\ NotBefore(t[i].macro, tcp.request)
    <3> SUFFICES ASSUME NEW i \in 1 .. Len(t), t[i].kind = "Macro"
                 PROVE  t[i].macro <= n /\ NotBefore(t[i].macro, tcp.request)
      OBVIOUS
    <3>1. CASE i \in 1 .. L /\ t[i] = calls[i]
      BY <1>5, <2>5, <3>1 DEF MacrosInOrder
    <3>2. CASE i = L + 1 /\ t[i] = m
      BY <1>1, <1>3, <2>1, <2>8, <3>2
    <3>3. QED
      BY <2>6, <3>1, <3>2
  <2>10. ASSUME NEW i \in 1 .. Len(t), NEW j \in 1 .. Len(t), i < j, t[i].kind = "Connect", t[j].kind = "Macro"
         PROVE  NotBefore(t[j].macro, t[i].request)
    <3>1. i \in 1 .. L /\ t[i] = calls[i]
      BY <2>4, <2>5, <2>6, <2>7, <2>10
    <3>2. CASE j \in 1 .. L /\ t[j] = calls[j]
      BY <2>5, <2>10, <3>1, <3>2 DEF MacrosInOrder
    <3>3. CASE j = L + 1 /\ t[j] = m
      <4>1. t[i].request \in Nat /\ t[i].request <= n
        BY <1>4, <2>5, <2>10, <3>1
      <4>2. QED
        BY <2>8, <3>3, <4>1
    <3>4. QED
      BY <2>6, <2>10, <3>2, <3>3
  <2>11. ASSUME NEW i \in 1 .. Len(t), t[i].kind = "Connect"
         PROVE  /\ t[i].request <= n
                /\ IF i = 1 THEN NotBefore(tcp.macro, t[1].request)
                   ELSE t[i - 1].kind = "Macro" /\ NotBefore(t[i - 1].macro, t[i].request)
    <3>1. CASE i \in 1 .. L /\ t[i] = calls[i]
      <4>1. i # 1 => i - 1 \in 1 .. L
        BY <2>5, <3>1
      <4>2. i # 1 => t[i - 1] = calls[i - 1]
        BY <2>4, <4>1
      <4>3. t[i].request <= n
        BY <1>4, <2>5, <2>11, <3>1
      <4>4. QED
        BY <2>5, <2>11, <3>1, <4>2, <4>3 DEF MacrosInOrder
    <3>2. CASE i = L + 2 /\ t[i] = c
      <4>1. i # 1 /\ i - 1 = L + 1 /\ n \in Nat /\ t[i].request = n
        BY <2>1, <2>5, <3>2
      <4>2. NotBefore(m.macro, n)
        BY <2>8, <4>1
      <4>3. QED
        BY <2>1, <2>4, <3>2, <4>1, <4>2
    <3>3. QED
      BY <2>7, <2>11, <3>1, <3>2
  <2>12. calls' = t
    BY <2>1 DEF t, b
  <2>13. QED
    BY <1>1, <1>3, <2>3, <2>9, <2>10, <2>11, <2>12 DEF MacrosInOrder
<1>8. QED
  BY <1>6, <1>7

-----------------------------------------------------------------------------
(* What a handler leaves becomes the client. *)

LEMMA Becoming ==
  ASSUME signals \in Seq(Signals), NEW s, Sound(s), Becomes(s), UNCHANGED main
  PROVE  /\ tcp' \in Client /\ Sound(tcp)' /\ tcp'.out = <<>> /\ (Apart(s) => Apart(tcp)')
         /\ tcp'.state = s.state /\ tcp'.attempt = s.attempt /\ tcp'.radio = s.radio /\ tcp'.host = s.host
         /\ tcp'.timers = s.timers /\ tcp'.socket = s.socket /\ tcp'.macro = s.macro
         /\ tcp'.request = s.request /\ tcp'.told = s.told /\ tcp'.tail = s.tail /\ tcp'.met = s.met
<1>1. s \in Client /\ s.out \in Seq(Signals) /\ <<>> \in Seq(Signals)
  BY DEF Sound, Known, Client
<1> DEFINE u == [s EXCEPT !.out = <<>>]
<1>2. /\ u \in Client /\ u.out = <<>> /\ u.state = s.state /\ u.attempt = s.attempt /\ u.radio = s.radio
      /\ u.host = s.host /\ u.timers = s.timers /\ u.socket = s.socket /\ u.macro = s.macro /\ u.tail = s.tail
      /\ u.request = s.request /\ u.met = s.met /\ u.told = s.told /\ u.answered = s.answered
  BY <1>1 DEF Client
<1> HIDE DEF u
<1>3. tcp' = u /\ signals' = signals \o s.out
  BY DEF Becomes, u
<1>4. signals' \in Seq(Signals) /\ signals' \o <<>> = signals'
  BY <1>1, <1>3
<1>5. Queue(tcp)' = Queue(s)
  BY <1>2, <1>3, <1>4 DEF Queue
<1>6. /\ \A st : Tells(Queue(tcp), st)' <=> Tells(Queue(s), st)
      /\ TellsReady(Queue(tcp))' <=> TellsReady(Queue(s))
      /\ Late(Queue(tcp))' <=> Late(Queue(s))
  <2>1. \A st : Tells(Queue(tcp), st)' <=> Tells(Queue(s), st)
    BY <1>5 DEF Tells
  <2>2. TellsReady(Queue(tcp))' <=> TellsReady(Queue(s))
    BY <1>5 DEF TellsReady
  <2>3. Late(Queue(tcp))' <=> Late(Queue(s))
    BY <1>5 DEF Late
  <2>4. QED
    BY <2>1, <2>2, <2>3
<1>7. Known(tcp)'
  BY <1>2, <1>3, <1>4, <1>6 DEF Sound, Known
<1>8. Sound(tcp)'
  BY <1>2, <1>3, <1>6, <1>7 DEF Sound
<1>9. Apart(s) => Apart(tcp)'
  BY <1>2, <1>3, <1>6 DEF Apart, Own, Untold, ToldAtMostOnce
<1>10. QED
  BY <1>2, <1>3, <1>8, <1>9

\* A step of the I/O thread.
LEMMA Continues ==
  ASSUME IInv, NEW s, Sound(s), Becomes(s), UNCHANGED <<requests, main>>,
         lookups' \subseteq [attempt : Nat, radio : Mdns],
         lookups' \subseteq lookups \cup {[attempt |-> s.attempt, radio |-> s.radio]},
         calls' \in Seq(Call), MacrosInOrder',
         tcp.attempt <= s.attempt /\ (tcp.attempt = s.attempt => s.radio = tcp.radio),
         s.state = "Connecting" => Due(s) \/ \E l \in lookups' : l.attempt = s.attempt
  PROVE  /\ IInv'
         /\ Apart(s) /\ (\A l \in lookups' : Waiting(s, l)) => AttemptsApart'
<1>1. /\ signals \in Seq(Signals) /\ tcp \in Client /\ s \in Client
      /\ tcp.attempt \in Nat /\ s.attempt \in Nat
  BY DEF IInv, Sound, Known, Client
<1>2. /\ Sound(tcp)' /\ tcp'.out = <<>> /\ (Apart(s) => Apart(tcp)')
      /\ tcp'.state = s.state /\ tcp'.attempt = s.attempt /\ tcp'.radio = s.radio
      /\ tcp'.timers = s.timers /\ tcp'.socket = s.socket /\ tcp'.met = s.met
  BY <1>1, Becoming
<1>3. IInv'
  <2>1. Due(tcp)' <=> Due(s)
    BY <1>2 DEF Due
  <2>2. tcp'.state = "Connecting" => Due(tcp)' \/ \E l \in lookups' : l.attempt = tcp'.attempt
    BY <1>2, <2>1
  <2>3. \A l \in lookups' : l.attempt <= tcp'.attempt /\ (l.attempt = tcp'.attempt => l.radio = tcp'.radio)
    <3> SUFFICES ASSUME NEW l \in lookups'
                 PROVE  l.attempt <= s.attempt /\ (l.attempt = s.attempt => l.radio = s.radio)
      BY <1>2
    <3>1. CASE l \in lookups
      <4>1. l.attempt \in Nat /\ l.attempt <= tcp.attempt /\ (l.attempt = tcp.attempt => l.radio = tcp.radio)
        BY <3>1 DEF IInv
      <4>2. l.attempt <= s.attempt /\ (l.attempt = s.attempt => tcp.attempt = s.attempt /\ l.attempt = tcp.attempt)
        BY <1>1, <4>1
      <4>3. QED
        BY <4>1, <4>2
    <3>2. CASE l = [attempt |-> s.attempt, radio |-> s.radio]
      BY <1>1, <3>2
    <3>3. QED
      BY <3>1, <3>2
  <2>4. QED
    BY <1>2, <2>2, <2>3 DEF IInv
<1>4. ASSUME Apart(s), \A l \in lookups' : Waiting(s, l)
      PROVE  AttemptsApart'
  BY <1>2, <1>4 DEF AttemptsApart, Waiting
<1>5. QED
  BY <1>3, <1>4

\* The attempt has had its address: it has a socket, or waits to call again, or a leftover retry does.
Calling == tcp.met = "Retry" \/ tcp.socket.st \in {"Connecting", "Connected"} \/ "Retry" \in tcp.timers

\* The event is nothing to the attempt.
StillWaiting(s) == s.socket = tcp.socket /\ ("Retry" \in s.timers => "Retry" \in tcp.timers)

\* An event of the socket or of a timer.
LEMMA EventKeeps ==
  ASSUME IInv, NEW s, Sound(s), Keeps(tcp, s), Busy(tcp, s), Event(s)
  PROVE  /\ IInv'
         /\ /\ AttemptsApart /\ Apart(s)
            /\ s.state = "Connecting" => Calling \/ StillWaiting(s)
            => AttemptsApart'
<1>1. /\ Becomes(s) /\ lookups' = lookups /\ calls' = calls /\ UNCHANGED <<requests, main>>
      /\ s.radio = tcp.radio /\ tcp.attempt <= s.attempt /\ s.request = tcp.request /\ s.macro \in {tcp.macro, 0}
      /\ s.met = tcp.met
  BY DEF Event, IoOnly, Keeps
<1>2. /\ signals \in Seq(Signals) /\ tcp \in Client /\ calls \in Seq(Call) /\ requests \in Nat /\ MacrosInOrder
  BY DEF IInv, Sound, Known
<1>3. tcp'.request = s.request /\ tcp'.macro = s.macro
  BY <1>1, <1>2, Becoming
<1>4. MacrosInOrder'
  BY <1>1, <1>2, <1>3, MacrosStay
<1>5. s.state = "Connecting" => tcp.state = "Connecting" /\ (Due(s) \/ \E l \in lookups' : l.attempt = s.attempt)
  BY <1>1 DEF IInv, Busy
<1>6. lookups' \subseteq [attempt : Nat, radio : Mdns] /\ calls' \in Seq(Call)
  BY <1>1, <1>2 DEF IInv
<1>7. IInv' /\ (Apart(s) /\ (\A l \in lookups' : Waiting(s, l)) => AttemptsApart')
  BY <1>1, <1>4, <1>5, <1>6, Continues
<1>8. ASSUME AttemptsApart, s.state = "Connecting" => Calling \/ StillWaiting(s), NEW l \in lookups'
      PROVE  Waiting(s, l)
  <2> SUFFICES ASSUME l.attempt = s.attempt, s.state = "Connecting", tcp.met # "Retry"
               PROVE  s.socket.st \in {"Unconnected", "Closing"} /\ "Retry" \notin s.timers
    BY <1>1 DEF Waiting
  <2>1. l \in lookups /\ l.attempt \in Nat /\ tcp.attempt \in Nat /\ l.attempt <= tcp.attempt
    BY <1>1, <1>2 DEF IInv, Client
  <2>2. l.attempt = tcp.attempt
    BY <1>1, <2>1
  <2>3. tcp.socket.st \in {"Unconnected", "Closing"} /\ "Retry" \notin tcp.timers
    BY <1>5, <1>8, <2>1, <2>2 DEF AttemptsApart, Waiting
  <2>4. QED
    BY <1>8, <2>3 DEF Calling, StillWaiting
<1>9. QED
  BY <1>7, <1>8

-----------------------------------------------------------------------------
(* The socket's events. *)

LEMMA ClientIs ==
  ASSUME IInv
  PROVE  /\ Sound(tcp) /\ Known(tcp) /\ tcp \in Client /\ signals \in Seq(Signals) /\ tcp.attempt \in Nat
         /\ tcp.timers \in SUBSET Timers /\ tcp.socket \in Sockets
BY DEF IInv, Sound, Known, Client

LEMMA FollowsKeeps ==
  ASSUME NEW s, NEW t, Follows(s, t)
  PROVE  Keeps(s, t)
BY DEF Follows, Keeps

LEMMA SocketConnectsKeeps ==
  ASSUME IInv, SocketConnects
  PROVE  IInv' /\ (AttemptsApart => AttemptsApart')
<1> DEFINE S(fails) == OnSocketConnected([tcp EXCEPT !.socket.st = "Connected"], fails)
<1>1. PICK fails \in BOOLEAN : Event(S(fails))
  BY DEF SocketConnects
<1>2. tcp.socket.st = "Connecting" /\ tcp.socket # Unconnected
  BY UnconnectedIs DEF SocketConnects
<1>3. Sound(S(fails)) /\ Follows(tcp, S(fails)) /\ Busy(tcp, S(fails)) /\ (Apart(tcp) => Apart(S(fails)))
  BY <1>2, ClientIs, Connects
<1> HIDE DEF S
<1>4. Keeps(tcp, S(fails))
  BY <1>3, FollowsKeeps
<1>5. QED
  BY <1>1, <1>2, <1>3, <1>4, EventKeeps DEF AttemptsApart, Calling

\* The key given out is the radio's the socket calls.
LEMMA KeyGivenKeeps ==
  ASSUME IInv, OnPreSharedKeyAuthenticationRequired
  PROVE  IInv' /\ (AttemptsApart => AttemptsApart')
<1> DEFINE s == [tcp EXCEPT !.socket.keyed = tcp.radio]
<1>1. Sound(tcp) /\ Known(tcp) /\ tcp \in Client /\ tcp.socket \in Sockets /\ tcp.radio \in Radios \cup {Nobody}
  BY ClientIs DEF Client
<1>2. Event(s) /\ tcp.socket.st = "Connected" /\ tcp.socket.tls /\ tcp.socket # Unconnected
  BY UnconnectedIs DEF OnPreSharedKeyAuthenticationRequired, Handshaking
<1>3. [tcp.socket EXCEPT !.keyed = tcp.radio] \in Sockets
  BY <1>1 DEF Sockets
<1>4. /\ s \in Client /\ s.state = tcp.state /\ s.timers = tcp.timers /\ s.attempt = tcp.attempt
      /\ s.told = tcp.told /\ s.macro = tcp.macro /\ s.out = tcp.out /\ s.radio = tcp.radio
      /\ s.request = tcp.request /\ s.host = tcp.host /\ s.tail = tcp.tail /\ s.answered = tcp.answered
      /\ s.met = tcp.met /\ s.socket = [tcp.socket EXCEPT !.keyed = tcp.radio]
  BY <1>1, <1>3 DEF Client
<1>5. /\ s.socket.st = tcp.socket.st /\ s.socket.peer = tcp.socket.peer /\ s.socket.keyed = tcp.radio
      /\ s.socket.tls = tcp.socket.tls /\ s.socket.secure = tcp.socket.secure /\ s.socket.of = tcp.socket.of
  BY <1>1, <1>4 DEF Sockets
<1> HIDE DEF s
<1>6. Follows(tcp, s) /\ Queue(s) = Queue(tcp)
  BY <1>1, <1>4, SaysNothing
<1>7. Sound(s)
  BY <1>1, <1>4, <1>5, <1>6 DEF Sound, Known
<1>8. Keeps(tcp, s) /\ Busy(tcp, s)
  BY <1>4, <1>6, FollowsKeeps DEF Busy, Due
<1>9. Apart(tcp) => Apart(s)
  <2>1. (Own(s) <=> Own(tcp)) /\ (Untold(s) <=> Untold(tcp)) /\ (ToldAtMostOnce(s) <=> ToldAtMostOnce(tcp))
    BY <1>4, <1>5 DEF Own, Untold, ToldAtMostOnce
  <2>2. QED
    BY <1>2, <1>4, <1>5, <1>6, <2>1 DEF Apart
<1>10. QED
  BY <1>2, <1>7, <1>8, <1>9, EventKeeps DEF AttemptsApart, Calling

LEMMA SocketEncryptsKeeps ==
  ASSUME IInv, SocketEncrypts
  PROVE  IInv' /\ (AttemptsApart => AttemptsApart')
<1> DEFINE s == OnSocketEncrypted([tcp EXCEPT !.socket.secure = TRUE])
<1>1. Event(s) /\ tcp.socket.st = "Connected" /\ tcp.socket.tls /\ ~tcp.socket.secure /\ tcp.socket # Unconnected
  BY UnconnectedIs DEF SocketEncrypts, Handshaking
<1>2. Sound(s) /\ Follows(tcp, s) /\ Busy(tcp, s) /\ (Apart(tcp) => Apart(s))
  BY <1>1, ClientIs, Encrypts
<1> HIDE DEF s
<1>3. Keeps(tcp, s)
  BY <1>2, FollowsKeeps
<1>4. QED
  BY <1>1, <1>2, <1>3, EventKeeps DEF AttemptsApart, Calling

\* The network may be lost in mid-handshake: the retry then outlives its attempt.
LEMMA SocketFailsKeeps ==
  ASSUME IInv, NEW e \in Errors, SocketFails(e)
  PROVE  IInv' /\ (AttemptsApart => AttemptsApart')
<1> DEFINE s == SocketError(tcp, e)
<1>1. Event(s) /\ tcp.socket.st # "Unconnected" /\ tcp.socket \in Sockets
  BY ClientIs DEF SocketFails
<1>2. /\ Sound(s) /\ Follows(tcp, s) /\ Busy(tcp, s) /\ (Apart(tcp) => Apart(s))
      /\ tcp.socket.st = "Closing" => s.state = "Disconnected"
  BY ClientIs, SocketFailed DEF Up
<1> HIDE DEF s
<1>3. Keeps(tcp, s)
  BY <1>2, FollowsKeeps
<1>4. tcp.socket.st \in {"Connecting", "Connected", "Closing"}
  BY <1>1 DEF Sockets
<1>5. QED
  BY <1>1, <1>2, <1>3, <1>4, EventKeeps DEF AttemptsApart, Calling

\* A socket that closes of itself does what abort() does to one that is up.
LEMMA SocketClosesKeeps ==
  ASSUME IInv, SocketCloses
  PROVE  IInv' /\ (AttemptsApart => AttemptsApart')
<1> DEFINE s == Abort(tcp)
<1>1. Up(tcp.socket)
  BY DEF SocketCloses
<1>2. Event(s)
  BY <1>1 DEF SocketCloses, Abort
<1>3. /\ Sound(s) /\ Follows(tcp, s) /\ Busy(tcp, s) /\ (Apart(tcp) => Apart(s))
      /\ (tcp.state # "Disconnected" /\ Ended(tcp, s)) \/ (tcp.state = "Disconnected" /\ s = [tcp EXCEPT !.socket = Unconnected])
  BY <1>1, ClientIs, Aborts
<1> HIDE DEF s
<1>4. Keeps(tcp, s)
  BY <1>3, FollowsKeeps
<1>5. s.state = "Disconnected"
  BY <1>3, ClientIs DEF Ended, Client
<1>6. QED
  BY <1>1, <1>2, <1>3, <1>4, <1>5, EventKeeps DEF AttemptsApart, Calling

LEMMA SocketReadsKeeps ==
  ASSUME IInv, SocketReads
  PROVE  IInv' /\ (AttemptsApart => AttemptsApart')
<1> DEFINE S(packet, part, fails) == OnReadyRead(tcp, packet, part, fails)
<1>1. PICK packet \in BOOLEAN, part \in BOOLEAN, fails \in BOOLEAN : Event(S(packet, part, fails))
  BY DEF SocketReads
<1>2. Up(tcp.socket) /\ (tcp.socket.tls => tcp.socket.secure)
  BY DEF SocketReads
<1>3. /\ Sound(S(packet, part, fails)) /\ Keeps(tcp, S(packet, part, fails)) /\ Busy(tcp, S(packet, part, fails))
      /\ Apart(tcp) => Apart(S(packet, part, fails))
      /\ S(packet, part, fails).state = "Connecting" => StillWaiting(S(packet, part, fails))
  BY <1>2, ClientIs, Reads DEF StillWaiting
<1> HIDE DEF S
<1>4. QED
  BY <1>1, <1>3, EventKeeps DEF AttemptsApart

LEMMA WriteFailsKeeps ==
  ASSUME IInv, WriteFails
  PROVE  IInv' /\ (AttemptsApart => AttemptsApart')
<1> DEFINE s == Write(tcp, TRUE)
<1>1. Event(s) /\ tcp.state = "Connected"
  BY DEF WriteFails
<1>2. s = tcp \/ (Ended(tcp, s) /\ (Untold(tcp) /\ Late(Queue(tcp)) => Apart(s)))
  BY <1>1, ClientIs, Writes
<1> HIDE DEF s
<1>3. Follows(tcp, tcp)
  BY ClientIs, SaysNothing
<1>4. Sound(s) /\ Follows(tcp, s) /\ s.state # "Connecting"
  BY <1>1, <1>2, <1>3, ClientIs DEF Ended
<1>5. Apart(tcp) => Apart(s)
  BY <1>1, <1>2 DEF Apart
<1>6. Keeps(tcp, s) /\ Busy(tcp, s)
  BY <1>4, FollowsKeeps DEF Busy
<1>7. QED
  BY <1>1, <1>4, <1>5, <1>6, EventKeeps DEF AttemptsApart, Calling

-----------------------------------------------------------------------------
(* The timers. *)

\* The attempt's own timer ends it.
LEMMA ConnectTimeoutKeeps ==
  ASSUME IInv, ConnectTimeout
  PROVE  IInv' /\ (AttemptsApart => AttemptsApart')
<1> DEFINE a == [tcp EXCEPT !.timers = tcp.timers \ {"Connect"}]
           s == OnConnectTimeout(a)
<1>1. Event(s)
  BY DEF ConnectTimeout, Fires, Stop
<1>2. /\ Sound(a) /\ Follows(tcp, a) /\ Queue(a) = Queue(tcp) /\ a.state = tcp.state /\ (Apart(tcp) => Apart(a))
  <2>1. /\ tcp.timers \ {"Connect"} \in SUBSET Timers
        /\ "Ping" \in tcp.timers \ {"Connect"} <=> "Ping" \in tcp.timers
        /\ tcp.state = "Authenticating" => "Auth" \in tcp.timers \ {"Connect"}
    BY ClientIs DEF Sound
  <2>2. QED
    BY <2>1, ClientIs, TimersChange
<1> HIDE DEF a
<1>3. a \in Client /\ Known(a)
  BY <1>2 DEF Sound, Known
<1>4. CASE a.state = "Connecting"
  <2>1. s = EndSession(ReportFailure(a, "ConnectTimeout"))
    BY <1>4 DEF OnConnectTimeout
  <2>2. Ended(a, s) /\ (Untold(a) /\ Late(Queue(a)) => Apart(s))
    BY <1>3, <1>4, <2>1, ReportedEnd
  <2> HIDE DEF s
  <2>3. Sound(s) /\ Follows(a, s) /\ s.state = "Disconnected" /\ s \in Client
    BY <2>2 DEF Ended, Sound, Known
  <2>4. Keeps(tcp, s) /\ Busy(tcp, s)
    BY <1>2, <1>3, <2>3, ClientIs, FollowsOn, FollowsKeeps DEF Busy
  <2>5. Apart(tcp) => Apart(s)
    BY <1>2, <1>4, <2>2 DEF Apart
  <2>6. QED
    BY <1>1, <2>3, <2>4, <2>5, EventKeeps DEF AttemptsApart, Calling
<1>5. CASE a.state # "Connecting"
  <2>1. s = a
    BY <1>5 DEF OnConnectTimeout
  <2>2. Keeps(tcp, a) /\ Busy(tcp, a)
    BY <1>2, <1>5, FollowsKeeps DEF Busy
  <2>3. QED
    BY <1>1, <1>2, <1>5, <2>1, <2>2, EventKeeps DEF AttemptsApart, Calling
<1>6. QED
  BY <1>4, <1>5

\* While the radio has not answered, its silence ends the attempt.
LEMMA AuthTimeoutKeeps ==
  ASSUME IInv, AuthTimeout
  PROVE  IInv' /\ (AttemptsApart => AttemptsApart')
<1> DEFINE a == [tcp EXCEPT !.timers = tcp.timers \ {"Auth"}]
           s == OnAuthTimeout(a)
<1>1. Event(s)
  BY DEF AuthTimeout, Fires, Stop
<1>2. CASE tcp.state = "Authenticating"
  <2>1. /\ a \in Client /\ a.out = tcp.out /\ a.radio = tcp.radio /\ a.request = tcp.request /\ a.host = tcp.host
        /\ a.attempt = tcp.attempt /\ a.macro = tcp.macro /\ a.state = tcp.state /\ a.socket = tcp.socket
        /\ a.told = tcp.told /\ a.answered = tcp.answered /\ a.met = tcp.met
    BY ClientIs DEF Client
  <2> HIDE DEF a
  <2>2. Follows(tcp, a) /\ Queue(a) = Queue(tcp)
    BY <2>1, ClientIs, SaysNothing
  <2>3. Known(a)
    <3>1. Known(tcp)
      BY ClientIs
    <3>2. QED
      BY <2>1, <2>2, <3>1 DEF Known
  <2>4. s = EndSession(ReportFailure(a, "AuthTimeout"))
    <3>1. ~tcp.answered
      BY <1>2, ClientIs DEF Sound
    <3>2. QED
      BY <1>2, <2>1, <3>1 DEF OnAuthTimeout, Silent
  <2>5. Ended(a, s) /\ (Untold(a) /\ Late(Queue(a)) => Apart(s))
    BY <1>2, <2>1, <2>3, <2>4, ReportedEnd
  <2> HIDE DEF s
  <2>6. Sound(s) /\ Follows(a, s) /\ s.state = "Disconnected" /\ s \in Client
    BY <2>5 DEF Ended, Sound, Known
  <2>7. Keeps(tcp, s) /\ Busy(tcp, s)
    BY <2>1, <2>2, <2>6, ClientIs, FollowsOn, FollowsKeeps DEF Busy
  <2>8. Apart(tcp) => Apart(s)
    <3>1. Apart(tcp) => Untold(tcp) /\ Late(Queue(tcp))
      BY <1>2 DEF Apart
    <3>2. Untold(a) <=> Untold(tcp)
      BY <2>1 DEF Untold
    <3>3. QED
      BY <2>2, <2>5, <3>1, <3>2
  <2>9. QED
    BY <1>1, <2>6, <2>7, <2>8, EventKeeps DEF AttemptsApart, Calling
<1>3. CASE tcp.state # "Authenticating"
  <2>1. /\ Sound(a) /\ Follows(tcp, a) /\ a.state = tcp.state /\ a.timers = tcp.timers \ {"Auth"}
        /\ a.socket = tcp.socket /\ a.attempt = tcp.attempt /\ (Apart(tcp) => Apart(a))
    <3>1. /\ tcp.timers \ {"Auth"} \in SUBSET Timers
          /\ "Ping" \in tcp.timers \ {"Auth"} <=> "Ping" \in tcp.timers
      BY ClientIs
    <3>2. QED
      BY <1>3, <3>1, ClientIs, TimersChange
  <2> HIDE DEF a
  <2>2. s = a
    BY <1>3, <2>1 DEF OnAuthTimeout, Silent
  <2>3. Keeps(tcp, a) /\ Busy(tcp, a)
    BY <2>1, FollowsKeeps DEF Busy, Due
  <2>4. StillWaiting(a)
    BY <2>1 DEF StillWaiting
  <2>5. QED
    BY <1>1, <2>1, <2>2, <2>3, <2>4, EventKeeps DEF AttemptsApart
<1>4. QED
  BY <1>2, <1>3

\* An unreachable radio is called again.
LEMMA RetryTimeoutKeeps ==
  ASSUME IInv, RetryTimeout
  PROVE  IInv' /\ (AttemptsApart => AttemptsApart')
<1> DEFINE a == [tcp EXCEPT !.timers = tcp.timers \ {"Retry"}]
           S(psk, outcome) == AttemptConnection(a, psk, outcome)
<1>1. PICK psk \in BOOLEAN, outcome \in Outcomes : "Retry" \in tcp.timers /\ Event(S(psk, outcome))
  BY DEF RetryTimeout, Fires, Stop
<1>2. /\ Sound(a) /\ Follows(tcp, a) /\ a.state = tcp.state /\ a.timers = tcp.timers \ {"Retry"}
      /\ a.socket = tcp.socket /\ a.told = tcp.told /\ a.met = tcp.met /\ (Apart(tcp) => Apart(a))
  <2>1. /\ tcp.timers \ {"Retry"} \in SUBSET Timers
        /\ "Ping" \in tcp.timers \ {"Retry"} <=> "Ping" \in tcp.timers
        /\ tcp.state = "Authenticating" => "Auth" \in tcp.timers \ {"Retry"}
    BY ClientIs DEF Sound
  <2>2. QED
    BY <1>1, <2>1, ClientIs, TimersChange
<1> HIDE DEF a
<1>3. a \in Client
  BY <1>2 DEF Sound, Known
<1>4. /\ Sound(S(psk, outcome)) /\ Follows(a, S(psk, outcome)) /\ Busy(a, S(psk, outcome))
      /\ S(psk, outcome).state = "Connecting" => Due(S(psk, outcome))
      /\ Apart(a) /\ Free(a) => Apart(S(psk, outcome))
  BY <1>1, <1>2, Attempts
<1> HIDE DEF S
<1>5. S(psk, outcome) \in Client
  BY <1>4 DEF Sound, Known
<1>6. Keeps(tcp, S(psk, outcome)) /\ Busy(tcp, S(psk, outcome))
  <2>1. Keeps(tcp, S(psk, outcome))
    BY <1>2, <1>3, <1>4, <1>5, ClientIs, FollowsOn, FollowsKeeps
  <2>2. QED
    BY <1>2, <1>4, <2>1 DEF Busy
<1>7. Apart(tcp) => Free(a)
  BY <1>1, <1>2 DEF Apart, Free
<1>8. QED
  BY <1>1, <1>2, <1>4, <1>6, <1>7, EventKeeps DEF AttemptsApart, Calling

-----------------------------------------------------------------------------
(* The calls, and the lookups' answers. *)

LEMMA CallIs ==
  ASSUME IInv, NEW k, Called(k)
  PROVE  /\ calls \in Seq(Call) /\ calls # <<>> /\ Head(calls) \in Call /\ Head(calls).kind = k
         /\ calls' = Tail(calls) /\ calls' \in Seq(Call) /\ requests \in Nat /\ MacrosInOrder
         /\ lookups \subseteq [attempt : Nat, radio : Mdns]
<1>1. calls \in Seq(Call) /\ calls # <<>> /\ Head(calls).kind = k /\ calls' = Tail(calls)
  BY DEF IInv, Called
<1>2. QED
  BY <1>1 DEF IInv

LEMMA IoSetsMacroKeeps ==
  ASSUME IInv, IoSetsMacro
  PROVE  IInv' /\ (AttemptsApart => AttemptsApart')
<1> DEFINE s == [tcp EXCEPT !.macro = Head(calls).macro]
<1>1. Called("Macro") /\ Becomes(s) /\ UNCHANGED <<lookups, requests, main>>
  BY DEF IoSetsMacro, IoOnly
<1>2. Head(calls).macro \in Nat
  BY <1>1, CallIs DEF Call
<1>3. /\ s \in Client /\ s.state = tcp.state /\ s.timers = tcp.timers /\ s.attempt = tcp.attempt
      /\ s.told = tcp.told /\ s.macro = Head(calls).macro /\ s.out = tcp.out /\ s.radio = tcp.radio
      /\ s.request = tcp.request /\ s.host = tcp.host /\ s.tail = tcp.tail /\ s.answered = tcp.answered
      /\ s.socket = tcp.socket /\ s.met = tcp.met
  BY <1>2, ClientIs DEF Client
<1> HIDE DEF s
<1>4. Queue(s) = Queue(tcp)
  BY <1>3 DEF Queue
<1>5. Sound(s)
  <2>1. Sound(tcp)
    BY ClientIs
  <2>2. QED
    BY <1>3, <1>4, <2>1 DEF Sound, Known
<1>6. Apart(tcp) => Apart(s)
  BY <1>3, <1>4 DEF Apart, Own, Untold, ToldAtMostOnce
<1>7. MacrosInOrder'
  <2>1. tcp'.macro = Head(calls).macro /\ tcp'.request = tcp.request
    BY <1>1, <1>3, <1>5, ClientIs, Becoming
  <2>2. QED
    BY <1>1, <2>1, ClientIs, CallIs, MacrosTaken
<1>8. s.state = "Connecting" => Due(s) \/ \E l \in lookups' : l.attempt = s.attempt
  BY <1>1, <1>3 DEF IInv, Due
<1>9. /\ lookups' \subseteq [attempt : Nat, radio : Mdns] /\ calls' \in Seq(Call) /\ lookups' = lookups
      /\ tcp.attempt <= s.attempt /\ s.radio = tcp.radio
  BY <1>1, <1>3, ClientIs, CallIs
<1>10. IInv' /\ (Apart(s) /\ (\A l \in lookups' : Waiting(s, l)) => AttemptsApart')
  BY <1>1, <1>5, <1>7, <1>8, <1>9, Continues
<1>11. AttemptsApart => \A l \in lookups' : Waiting(s, l)
  BY <1>3, <1>9 DEF AttemptsApart, Waiting
<1>12. QED
  BY <1>6, <1>10, <1>11 DEF AttemptsApart

LEMMA IoDisconnectsKeeps ==
  ASSUME IInv, IoDisconnects
  PROVE  IInv' /\ (AttemptsApart => AttemptsApart')
<1> DEFINE S(fails, slow) == DisconnectFromHost(tcp, fails, slow)
<1>1. PICK fails \in BOOLEAN, slow \in BOOLEAN : Becomes(S(fails, slow))
  BY DEF IoDisconnects
<1>2. Called("Disconnect") /\ UNCHANGED <<lookups, requests, main>>
  BY DEF IoDisconnects, IoOnly
<1>3. /\ Sound(S(fails, slow)) /\ Follows(tcp, S(fails, slow)) /\ S(fails, slow).state = "Disconnected"
      /\ Apart(tcp) => Apart(S(fails, slow))
  BY ClientIs, Disconnects
<1> HIDE DEF S
<1>4. /\ S(fails, slow).radio = tcp.radio /\ S(fails, slow).request = tcp.request
      /\ tcp.attempt <= S(fails, slow).attempt /\ S(fails, slow).macro \in {tcp.macro, 0}
  BY <1>3 DEF Follows
<1>5. MacrosInOrder'
  <2>1. tcp'.macro \in {tcp.macro, 0} /\ tcp'.request = tcp.request
    BY <1>1, <1>2, <1>3, <1>4, ClientIs, Becoming
  <2>2. QED
    BY <1>2, <2>1, ClientIs, CallIs, MacrosTaken
<1>6. lookups' \subseteq [attempt : Nat, radio : Mdns] /\ lookups' = lookups /\ calls' \in Seq(Call)
  BY <1>2, CallIs
<1>7. IInv' /\ (Apart(S(fails, slow)) /\ (\A l \in lookups' : Waiting(S(fails, slow), l)) => AttemptsApart')
  BY <1>1, <1>2, <1>3, <1>4, <1>5, <1>6, Continues
<1>8. QED
  BY <1>3, <1>7 DEF AttemptsApart, Waiting

\* An attempt begins: it waits for its address, or is under way; what lookups are left are of others.
LEMMA IoConnectsKeeps ==
  ASSUME IInv, IoConnects
  PROVE  IInv' /\ (AttemptsApart => AttemptsApart')
<1> DEFINE r == Head(calls).radio
           n == Head(calls).request
           A(fails, slow) == Asked(tcp, r, n, fails, slow)
           T(a, psk, outcome) == AttemptConnection(a, psk, outcome)
<1>1. Called("Connect") /\ UNCHANGED <<requests, main>>
  BY DEF IoConnects, IoOnly
<1>2. r \in Radios /\ n \in Nat
  BY <1>1, CallIs DEF Call
<1>3. PICK fails \in BOOLEAN, slow \in BOOLEAN :
        IF r \in Mdns
        THEN /\ Becomes(A(fails, slow))
             /\ lookups' = lookups \cup {[attempt |-> A(fails, slow).attempt, radio |-> r]}
        ELSE /\ \E psk \in BOOLEAN, outcome \in Outcomes : Becomes(T(A(fails, slow), psk, outcome))
             /\ UNCHANGED lookups
  BY DEF IoConnects
<1> DEFINE a == A(fails, slow)
<1>4. /\ Sound(a) /\ a.state = "Connecting" /\ a.radio = r /\ a.request = n
      /\ tcp.attempt < a.attempt /\ a.macro \in {tcp.macro, 0}
      /\ \A l : Waiting(a, l)
      /\ Apart(tcp) => Apart(a) /\ Free(a)
  BY <1>2, ClientIs, Asks
<1> HIDE DEF a, r, n
<1>5. /\ a \in Client /\ a.attempt \in Nat /\ tcp.attempt \in Nat
      /\ lookups \subseteq [attempt : Nat, radio : Mdns] /\ calls' \in Seq(Call)
      /\ \A l \in lookups : l.attempt \in Nat /\ l.attempt <= tcp.attempt
  <2>1. a \in Client /\ lookups \subseteq [attempt : Nat, radio : Mdns] /\ calls' \in Seq(Call)
    BY <1>1, <1>4, CallIs DEF Sound, Known
  <2>2. a.attempt \in Nat /\ tcp.attempt \in Nat
    BY <2>1, ClientIs DEF Client
  <2>3. \A l \in lookups : l.attempt \in Nat /\ l.attempt <= tcp.attempt
    BY <2>1 DEF IInv
  <2>4. QED
    BY <2>1, <2>2, <2>3
<1>6. ASSUME NEW u, Becomes(u), Sound(u), u.macro \in {tcp.macro, 0}, u.request = n
      PROVE  MacrosInOrder'
  <2>1. tcp'.macro \in {tcp.macro, 0} /\ tcp'.request = Head(calls).request
    BY <1>1, <1>6, ClientIs, Becoming DEF n
  <2>2. QED
    BY <1>1, <2>1, ClientIs, CallIs, MacrosTaken
<1>7. CASE r \in Mdns
  <2>1. Becomes(a) /\ lookups' = lookups \cup {[attempt |-> a.attempt, radio |-> a.radio]}
    BY <1>3, <1>4, <1>7 DEF a
  <2>2. MacrosInOrder'
    BY <1>4, <1>6, <2>1
  <2>3. lookups' \subseteq [attempt : Nat, radio : Mdns]
    BY <1>4, <1>5, <1>7, <2>1
  <2>4. [attempt |-> a.attempt, radio |-> a.radio] \in lookups'
    BY <2>1
  <2>5. \E l \in lookups' : l.attempt = a.attempt
    BY <2>4
  <2>6. tcp.attempt <= a.attempt /\ tcp.attempt # a.attempt
    BY <1>4, <1>5
  <2>7. IInv' /\ (Apart(a) /\ (\A l \in lookups' : Waiting(a, l)) => AttemptsApart')
    BY <1>1, <1>4, <1>5, <2>1, <2>2, <2>3, <2>5, <2>6, Continues
  <2>8. QED
    BY <1>4, <2>7 DEF AttemptsApart
<1>8. CASE r \notin Mdns
  <2>1. PICK psk \in BOOLEAN, outcome \in Outcomes : Becomes(T(a, psk, outcome))
    BY <1>3, <1>8 DEF a
  <2>2. lookups' = lookups
    BY <1>3, <1>8
  <2> DEFINE u == T(a, psk, outcome)
  <2>3. /\ Sound(u) /\ Follows(a, u) /\ (u.state = "Connecting" => Due(u))
        /\ Apart(a) /\ Free(a) => Apart(u)
    BY <1>4, Attempts
  <2> HIDE DEF u
  <2>4. u.radio = r /\ u.request = n /\ a.attempt <= u.attempt /\ u.macro \in {tcp.macro, 0}
    BY <1>4, <2>3 DEF Follows
  <2>5. u.attempt \in Nat
    BY <2>3 DEF Sound, Known, Client
  <2>6. tcp.attempt <= u.attempt /\ tcp.attempt # u.attempt
    BY <1>4, <1>5, <2>4, <2>5
  <2>7. Becomes(u)
    BY <2>1 DEF u
  <2>8. MacrosInOrder'
    BY <1>6, <2>3, <2>4, <2>7
  <2>9. IInv' /\ (Apart(u) /\ (\A l \in lookups' : Waiting(u, l)) => AttemptsApart')
    BY <1>1, <1>5, <2>2, <2>3, <2>6, <2>7, <2>8, Continues
  <2>10. \A l \in lookups' : Waiting(u, l)
    <3>1. \A l \in lookups' : l.attempt # u.attempt
      BY <1>4, <1>5, <2>2, <2>4, <2>5
    <3>2. QED
      BY <3>1 DEF Waiting
  <2>11. QED
    BY <1>4, <2>3, <2>9, <2>10 DEF AttemptsApart
<1>9. QED
  BY <1>7, <1>8

\* The answer is for the attempt that waits for it, or for none; an attempt waits for one answer.
LEMMA LookupAnsweredKeeps ==
  ASSUME IInv, NEW l \in lookups, LookupAnswered(l)
  PROVE  IInv' /\ (AttemptsApart => AttemptsApart')
<1>1. /\ lookups' = lookups \ {l} /\ calls' = calls /\ UNCHANGED <<requests, main>>
      /\ lookups' \subseteq [attempt : Nat, radio : Mdns] /\ calls' \in Seq(Call) /\ requests \in Nat /\ MacrosInOrder
  <2>1. lookups' = lookups \ {l} /\ calls' = calls /\ UNCHANGED <<requests, main>>
    BY DEF LookupAnswered, IoOnly
  <2>2. QED
    BY <2>1 DEF IInv
<1>2. \A k \in lookups : /\ k = [attempt |-> k.attempt, radio |-> k.radio] /\ k.attempt \in Nat
                         /\ k.attempt <= tcp.attempt /\ (k.attempt = tcp.attempt => k.radio = tcp.radio)
  BY DEF IInv
<1>3. tcp.attempt \in Nat
  BY ClientIs
<1>4. ASSUME NEW s, Becomes(s), Sound(s), Follows(tcp, s),
             s.state = "Connecting" => Due(s) \/ \E k \in lookups' : k.attempt = s.attempt
      PROVE  IInv' /\ (Apart(s) /\ (\A k \in lookups' : Waiting(s, k)) => AttemptsApart')
  <2>1. /\ s.radio = tcp.radio /\ s.request = tcp.request /\ tcp.attempt <= s.attempt
        /\ s.macro \in {tcp.macro, 0}
    BY <1>4 DEF Follows
  <2>2. tcp'.macro \in {tcp.macro, 0} /\ tcp'.request = tcp.request
    BY <1>1, <1>4, <2>1, ClientIs, Becoming
  <2>3. MacrosInOrder'
    BY <1>1, <2>2, ClientIs, MacrosStay
  <2>4. lookups' \subseteq lookups \cup {[attempt |-> s.attempt, radio |-> s.radio]}
    BY <1>1
  <2>5. QED
    BY <1>1, <1>4, <2>1, <2>3, <2>4, Continues
<1>5. CASE l.attempt # tcp.attempt \/ tcp.state # "Connecting"
  <2>1. Becomes(tcp)
    BY <1>5 DEF LookupAnswered
  <2>2. Follows(tcp, tcp) /\ Sound(tcp)
    BY ClientIs, SaysNothing
  <2>3. tcp.state = "Connecting" => Due(tcp) \/ \E k \in lookups' : k.attempt = tcp.attempt
    <3>1. tcp.state = "Connecting" => Due(tcp) \/ \E k \in lookups : k.attempt = tcp.attempt
      BY DEF IInv
    <3>2. QED
      BY <1>1, <1>5, <3>1
  <2>4. AttemptsApart => Apart(tcp) /\ \A k \in lookups' : Waiting(tcp, k)
    BY <1>1 DEF AttemptsApart, Waiting
  <2>5. QED
    BY <1>4, <2>1, <2>2, <2>3, <2>4
<1>6. CASE l.attempt = tcp.attempt /\ tcp.state = "Connecting"
  <2>1. [tcp EXCEPT !.host = l.radio] = tcp
    <3>1. tcp.host = tcp.radio /\ tcp \in Client
      BY ClientIs DEF Known
    <3>2. QED
      BY <1>2, <1>6, <3>1 DEF Client
  <2>2. AttemptsApart => Free(tcp)
    BY <1>6 DEF AttemptsApart, Apart, Waiting, Untold, Free
  <2>3. ASSUME NEW s, Follows(tcp, s), s.attempt \in Nat, NEW k \in lookups'
        PROVE  Waiting(s, k)
    <3> SUFFICES ASSUME k.attempt = s.attempt
                 PROVE  FALSE
      BY DEF Waiting
    <3>1. k \in lookups /\ k # l /\ tcp.attempt <= s.attempt
      BY <1>1, <2>3 DEF Follows
    <3>2. k.attempt = tcp.attempt
      BY <1>2, <1>3, <2>3, <3>1
    <3>3. QED
      BY <1>2, <1>6, <3>1, <3>2
  <2>4. CASE Becomes(EndSession(Tell(tcp)))
    <3> DEFINE u == Tell(tcp)
               s == EndSession(u)
    <3>1. /\ u \in Client /\ u = [tcp EXCEPT !.told = tcp.told + 1, !.out = u.out] /\ Known(u) /\ Follows(tcp, u)
      BY ClientIs, Telling
    <3>2. u.told = tcp.told + 1
      BY <3>1, ClientIs DEF Client
    <3> HIDE DEF u
    <3>3. Ended(u, s) /\ (ToldAtMostOnce(u) /\ Late(Queue(u)) => Apart(s))
      BY <3>1, SessionEnds
    <3>4. Becomes(s)
      BY <2>4 DEF u
    <3> HIDE DEF s
    <3>5. Sound(s) /\ Follows(u, s) /\ s.state = "Disconnected" /\ s \in Client /\ s.attempt \in Nat
      BY <3>3 DEF Ended, Sound, Known, Client
    <3>6. Follows(tcp, s)
      BY <3>1, <3>5, ClientIs, FollowsOn
    <3>7. Apart(tcp) => Apart(s)
      BY <1>6, <3>1, <3>2, <3>3 DEF Apart, Follows, Untold, ToldAtMostOnce
    <3>8. QED
      BY <1>4, <2>3, <3>4, <3>5, <3>6, <3>7 DEF AttemptsApart
  <2>5. CASE \E psk \in BOOLEAN, outcome \in Outcomes : Becomes(AttemptConnection(tcp, psk, outcome))
    <3>1. PICK psk \in BOOLEAN, outcome \in Outcomes : Becomes(AttemptConnection(tcp, psk, outcome))
      BY <2>5
    <3> DEFINE s == AttemptConnection(tcp, psk, outcome)
    <3>2. /\ Sound(s) /\ Follows(tcp, s) /\ (s.state = "Connecting" => Due(s))
          /\ Apart(tcp) /\ Free(tcp) => Apart(s)
      BY ClientIs, Attempts
    <3>3. Becomes(s)
      BY <3>1
    <3> HIDE DEF s
    <3>4. s.attempt \in Nat
      BY <3>2 DEF Sound, Known, Client
    <3>5. QED
      BY <1>4, <2>2, <2>3, <3>2, <3>3, <3>4 DEF AttemptsApart
  <2>6. QED
    BY <1>6, <2>1, <2>4, <2>5 DEF LookupAnswered
<1>7. QED
  BY <1>5, <1>6

-----------------------------------------------------------------------------
(* The main thread. *)

\* The operator's requests change nothing but the calls.
LEMMA OperatorKeeps ==
  ASSUME IInv, Operator
  PROVE  IInv' /\ (AttemptsApart => AttemptsApart')
<1>1. requests' = requests + 1 /\ UNCHANGED <<tcp, lookups, signals, main>>
  BY DEF Operator, DisconnectFromRadio, ConnectToRadio, Requests
<1>2. requests \in Nat /\ calls \in Seq(Call) /\ MacrosInOrder
  BY DEF IInv
<1>3. MacrosInOrder' /\ calls' \in Seq(Call)
  <2>1. CASE DisconnectFromRadio
    <3>1. DisconnectCall \in Call /\ DisconnectCall.kind = "Disconnect"
      BY DEF DisconnectCall, Call
    <3>2. calls' = Append(calls, DisconnectCall)
      <4>1. calls' = calls \o <<DisconnectCall>>
        BY <2>1 DEF DisconnectFromRadio, Requests
      <4>2. QED
        BY <1>2, <3>1, <4>1
    <3>3. QED
      BY <1>1, <1>2, <3>1, <3>2, ClientIs, MacrosAdded
  <2>2. ASSUME NEW r \in Radios, NEW macro \in BOOLEAN, ConnectToRadio(r, macro)
        PROVE  MacrosInOrder' /\ calls' \in Seq(Call)
    <3> DEFINE m == MacroCall(IF macro THEN requests + 1 ELSE 0)
               c == ConnectCall(r, requests + 1)
    <3>1. /\ m \in Call /\ m.kind = "Macro" /\ m.macro \in {0, requests + 1}
          /\ c \in Call /\ c.kind = "Connect" /\ c.request = requests + 1
      BY <1>2 DEF MacroCall, ConnectCall, Call
    <3>2. calls' = calls \o <<m, c>>
      BY <2>2 DEF ConnectToRadio, Requests
    <3> HIDE DEF m, c
    <3>3. calls' = Append(Append(calls, m), c)
      BY <1>2, <3>1, <3>2
    <3>4. QED
      BY <1>1, <1>2, <3>1, <3>3, ClientIs, MacrosAdded
  <2>3. QED
    BY <2>1, <2>2 DEF Operator
<1>4. Sound(tcp)' /\ (Apart(tcp) => Apart(tcp)')
  <2>1. Queue(tcp)' = Queue(tcp)
    BY <1>1 DEF Queue
  <2>2. Known(tcp)'
    BY <1>1, <2>1 DEF IInv, Sound, Known, Tells, TellsReady
  <2>3. Sound(tcp)'
    BY <1>1, <2>1, <2>2 DEF IInv, Sound, TellsReady
  <2>4. Apart(tcp) => Apart(tcp)'
    BY <1>1, <2>1 DEF Apart, Late
  <2>5. QED
    BY <2>3, <2>4
<1>5. IInv'
  BY <1>1, <1>2, <1>3, <1>4 DEF IInv, Due
<1>6. QED
  BY <1>1, <1>4, <1>5 DEF AttemptsApart

\* What the main thread hears leaves it expecting what it did.
LEMMA HearKeeps ==
  ASSUME IInv, Hear
  PROVE  IInv' /\ (AttemptsApart => AttemptsApart')
<1> DEFINE h == Head(signals)
<1>1. /\ signals \in Seq(Signals) /\ signals # <<>> /\ signals' = Tail(signals) /\ signals' \in Seq(Signals)
      /\ h \in Signals /\ UNCHANGED <<tcp, lookups, calls, requests>>
      /\ main \in [state : States, ready : BOOLEAN, late : Nat]
  <2>1. signals # <<>> /\ signals' = Tail(signals) /\ UNCHANGED <<tcp, lookups, calls, requests>>
    BY DEF Hear, HearState, HearReady, HearError, HearData, Hears, MainOnly
  <2>2. QED
    BY <2>1, ClientIs DEF IInv
<1>2. \/ /\ h \in StateSignals
         /\ main' = [state |-> h.state, ready |-> main.ready /\ h.state = "Connected",
                     late |-> IF h.state = "Connected" THEN 0 ELSE main.late]
      \/ h \in ReadySignals /\ main' = [main EXCEPT !.ready = TRUE]
      \/ /\ h \in Signals \ (News \cup DataSignals)
         /\ main' \in {main, [main EXCEPT !.late = IF main.state = "Connected" THEN 0 ELSE main.late]}
      \/ h \in DataSignals /\ main' = [main EXCEPT !.late = IF main.state = "Connected" THEN 0 ELSE main.late + 1]
  BY <1>1 DEF Hear, HearState, HearReady, HearError, HearData, Hears, StateSignals, ReadySignals, DataSignals, News
<1>3. /\ h \in StateSignals => h \in News /\ h \notin ReadySignals \cup DataSignals /\ h.state \in States
      /\ h \in ReadySignals => h \in News /\ h \notin StateSignals \cup DataSignals
      /\ h \in DataSignals => h \notin News /\ h \notin StateSignals
      /\ h \notin News => h \notin StateSignals
  BY <1>1 DEF StateSignals, ReadySignals, DataSignals, News, Signals
<1>4. main' \in [state : States, ready : BOOLEAN, late : Nat]
  <2>1. /\ main.state \in States /\ main.ready \in BOOLEAN /\ main.late \in Nat
        /\ (IF main.state = "Connected" THEN 0 ELSE main.late + 1) \in Nat
        /\ (IF main.state = "Connected" THEN 0 ELSE main.late) \in Nat
        /\ (IF h.state = "Connected" THEN 0 ELSE main.late) \in Nat
    BY <1>1
  <2>2. (main.ready /\ h.state = "Connected") \in BOOLEAN
    BY <2>1, Zenon
  <2>3. CASE h \in StateSignals
    <3>1. PICK rd \in BOOLEAN : rd = (main.ready /\ h.state = "Connected")
      BY <2>2, Zenon
    <3>2. main' = [state |-> h.state, ready |-> rd, late |-> IF h.state = "Connected" THEN 0 ELSE main.late]
      BY <1>2, <1>3, <2>3, <3>1, Zenon
    <3>3. QED
      BY <1>3, <2>1, <2>3, <3>2
  <2>4. CASE h \in ReadySignals
    BY <1>1, <1>2, <1>3, <2>4
  <2>5. CASE h \notin StateSignals \cup ReadySignals
    BY <1>1, <1>2, <2>1, <2>5
  <2>6. QED
    BY <2>3, <2>4, <2>5
<1>5. Queue(tcp) = signals /\ Queue(tcp)' = signals'
  <2>1. tcp.out = <<>> /\ tcp'.out = <<>>
    BY <1>1 DEF IInv
  <2>2. signals \o <<>> = signals /\ signals' \o <<>> = signals'
    BY <1>1
  <2>3. QED
    BY <2>1, <2>2 DEF Queue
<1>6. /\ h \in StateSignals => main'.state = h.state /\ (main'.ready => h.state = "Connected")
      /\ h \notin StateSignals => main'.state = main.state
      /\ h \in ReadySignals => main'.ready
      /\ h \notin News => (main'.ready <=> main.ready)
  <2>1. CASE h \in StateSignals
    <3>1. (main.ready /\ h.state = "Connected") \in BOOLEAN
      BY <1>1, Zenon
    <3>2. PICK rd \in BOOLEAN : rd = (main.ready /\ h.state = "Connected")
      BY <3>1, Zenon
    <3>3. main' = [state |-> h.state, ready |-> rd, late |-> IF h.state = "Connected" THEN 0 ELSE main.late]
      BY <1>2, <1>3, <2>1, <3>2, Zenon
    <3>4. rd => h.state = "Connected"
      BY <3>2, Zenon
    <3>5. QED
      BY <1>3, <2>1, <3>3, <3>4
  <2>2. CASE h \in ReadySignals
    BY <1>1, <1>2, <1>3, <2>2
  <2>3. CASE h \notin StateSignals \cup ReadySignals
    BY <1>1, <1>2, <2>3 DEF News
  <2>4. QED
    BY <1>3, <2>1, <2>2, <2>3
<1> DEFINE t == Tail(signals)
           V == {StateSignal(tcp.state)}
<1>7. /\ V \in SUBSET StateSignals /\ ReadySignals \in SUBSET News /\ StateSignals \subseteq News
      /\ h \in V => h.state = tcp.state /\ h \in StateSignals
  BY ClientIs DEF StateSignals, ReadySignals, News, StateSignal, Signals, Client
<1>8. /\ NoneOf(signals, StateSignals) <=> h \notin StateSignals /\ NoneOf(t, StateSignals)
      /\ Ends(signals, StateSignals, V) <=> Ends(t, StateSignals, V) \/ (h \in V /\ NoneOf(t, StateSignals))
      /\ NoneOf(signals, News) <=> h \notin News /\ NoneOf(t, News)
      /\ Ends(signals, News, ReadySignals) <=> Ends(t, News, ReadySignals) \/ (h \in ReadySignals /\ NoneOf(t, News))
  BY <1>1, <1>7, TailEnds
<1>9. /\ Tells(signals, tcp.state)
           <=> Ends(signals, StateSignals, V) \/ (NoneOf(signals, StateSignals) /\ main.state = tcp.state)
      /\ Tells(signals, tcp.state)' <=> Ends(t, StateSignals, V) \/ (NoneOf(t, StateSignals) /\ main'.state = tcp.state)
      /\ TellsReady(signals) <=> Ends(signals, News, ReadySignals) \/ (NoneOf(signals, News) /\ main.ready)
      /\ TellsReady(signals)' <=> Ends(t, News, ReadySignals) \/ (NoneOf(t, News) /\ main'.ready)
  BY <1>1 DEF Tells, TellsReady, V
<1>10. NoneOf(t, News) => ~Ends(t, StateSignals, V) /\ NoneOf(t, StateSignals)
  BY <1>7 DEF NoneOf, Ends
<1> HIDE DEF V
<1>11. Tells(signals, tcp.state) /\ (TellsReady(signals) <=> tcp.state = "Connected")
  BY <1>5, ClientIs DEF Sound, Known
<1> HIDE DEF t, h
<1>12. Tells(signals, tcp.state)'
  BY <1>6, <1>7, <1>8, <1>9, <1>11
<1>13. TellsReady(signals)' <=> tcp.state = "Connected"
  <2>1. CASE h \in StateSignals
    BY <1>3, <1>6, <1>7, <1>8, <1>9, <1>10, <1>11, <2>1
  <2>2. CASE h \notin StateSignals
    <3>1. h \in News => h \in ReadySignals
      BY <2>2 DEF News
    <3>2. QED
      BY <1>6, <1>7, <1>8, <1>9, <1>11, <3>1
  <2>3. QED
    BY <2>1, <2>2
<1>14. Sound(tcp)'
  <2>1. Queue(tcp)' = signals' /\ tcp' = tcp
    BY <1>1, <1>5
  <2>2. Tells(Queue(tcp), tcp.state)' /\ (TellsReady(Queue(tcp))' <=> tcp'.state = "Connected")
    <3>1. Tells(Queue(tcp), tcp.state)' <=> Tells(signals, tcp.state)'
      BY <2>1 DEF Tells
    <3>2. TellsReady(Queue(tcp))' <=> TellsReady(signals)'
      BY <2>1 DEF TellsReady
    <3>3. QED
      BY <1>12, <1>13, <2>1, <3>1, <3>2
  <2>3. Known(tcp)'
    <3>1. Known(tcp)
      BY ClientIs
    <3>2. QED
      BY <1>1, <2>1, <2>2, <3>1 DEF Known
  <2>4. Sound(tcp)
    BY ClientIs
  <2>5. QED
    BY <2>1, <2>2, <2>3, <2>4 DEF Sound
<1>15. IInv'
  <2>1. MacrosInOrder' /\ Due(tcp)' = Due(tcp) /\ tcp'.out = <<>>
    BY <1>1 DEF IInv, MacrosInOrder, Due
  <2>2. QED
    BY <1>1, <1>4, <1>14, <2>1 DEF IInv
<1>16. Apart(tcp) => Apart(tcp)'
  <2>1. ASSUME Late(signals)
        PROVE  Late(signals)'
    <3>1. \/ h \notin StateSignals \cup DataSignals /\ main'.state = main.state /\ main'.late = main.late
          \/ /\ h \in StateSignals /\ main'.state = h.state
             /\ main'.late = IF main'.state = "Connected" THEN 0 ELSE main.late
          \/ /\ h \in DataSignals /\ main'.state = main.state
             /\ main'.late = IF main.state = "Connected" THEN 0 ELSE main.late + 1
      <4>1. main.state = "Connected" => main.late = 0
        BY <2>1 DEF Late
      <4>2. CASE h \in Signals \ (News \cup DataSignals)
        BY <1>1, <1>2, <1>3, <4>1, <4>2 DEF News
      <4>3. CASE h \notin Signals \ (News \cup DataSignals)
        BY <1>1, <1>2, <1>3, <4>3
      <4>4. QED
        BY <4>2, <4>3
    <3>2. QED
      BY <1>1, <2>1, <3>1, LateHeard DEF h
  <2>2. Late(Queue(tcp))' <=> Late(signals)'
    BY <1>5 DEF Late
  <2>3. QED
    BY <1>1, <1>5, <2>1, <2>2 DEF Apart, Own, Untold, ToldAtMostOnce
<1>17. QED
  BY <1>1, <1>15, <1>16 DEF AttemptsApart, Waiting

-----------------------------------------------------------------------------
(* The theorems. *)

LEMMA InitIs == ASSUME Init PROVE IInv /\ AttemptsApart
<1>1. /\ tcp \in Client /\ signals = <<>> /\ signals \in Seq(Signals) /\ tcp.out = <<>>
      /\ tcp.state = "Disconnected" /\ tcp.timers = {} /\ tcp.socket = Unconnected /\ tcp.told = 0
      /\ tcp.host = tcp.radio /\ tcp.macro = 0 /\ tcp.request = 0 /\ tcp.attempt = 0 /\ tcp.met = "Nothing"
  <2>1. /\ signals = <<>> /\ signals \in Seq(Signals) /\ tcp.out = <<>>
        /\ tcp.state = "Disconnected" /\ tcp.timers = {} /\ tcp.socket = Unconnected /\ tcp.told = 0
        /\ tcp.host = tcp.radio /\ tcp.macro = 0 /\ tcp.request = 0 /\ tcp.attempt = 0 /\ tcp.met = "Nothing"
    BY DEF Init
  <2>2. tcp \in Client
    BY UnconnectedIs DEF Init, Client, States, Leftovers
  <2>3. QED
    BY <2>1, <2>2
<1>2. main.state = "Disconnected" /\ ~main.ready /\ main.late = 0
  BY DEF Init
<1>3. Queue(tcp) = <<>>
  BY <1>1 DEF Queue
<1>4. Tells(Queue(tcp), tcp.state) /\ ~TellsReady(Queue(tcp)) /\ Late(Queue(tcp))
  BY <1>1, <1>2, <1>3, EmptyEnds DEF Tells, TellsReady, Late
<1>5. Sound(tcp)
  BY <1>1, <1>4, UnconnectedIs DEF Sound, Known
<1>6. Apart(tcp)
  <2>1. ToldAtMostOnce(tcp) /\ Late(Queue(tcp))
    BY <1>1, <1>4 DEF ToldAtMostOnce
  <2>2. QED
    BY <1>1, <2>1, EndedApart
<1>7. MacrosInOrder
  BY <1>1 DEF Init, MacrosInOrder, NotBefore
<1>8. QED
  BY <1>1, <1>5, <1>6, <1>7 DEF Init, IInv, AttemptsApart, States

LEMMA StutterKeeps ==
  ASSUME UNCHANGED vars
  PROVE  (IInv => IInv') /\ (AttemptsApart => AttemptsApart')
<1>1. tcp' = tcp /\ lookups' = lookups /\ calls' = calls /\ signals' = signals /\ requests' = requests /\ main' = main
  BY DEF vars
<1>2. Sound(tcp)' <=> Sound(tcp)
  BY <1>1 DEF Sound, Known, Queue, Tells, TellsReady
<1>3. Apart(tcp)' <=> Apart(tcp)
  BY <1>1 DEF Apart, Own, Untold, ToldAtMostOnce, Queue, Late
<1>4. MacrosInOrder' <=> MacrosInOrder
  BY <1>1 DEF MacrosInOrder
<1>5. IInv => IInv'
  BY <1>1, <1>2, <1>4 DEF IInv, Due
<1>6. QED
  BY <1>1, <1>3, <1>5 DEF AttemptsApart, Waiting

LEMMA StepKeeps ==
  ASSUME IInv, [Next]_vars
  PROVE  IInv' /\ (AttemptsApart => AttemptsApart')
<1>1. CASE IoCall
  BY <1>1, IoSetsMacroKeeps, IoDisconnectsKeeps, IoConnectsKeeps DEF IoCall
<1>2. CASE Timeout
  BY <1>2, ConnectTimeoutKeeps, AuthTimeoutKeeps, RetryTimeoutKeeps DEF Timeout
<1>3. CASE SocketEvent
  BY <1>3, SocketConnectsKeeps, KeyGivenKeeps, SocketEncryptsKeeps, SocketClosesKeeps, SocketReadsKeeps,
     WriteFailsKeeps, SocketFailsKeeps DEF SocketEvent
<1>4. CASE Hear
  BY <1>4, HearKeeps
<1>5. CASE Operator
  BY <1>5, OperatorKeeps
<1>6. CASE \E l \in lookups : LookupAnswered(l)
  BY <1>6, LookupAnsweredKeeps
<1>7. CASE UNCHANGED vars
  BY <1>7, StutterKeeps
<1>8. QED
  BY <1>1, <1>2, <1>3, <1>4, <1>5, <1>6, <1>7 DEF Next

\* Whatever the handlers of TcpClient do to the socket, to its timers and to each other, the client's state
\* has its timer, its socket and its signals; even where an attempt meets the last one's socket.
THEOREM Invariant == Spec => []IInv
<1>1. Init => IInv
  BY InitIs
<1>2. IInv /\ [Next]_vars => IInv'
  BY StepKeeps
<1>3. QED
  BY <1>1, <1>2, PTL DEF Spec

\* The socket is of the attempt in progress, or is closing under an attempt that found it so, or is one that
\* a retry left from the last attempt opened.
THEOREM StaysApart == Spec => []AttemptsApart
<1>1. Init => AttemptsApart
  BY InitIs
<1>2. IInv /\ AttemptsApart /\ [Next]_vars => AttemptsApart'
  BY StepKeeps
<1>3. QED
  BY <1>1, <1>2, Invariant, PTL DEF Spec

\* TcpClient is well typed: an unreachable radio is called at most three times.
THEOREM TypeCorrect == Spec => []TypeOK
<1>1. ASSUME IInv
      PROVE  TypeOK
  <2>1. /\ tcp \in Client /\ (tcp.socket.secure => tcp.socket.tls) /\ requests \in Nat
        /\ tcp.macro <= requests /\ tcp.request <= requests
    BY <1>1, ClientIs DEF IInv, MacrosInOrder, Known
  <2>2. tcp.macro \in 0 .. requests /\ tcp.request \in 0 .. requests
    BY <2>1 DEF Client
  <2>3. QED
    BY <1>1, <2>1, <2>2 DEF IInv, TypeOK, Client
<1>2. QED
  BY <1>1, Invariant, PTL

\* No phase of a connection is left without what ends it: an attempt has an answer to come or a timer, an
\* unanswered password has its timer, and a session, and nothing else, has the ping.
THEOREM SomethingIsDue == Spec => []NeverStuck
<1>1. IInv => NeverStuck
  BY DEF IInv, Sound, Due, NeverStuck
<1>2. QED
  BY <1>1, Invariant, PTL

\* When the main thread has caught up, the keyer is ready exactly if there is a session.
THEOREM KeyerHasCaughtUp == Spec => []ReadyIsConnected
<1>1. ASSUME IInv
      PROVE  ReadyIsConnected
  <2> DEFINE news == {i \in DOMAIN signals : signals[i].kind \in {"State", "Ready"}}
  <2>1. signals \in Seq(Signals) /\ Queue(tcp) = signals /\ (TellsReady(signals) <=> tcp.state = "Connected")
    <3>1. signals \in Seq(Signals) /\ tcp.out = <<>>
      BY <1>1, ClientIs DEF IInv
    <3>2. Queue(tcp) = signals
      BY <3>1 DEF Queue
    <3>3. QED
      BY <1>1, <3>1, <3>2, ClientIs DEF Sound, Known
  <2>2. /\ Len(signals) \in Nat /\ news \subseteq 1 .. Len(signals)
        /\ \A i \in 1 .. Len(signals) :
             /\ signals[i] \in News <=> i \in news
             /\ signals[i] \in ReadySignals <=> signals[i].kind = "Ready"
    <3>1. Len(signals) \in Nat /\ DOMAIN signals = 1 .. Len(signals) /\ \A i \in 1 .. Len(signals) : signals[i] \in Signals
      BY <2>1
    <3>2. QED
      BY <3>1 DEF News, StateSignals, ReadySignals
  <2> HIDE DEF news
  <2>3. news = {} <=> NoneOf(signals, News)
    BY <2>2 DEF NoneOf
  <2>4. (\E i \in news : signals[i].kind = "Ready" /\ \A j \in news : j <= i) <=> Ends(signals, News, ReadySignals)
    <3>1. ASSUME NEW i \in news, signals[i].kind = "Ready", \A j \in news : j <= i
          PROVE  Ends(signals, News, ReadySignals)
      <4>1. i \in 1 .. Len(signals) /\ signals[i] \in ReadySignals
        BY <2>2, <3>1
      <4>2. \A j \in i + 1 .. Len(signals) : j \in 1 .. Len(signals) /\ j \notin news
        BY <2>2, <3>1, <4>1
      <4>3. QED
        BY <2>2, <4>1, <4>2 DEF Ends
    <3>2. ASSUME NEW i \in 1 .. Len(signals), signals[i] \in ReadySignals,
                 \A j \in i + 1 .. Len(signals) : signals[j] \notin News
          PROVE  \E k \in news : signals[k].kind = "Ready" /\ \A j \in news : j <= k
      <4>1. i \in news /\ signals[i].kind = "Ready"
        BY <2>2, <3>2 DEF News
      <4>2. ASSUME NEW j \in news
            PROVE  j <= i
        BY <2>2, <3>2
      <4>3. QED
        BY <4>1, <4>2
    <3>3. QED
      BY <3>1, <3>2 DEF Ends
  <2>5. QED
    BY <2>1, <2>3, <2>4 DEF ReadyIsConnected, TellsReady, news
<1>2. QED
  BY <1>1, Invariant, PTL

\* An attempt never carries a startup macro of an earlier one, and the parser never holds half a packet of
\* another connection, even where an attempt meets the last one's socket.
THEOREM StartsClean == Spec => [](NoStaleMacro /\ NoForeignTail)
<1>1. IInv => NoStaleMacro /\ NoForeignTail
  BY DEF IInv, MacrosInOrder, NotBefore, Sound, NoStaleMacro, NoForeignTail
<1>2. QED
  BY <1>1, Invariant, PTL

\* Nor does a radio ever get another radio's password, nor more than one packet outlive its session: nothing of
\* what was left is carried over, though an attempt may begin over a socket that is still closing.
THEOREM CarriesNothing == Spec => []NothingCarriedOver
<1>1. ASSUME IInv, AttemptsApart
      PROVE  CredentialsToTheirRadio /\ AtMostOneLate /\ OwnConnection
  <2>1. Apart(tcp) /\ tcp.socket.st \in {"Unconnected", "Connecting", "Connected", "Closing"}
    BY <1>1, ClientIs DEF AttemptsApart, Sockets
  <2>2. CredentialsToTheirRadio
    BY <2>1, UnconnectedIs DEF Apart, CredentialsToTheirRadio
  <2>3. AtMostOneLate
    BY <2>1 DEF Apart, Late, AtMostOneLate
  <2>4. ASSUME tcp.state # "Disconnected", tcp.socket # Unconnected, ~Own(tcp), tcp.met # "Retry"
        PROVE  /\ tcp.met = "Closing" /\ tcp.state = "Connecting" /\ tcp.socket.st = "Closing"
               /\ \E l \in lookups : l.attempt = tcp.attempt
    <3>1. tcp.met = "Closing" /\ tcp.state = "Connecting" /\ tcp.socket.st = "Closing" /\ tcp.timers = {}
      BY <2>1, <2>4 DEF Apart
    <3>2. QED
      BY <1>1, <3>1 DEF IInv, Due
  <2>5. QED
    BY <2>2, <2>3, <2>4 DEF OwnConnection, Own
<1>2. IInv /\ AttemptsApart /\ NoStaleMacro /\ NoForeignTail => NothingCarriedOver
  BY <1>1 DEF NothingCarriedOver
<1>3. QED
  BY <1>2, Invariant, StartsClean, StaysApart, PTL

\* A failure is told once, whatever closing its socket, or the last one's, emits, unless a retry left from the
\* last attempt fails in this one too, and an attempt the operator gives up is no failure.
THEOREM FailureIsToldOnce == Spec => ToldOnce
<1>1. AttemptsApart' => (tcp'.met # "Retry" => tcp'.told <= 1)
  BY DEF AttemptsApart, Apart, ToldAtMostOnce
<1>2. ASSUME IInv, IoDisconnects, tcp.state \in {"Connecting", "Authenticating"}
      PROVE  tcp'.told = tcp.told
  <2>1. PICK fails \in BOOLEAN, slow \in BOOLEAN : Becomes(DisconnectFromHost(tcp, fails, slow))
    BY <1>2 DEF IoDisconnects
  <2>2. UNCHANGED main
    BY <1>2 DEF IoDisconnects, IoOnly
  <2> DEFINE s == DisconnectFromHost(tcp, fails, slow)
  <2>3. Sound(s) /\ s.told = tcp.told
    BY <1>2, ClientIs, Disconnects
  <2>4. Becomes(s)
    BY <2>1
  <2> HIDE DEF s
  <2>5. QED
    BY <1>2, <2>2, <2>3, <2>4, ClientIs, Becoming
<1>3. QED
  BY <1>1, <1>2, Invariant, StaysApart, PTL DEF Spec, ToldOnce

=============================================================================

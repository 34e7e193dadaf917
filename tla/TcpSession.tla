----------------------------- MODULE TcpSession -----------------------------
(***************************************************************************)
(* network/tcpclient.cpp on the I/O thread, its QSslSocket and timers, and *)
(* controllers/connectioncontroller.cpp on the main thread: an attempt to  *)
(* reach a K4, the session it becomes, and how each ends.  A handler of    *)
(* TcpClient is an operator from the client's record to the record it      *)
(* leaves, because handlers call each other and the socket calls back into *)
(* them: abort() on a connected socket emits disconnected(), and a write   *)
(* or a connect that fails emits errorOccurred(), before it returns.       *)
(* Fault_... are seeded faults: what the definition of that name would be  *)
(* with a plausible bug, for a property to catch.                          *)
(***************************************************************************)
EXTENDS Naturals, Sequences, FiniteSets

CONSTANTS Radios,       \* the saved radios
          Tls,          \* those reached over TLS/PSK
          Mdns,         \* those whose host is a .local name
          Nobody,
          MaxRequests,  \* bound: what the operator asks for
          MaxSignals    \* bound: signals waiting for the main thread while bytes are read

ASSUME SessionAssumption ==
  /\ Tls \subseteq Radios /\ Mdns \subseteq Radios /\ Nobody \notin Radios
  /\ MaxRequests \in Nat /\ MaxSignals \in Nat

VARIABLES
  tcp,        \* TcpClient with its socket, timers and parser
  lookups,    \* lookupHost() calls not yet answered
  calls,      \* calls queued to the I/O thread
  signals,    \* signals queued to the main thread
  requests,   \* number of the operator's last request
  main        \* what the main thread has heard: state, CwController's m_radioReady; late counts
              \* the attempt's own packets heard since the session ended (history)

vars == <<tcp, lookups, calls, signals, requests, main>>

States == {"Disconnected", "Connecting", "Authenticating", "Connected"}
Timers == {"Connect", "Auth", "Ping", "Retry"}
Errors == {"Network", "Other"}
Outcomes == Errors \cup {"Pending"}

Unconnected == [st |-> "Unconnected", peer |-> Nobody, keyed |-> Nobody,
                tls |-> FALSE, secure |-> FALSE, of |-> 0]

\* peer: whom it calls; keyed: whose credentials it was given; of: the attempt that opened it.
Dialling(s) == [st |-> "Connecting", peer |-> s.host, keyed |-> Nobody,
                tls |-> s.radio \in Tls, secure |-> FALSE, of |-> s.attempt]

Up(socket) == socket.st \in {"Connected", "Closing"}

\* What an attempt can find left of the last: nothing; a socket that is still closing; or a retry that
\* endSession() did not stop, or the socket that it, or an attempt ended while it dialled, opened after the end.
Leftovers == {"Nothing", "Closing", "Retry"}

\* radio: whose password, identity and TLS setting are kept; host: m_host; request, told and met are
\* history: the request the attempt answers, the errors reported for it, what it found left.
Init ==
  /\ tcp = [state |-> "Disconnected", attempt |-> 0, radio |-> Nobody, host |-> Nobody, answered |-> FALSE,
            retries |-> 0, timers |-> {}, macro |-> 0, socket |-> Unconnected, tail |-> 0,
            request |-> 0, told |-> 0, met |-> "Nothing", out |-> <<>>]
  /\ lookups = {} /\ calls = <<>> /\ signals = <<>> /\ requests = 0
  /\ main = [state |-> "Disconnected", ready |-> FALSE, late |-> 0]

-----------------------------------------------------------------------------
(* The parts the handlers are made of. *)

StateSignal(st) == [kind |-> "State", state |-> st]
Signal(k) == [kind |-> k]
DataSignal(own) == [kind |-> "Data", own |-> own]

Emit(s, m) == [s EXCEPT !.out = Append(@, m)]
Start(s, t) == [s EXCEPT !.timers = @ \cup {t}]
Stop(s, t) == [s EXCEPT !.timers = @ \ {t}]

SetState(s, st) == IF s.state = st THEN s ELSE Emit([s EXCEPT !.state = st], StateSignal(st))

\* m_protocol->reset(); tail: the connection whose unfinished packet is in the parser.
ResetParser(s) == [s EXCEPT !.tail = 0]

Tell(s) == Emit([s EXCEPT !.told = @ + 1], Signal("Error"))

Silent(s) == s.state = "Authenticating" /\ ~s.answered

\* ConnectFailure::classify(): whether the event is something to tell the operator.
IsFailure(s, event) ==
  \/ event = "ConnectTimeout" /\ s.state = "Connecting"
  \/ event \in {"AuthTimeout", "SocketClosed"} /\ Silent(s)
  \/ event = "SocketError"

ReportFailure(s, event) == IF IsFailure(s, event) THEN Tell(s) ELSE s

\* endSession() before it touches the socket.
Retire(s) == ResetParser(SetState([s EXCEPT !.attempt = @ + 1, !.timers = {}], "Disconnected"))

\* The socket is Unconnected by the time it emits disconnected(), so endSession() has nothing to close.
OnSocketDisconnected(s) ==
  IF s.state = "Disconnected" THEN s ELSE Retire(ReportFailure(s, "SocketClosed"))

\* m_socket->abort(): a socket that was connected or closing emits disconnected() from inside it.
Abort(s) ==
  LET gone == [s EXCEPT !.socket = Unconnected] IN
  IF Up(s.socket) THEN OnSocketDisconnected(gone) ELSE gone

Fault_EndSession(s) == Retire(Abort(s))

\* endSession(Close::Abort)
EndSession(s) == Abort(Retire(s))

Fault_OnSocketError(s, e) ==
  IF s.state = "Disconnected" THEN s
  ELSE IF e = "Network" /\ s.state = "Connecting"
       THEN Start(Abort(Stop([s EXCEPT !.retries = @ + 1], "Connect")), "Retry")
       ELSE EndSession(ReportFailure(s, "SocketError"))

\* A cold ARP cache is retried twice.
OnSocketError(s, e) ==
  IF s.state = "Disconnected" THEN s
  ELSE IF e = "Network" /\ s.state = "Connecting" /\ s.retries < 2
       THEN Start(Abort(Stop([s EXCEPT !.retries = @ + 1], "Connect")), "Retry")
       ELSE EndSession(ReportFailure(s, "SocketError"))

\* The socket fails: errorOccurred(), then it closes.
SocketError(s, e) == Abort(OnSocketError(s, e))

\* sendCAT(), writeKzFrames(), sendAuthentication(): each flushes, and a flush may find the peer gone.
Write(s, fails) == IF fails /\ s.socket.st = "Connected" THEN SocketError(s, "Other") ELSE s

\* endSession(Close::Graceful): the goodbye, then a close that waits (slow) for it to be written.
DisconnectFromHost(s, fails, slow) ==
  IF s.state = "Connected" /\ s.socket.st = "Connected"
  THEN LET r == Retire(Write(s, fails)) IN
       IF slow /\ r.socket.st = "Connected" THEN [r EXCEPT !.socket.st = "Closing"] ELSE Abort(r)
  ELSE EndSession(s)

Fault_AttemptConnection(s, psk, outcome) ==
  LET free == Abort(ResetParser(s))
      dialled == [free EXCEPT !.socket = Dialling(free)]
  IN IF free.radio \in Tls /\ ~psk THEN EndSession(Tell(free))
     ELSE IF outcome = "Pending" THEN dialled ELSE SocketError(dialled, outcome)

\* attemptConnection(). psk: the TLS backend offers PSK ciphers; outcome: connect() in progress, or
\* failed before connectToHost() returned.
AttemptConnection(s, psk, outcome) ==
  LET free == Abort(ResetParser(s))
      dialled == [free EXCEPT !.socket = Dialling(free)]
  IN IF free.radio \in Tls /\ ~psk THEN EndSession(Tell(free))
     ELSE Start(IF outcome = "Pending" THEN dialled ELSE SocketError(dialled, outcome), "Connect")

Fault_Accept(s, fails) ==
  LET up == SetState(Stop([s EXCEPT !.answered = TRUE], "Auth"), "Connected")
      sent == Write([Start(up, "Ping") EXCEPT !.macro = 0], fails)
  IN Emit(sent, Signal("Ready"))

\* The lambda on packetReceived: the first packet accepts the session, and QK4 sends its set-up.
Accept(s, fails) ==
  LET up == SetState(Stop([s EXCEPT !.answered = TRUE], "Auth"), "Connected")
      ready == Start(Emit(up, Signal("Ready")), "Ping")
  IN Write([ready EXCEPT !.macro = 0], fails)

-----------------------------------------------------------------------------
(* One event of the I/O thread's loop. *)

\* The client becomes s, and what it emitted is queued to the main thread.
Becomes(s) ==
  /\ tcp' = [s EXCEPT !.out = <<>>]
  /\ signals' = signals \o s.out

IoOnly == UNCHANGED <<requests, main>>
Event(s) == Becomes(s) /\ UNCHANGED <<lookups, calls>> /\ IoOnly

Called(k) == calls # <<>> /\ Head(calls).kind = k /\ calls' = Tail(calls)

IoSetsMacro ==
  /\ Called("Macro")
  /\ Becomes([tcp EXCEPT !.macro = Head(calls).macro])
  /\ UNCHANGED lookups /\ IoOnly

IoDisconnects ==
  /\ Called("Disconnect")
  /\ \E fails, slow \in BOOLEAN : Becomes(DisconnectFromHost(tcp, fails, slow))
  /\ UNCHANGED lookups /\ IoOnly

LeftOver(s) ==
  IF "Retry" \in s.timers \/ s.socket.st \in {"Connecting", "Connected"} THEN "Retry"
  ELSE IF s.socket.st = "Closing" THEN "Closing" ELSE "Nothing"

\* What connectToHost() does before it dials; an attempt or a session in progress ends.
Asked(s, r, n, fails, slow) ==
  LET free == IF s.state = "Disconnected" THEN s ELSE DisconnectFromHost(s, fails, slow)
  IN SetState([free EXCEPT !.attempt = @ + 1, !.radio = r, !.host = r, !.answered = FALSE, !.retries = 0,
                           !.request = n, !.told = 0, !.met = LeftOver(free)], "Connecting")

IoConnects ==
  /\ Called("Connect")
  /\ LET c == Head(calls) IN
     \E fails, slow \in BOOLEAN :
       LET s == Asked(tcp, c.radio, c.request, fails, slow) IN
       IF c.radio \in Mdns
       THEN /\ Becomes(s)
            /\ lookups' = lookups \cup {[attempt |-> s.attempt, radio |-> c.radio]}
       ELSE /\ \E psk \in BOOLEAN, outcome \in Outcomes : Becomes(AttemptConnection(s, psk, outcome))
            /\ UNCHANGED lookups
  /\ IoOnly

Fault_LookupAnswered(l) ==
  /\ lookups' = lookups \ {l}
  /\ \/ /\ tcp.state = "Connecting"
        /\ \E psk \in BOOLEAN, outcome \in Outcomes :
             Becomes(AttemptConnection([tcp EXCEPT !.host = l.radio], psk, outcome))
     \/ tcp.state # "Connecting" /\ Becomes(tcp)
  /\ UNCHANGED calls /\ IoOnly

\* The lambda of lookupHost(): stale, failed, or the address to call.
LookupAnswered(l) ==
  /\ lookups' = lookups \ {l}
  /\ IF l.attempt # tcp.attempt \/ tcp.state # "Connecting"
     THEN Becomes(tcp)
     ELSE \/ Becomes(EndSession(Tell(tcp)))
          \/ \E psk \in BOOLEAN, outcome \in Outcomes :
               Becomes(AttemptConnection([tcp EXCEPT !.host = l.radio], psk, outcome))
  /\ UNCHANGED calls /\ IoOnly

Fault_OnSocketConnected(s, fails) ==
  IF s.state # "Connecting" THEN Abort(s)
  ELSE IF s.radio \in Tls THEN s
  ELSE LET asking == SetState(Stop(s, "Connect"), "Authenticating")
       IN Write([asking EXCEPT !.socket.keyed = s.radio], fails)

\* The TCP connection is up; over TLS the handshake follows, else the password's hash goes out.
OnSocketConnected(s, fails) ==
  IF s.state # "Connecting" THEN Abort(s)
  ELSE IF s.radio \in Tls THEN s
  ELSE LET asking == SetState(Stop(s, "Connect"), "Authenticating")
       IN Start(Write([asking EXCEPT !.socket.keyed = s.radio], fails), "Auth")

SocketConnects ==
  /\ tcp.socket.st = "Connecting"
  /\ \E fails \in BOOLEAN : Event(OnSocketConnected([tcp EXCEPT !.socket.st = "Connected"], fails))

Handshaking == tcp.socket.st = "Connected" /\ tcp.socket.tls /\ ~tcp.socket.secure

OnPreSharedKeyAuthenticationRequired ==
  /\ Handshaking
  /\ tcp.socket.keyed = Nobody
  /\ Event([tcp EXCEPT !.socket.keyed = tcp.radio])

OnSocketEncrypted(s) ==
  IF s.state # "Connecting" THEN Abort(s)
  ELSE Start(SetState(Stop(s, "Connect"), "Authenticating"), "Auth")

SocketEncrypts ==
  /\ Handshaking
  /\ tcp.socket.keyed # Nobody
  /\ Event(OnSocketEncrypted([tcp EXCEPT !.socket.secure = TRUE]))

SocketFails(e) ==
  /\ tcp.socket.st # "Unconnected"
  /\ Event(SocketError(tcp, e))

\* disconnected() without an error: a close of ours that took its time, or a connection that was
\* already in use (one that fails before is an error).
SocketCloses ==
  /\ Up(tcp.socket)
  /\ tcp.state = "Connecting" => tcp.socket.st = "Closing"
  /\ Event(OnSocketDisconnected([tcp EXCEPT !.socket = Unconnected]))

\* The bytes read hold a whole packet, or end in part of one, or both.
Parse(s, packet, part, fails) ==
  LET accepted == IF s.state = "Authenticating" /\ ~s.answered THEN Accept(s, fails) ELSE s
      told == IF packet THEN Emit(accepted, DataSignal(s.socket.of = s.attempt)) ELSE s
  IN IF s.tail \notin {0, s.socket.of} THEN s
     ELSE [told EXCEPT !.tail = IF part /\ told.attempt = s.attempt THEN s.socket.of ELSE 0]

OnReadyRead(s, packet, part, fails) ==
  IF s.state = "Disconnected" THEN s ELSE Parse(s, packet, part, fails)

SocketReads ==
  /\ Up(tcp.socket)
  /\ tcp.socket.tls => tcp.socket.secure
  /\ Len(signals) < MaxSignals
  /\ \E packet, part, fails \in BOOLEAN : Event(OnReadyRead(tcp, packet, part, fails))

\* Any write of a session that fails at once: sendCAT(), the keyer's frames, the ping.
WriteFails ==
  /\ tcp.state = "Connected"
  /\ Event(Write(tcp, TRUE))

\* A single-shot timer t fires.
Fires(t, s) == t \in tcp.timers /\ Event(s)

OnConnectTimeout(s) ==
  IF s.state = "Connecting" THEN EndSession(ReportFailure(s, "ConnectTimeout")) ELSE s

OnAuthTimeout(s) == IF Silent(s) THEN EndSession(ReportFailure(s, "AuthTimeout")) ELSE s

ConnectTimeout == Fires("Connect", OnConnectTimeout(Stop(tcp, "Connect")))
AuthTimeout == Fires("Auth", OnAuthTimeout(Stop(tcp, "Auth")))

RetryTimeout ==
  \E psk \in BOOLEAN, outcome \in Outcomes :
    Fires("Retry", AttemptConnection(Stop(tcp, "Retry"), psk, outcome))

-----------------------------------------------------------------------------
(* The main thread. *)

MacroCall(n) == [kind |-> "Macro", macro |-> n]
ConnectCall(r, n) == [kind |-> "Connect", radio |-> r, request |-> n]
DisconnectCall == [kind |-> "Disconnect"]

Requests(n, queued) ==
  /\ requests < MaxRequests
  /\ requests' = n
  /\ calls' = calls \o queued
  /\ UNCHANGED <<tcp, lookups, signals, main>>

\* macro: the operator has a startup macro; an empty one is sent too. A macro is numbered by its request.
ConnectToRadio(r, macro) ==
  LET n == requests + 1 IN
  Requests(n, <<MacroCall(IF macro THEN n ELSE 0), ConnectCall(r, n)>>)

DisconnectFromRadio == Requests(requests + 1, <<DisconnectCall>>)

Hears(k) == signals # <<>> /\ Head(signals).kind = k /\ signals' = Tail(signals)
MainOnly == UNCHANGED <<tcp, lookups, calls, requests>>

HearState ==
  /\ Hears("State")
  /\ LET st == Head(signals).state IN
     main' = [state |-> st,
              ready |-> main.ready /\ st = "Connected",
              late |-> IF st = "Connected" THEN 0 ELSE main.late]
  /\ MainOnly

HearReady == Hears("Ready") /\ main' = [main EXCEPT !.ready = TRUE] /\ MainOnly

HearError == Hears("Error") /\ UNCHANGED main /\ MainOnly

HearData ==
  /\ Hears("Data")
  /\ main' = [main EXCEPT !.late = IF main.state = "Connected" THEN 0
                                   ELSE IF Head(signals).own THEN @ + 1 ELSE @]
  /\ MainOnly

-----------------------------------------------------------------------------
IoCall == IoSetsMacro \/ IoDisconnects \/ IoConnects
Timeout == ConnectTimeout \/ AuthTimeout \/ RetryTimeout
SocketEvent ==
  \/ SocketConnects \/ OnPreSharedKeyAuthenticationRequired \/ SocketEncrypts
  \/ SocketCloses \/ SocketReads \/ WriteFails \/ \E e \in Errors : SocketFails(e)
Hear == HearState \/ HearReady \/ HearError \/ HearData
Operator == DisconnectFromRadio \/ \E r \in Radios, macro \in BOOLEAN : ConnectToRadio(r, macro)

Next == IoCall \/ Timeout \/ SocketEvent \/ Hear \/ Operator \/ \E l \in lookups : LookupAnswered(l)

Spec == Init /\ [][Next]_vars

\* Timers fire and a lookup is answered in the end; nothing is assumed of the network or the radio.
FairSpec ==
  /\ Spec
  /\ WF_vars(ConnectTimeout) /\ WF_vars(AuthTimeout) /\ WF_vars(RetryTimeout)
  /\ WF_vars(\E l \in lookups : LookupAnswered(l))

-----------------------------------------------------------------------------
(* What is checked. *)

Sockets ==
  [st : {"Unconnected", "Connecting", "Connected", "Closing"}, peer : Radios \cup {Nobody},
   keyed : Radios \cup {Nobody}, tls : BOOLEAN, secure : BOOLEAN, of : Nat]

\* The type invariant: a cold ARP cache is retried at most twice, no signal is left unsent, and the
\* TLS handshake belongs to a socket that was opened for it.
TypeOK ==
  /\ tcp.state \in States /\ tcp.attempt \in Nat /\ tcp.answered \in BOOLEAN
  /\ tcp.radio \in Radios \cup {Nobody} /\ tcp.host \in Radios \cup {Nobody}
  /\ tcp.retries \in 0 .. 2 /\ tcp.timers \subseteq Timers /\ tcp.macro \in 0 .. requests
  /\ tcp.socket \in Sockets /\ tcp.tail \in Nat /\ tcp.told \in Nat /\ tcp.request \in 0 .. requests
  /\ tcp.met \in Leftovers
  /\ tcp.out = <<>> /\ (tcp.socket.secure => tcp.socket.tls)
  /\ lookups \subseteq [attempt : Nat, radio : Mdns]
  /\ main \in [state : States, ready : BOOLEAN, late : Nat]

\* Something is always due that ends the phase the client is in: a lookup's answer or a timer, and
\* in a session the pings the K4 wants (it drops a client that does not send them).
NeverStuck ==
  /\ tcp.state = "Connecting" =>
       tcp.timers \cap {"Connect", "Retry"} # {} \/ \E l \in lookups : l.attempt = tcp.attempt
  /\ tcp.state = "Authenticating" => "Auth" \in tcp.timers
  /\ tcp.state = "Connected" <=> "Ping" \in tcp.timers

\* A radio is only ever given its own password or pre-shared key, however fast the operator switches
\* between radios (TRN-001), unless a retry left from the last attempt dials into this one.
CredentialsToTheirRadio ==
  tcp.socket.st # "Closing" /\ tcp.met # "Retry" => tcp.socket.keyed \in {Nobody, tcp.socket.peer}

\* The operator hears of an attempt that fails once, though closing its socket, or the last one's,
\* emits signals of its own, and never of one he cancelled (TRN-002). Only a retry left from the last
\* attempt can fail in this one again.
ToldOnce ==
  [][/\ tcp'.met # "Retry" => tcp'.told <= 1
     /\ IoDisconnects /\ tcp.state \in {"Connecting", "Authenticating"} => tcp'.told = tcp.told]_vars

\* An attempt never carries a startup macro that was set for an earlier one: the operator may have
\* changed or removed it since.
NoStaleMacro ==
  tcp.state \in {"Connecting", "Authenticating"} => tcp.macro = 0 \/ tcp.macro >= tcp.request

\* The parser never holds the unfinished packet of another connection: it would swallow the reply
\* to the password, and the reconnect would time out.
NoForeignTail == tcp.socket.st \in {"Connecting", "Connected"} => tcp.tail \in {0, tcp.socket.of}

\* Once the main thread has heard that a session ended, at most the packet that was being handled
\* when it did still reaches it of what its own attempt read: RadioState was reset and would show
\* the old radio.
AtMostOneLate == main.late <= 1

\* An attempt may begin while the last socket is still closing, and reads what comes on it as long as
\* the lookup of its own radio's address lasts; it never dials, authenticates or holds a session with
\* a socket it did not open. Only a retry left from the last attempt can hand it one.
OwnConnection ==
  tcp.state # "Disconnected" /\ tcp.socket # Unconnected /\ tcp.socket.of # tcp.attempt =>
    \/ tcp.met = "Retry"
    \/ /\ tcp.met = "Closing" /\ tcp.state = "Connecting" /\ tcp.socket.st = "Closing"
       /\ \E l \in lookups : l.attempt = tcp.attempt

\* Of an attempt or a session that was left nothing reaches the next one, whatever socket that one
\* meets, but the packets OwnConnection admits: not its password, its macro, half a packet of it, nor
\* more than one of its replies.
NothingCarriedOver == CredentialsToTheirRadio /\ NoStaleMacro /\ NoForeignTail /\ AtMostOneLate /\ OwnConnection

\* The keyer may key exactly while there is a session, as soon as the main thread has caught up.
ReadyIsConnected ==
  LET news == {i \in DOMAIN signals : signals[i].kind \in {"State", "Ready"}}
      ready == \/ news = {} /\ main.ready
               \/ \E i \in news : signals[i].kind = "Ready" /\ \A j \in news : j <= i
  IN ready <=> tcp.state = "Connected"

\* Every attempt ends, in a session or without one, whatever the radio and the network do.
EveryAttemptEnds == tcp.state \in {"Connecting", "Authenticating"} ~> tcp.state \in {"Disconnected", "Connected"}
=============================================================================

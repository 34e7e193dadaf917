# QK4 verification: TLA+ models, model checks and proofs

QK4 is a desktop client for the Elecraft K4 transceiver. It keys a transmitter from a network link:
an error is not a wrong pixel but a radio left on the air, or the operator's room sent out over the
band. This directory models the parts of QK4 where that can happen: who may transmit, how the decision
is carried out across the program's threads, how client programs that crash are kept from leaving
the transmitter keyed, how keying reaches the socket, how a connection to the radio comes and goes,
how a USB keyer is opened and lost, how the paddles' edges become keying, and how QK4 replaces itself by a newer version.

Source paths below are relative to the repository's `src/`. `PROJECT.json` maps every definition
to its lines, and lists the hazards, the runs, the seeded faults and the theorems.

## 1. The system

### Threads

| thread | what runs there | reached by |
| --- | --- | --- |
| main | UI, `RadioState`, `TransmitController`, `TciController`, `CatServer`, `HardwareController` | queued signals |
| I/O | `TcpClient`, `Protocol`, the drain of `KzEgress` | queued calls (`QMetaObject::invokeMethod`) |
| TX audio | `TxAudioPipeline`: gate, source, microphone, encoder | queued calls, and one atomic (the source) written directly |
| RX audio | decoder and playout | queued calls |
| TCI | `TciServer` and its WebSocket server | queued calls |
| paddle device (MIDI, USB, serial), keyer | edges; bursts, elements and the frames they send | locked queues and a semaphore (`PaddleKeyer`), lock-free queue (`KzEgress`) |
| KPOD, KPOD+ | USB polling | queued signals, lock-free queue |

The update on Windows is about processes: several copies of QK4 and of its launcher, which share a directory
and an advisory lock.

A queued call is delivered in order, once, at any later time. Everything hard in QK4 comes from this:
a decision is taken on one thread against a copy of the state of another, and its effects reach two
or three further threads in an order nobody chose.

### Components

| component | state | operations | what makes it correct | model |
| --- | --- | --- | --- | --- |
| Transmit arbiter (`models/transmitowner.h`) | owner, route, radioConfirmed | engage, release, releaseAll, operatorStop, radioReports | one holder; only the operator preempts, never the operator; effects are exactly the difference of two routes | `TransmitOwner`, `TransmitLock` |
| Transmit control (`controllers/transmitcontroller.cpp`) | the arbiter's `m_state` | the same, executed: source, `TX;`, gate, abort, `RX;`, switch | indicator honest; gate, microphone and key commands follow the holder through every interleaving | `TransmitControl` |
| TX audio path (`audio/txaudiopipeline.cpp`, `controllers/audiocontroller.cpp`) | `m_pttActive`, `m_txSource`, the source generation, `m_micOpen` | gate, source now, source after PTT, device change, permission answer, stop; a block of audio taken, a frame sent | no microphone frame under a TCI transmission; microphone open only while transmitting from it | `TransmitControl` |
| CAT server (`network/catserver.cpp`) | clients, `m_pttOwner`, `m_pttOwnerForwarded`, pending queries | TX/RX commands by two routes, connect, disconnect, stop; queries | a client's departure ends exactly its own transmission | `RemotePtt` (PTT only) |
| TCI server and controller (`network/tciserver.cpp`, `controllers/tcicontroller.cpp`) | clients, `m_pttOwner`; `m_drivingPtt` | trx from a client, connect, drop, stop, releaseLocalPtt; refusal | server and arbiter agree, once quiet, on whether a client transmits | `RemotePtt` (PTT only) |
| TCP session (`network/tcpclient.cpp`, `network/connect_failure.h`) | state, attempt id, host, macro, retries, connect/auth/ping/retry timers, host lookups, the parser's unfinished packet | connect, disconnect, socket events, timers | no event of an abandoned attempt touches the present one; every attempt ends and is reported once | `TcpSession` |
| Connection controller (`controllers/connectioncontroller.cpp`) | state heard, readiness | connect, disconnect, macro, marshalled to the I/O thread | the keyer may key exactly while there is a session; nothing of an old session is shown | `TcpSession` |
| KZ egress (`network/kzegress.{h,cpp}`) | bounded lock-free ring, wake flag, pipe | post, wake, onWake, drain | FIFO in claim order; no lost wake-up; nothing overwritten | `KzEgress`, `KzFifo` |
| USB device lifecycle (`hardware/usbdevicelifecycle.h`, `controllers/hardwarecontroller.cpp`, `hardware/kpodplus*`) | policy: present, open, enabled; facade: polling; worker: handle, address; EP02 reader: handle | detected, lost, opened, enabled, disabled; open, close, poll, presence tick, transfer | a transfer only on the open handle; the CW gate follows the device; one removal per session | `UsbDevice` (KPOD+) |
| Paddle keyer (`hardware/paddlekeyer.{h,cpp}`) | event and release queues, the straight key, the paddles' history, the burst's element and memories, `m_k4Keyed`, the monitor's mute | edge, inhibit, release, close; pop, burst, element, reconcile, wait | never left keyed; key-downs and key-ups alternate; a release ends the burst; a closed keyer ends | `PaddleKeyer` |
| Update flow (`update/updateflow.cpp`, `update/windowsinstaller.cpp`, `tools/windows-launcher/`) | version folders, `current.txt`, `.healthy`, `update-failed.txt`, the update lock; each copy's popup, each launcher's job | offer, install, hand over; launch, finish, commit, roll back, clean up | nothing deleted from under a running copy; a version always left; `current.txt` only forward | `WindowsUpdate` |
| Control surfaces (KPOD, Ulanzi dial), RX audio, DX cluster, amplifier and tuner, WebSocket framing, radio state caches, CAT framing, settings, logging, UI, spectrum, Ulanzi plugin, third party | | | | not modelled, or only where another module meets them; reasons in `PROJECT.json` |

### How they interact

    producers (PTT button, XMIT, Esc, Ulanzi, CatServer, TciController)
        |  direct calls on the main thread
        v
    TransmitController --decides with--> TransmitOwner      RadioState <--TX;/RX; echoes-- I/O thread
        |            ^--radioReports------------------------------'
        |--source written at once; gate, switch and stop queued--> TX audio thread --frames queued--> I/O thread
        |--TX; RX; abort queued------------------------------------------------------> I/O thread --> K4
        |--ownerChanged--> TciController --releaseLocalPtt queued--> TCI thread --pttRequested queued--> TciController

    ConnectionController --macro, connect, disconnect queued--> TcpClient (I/O thread) --socket, timers, lookups
        ^--state, ready, error, replies queued----------------------'

    PaddleKeyer, KPOD+ EP02 reader --post(), lock-free--> KzEgress --drain, I/O thread--> TcpClient --> K4

    paddle device --paddleEvent(), locked queue--> PaddleKeyer thread <--releases, inhibit, close-- main thread

    QK4 copies --install: version folder, --finish-update--> launcher --starts, watches, commits or rolls back--> QK4 copies
        '------------- install root: versions\, current.txt, update-failed.txt, .update.lock --------------'

    HardwareController (policy) --open, close queued--> KpodPlusUsbWorker --handle, direct--> KpodPlusEp02Worker
        |  ^--info, arrived, removed queued-----------------'  ^--transferError queued--------------'
        '--kpodPlusOwnsCw--> CwController: QK4's own keyer inhibited

### What is hard

* **Orderings nobody tested.** The gate, the source and the key commands travel by three queues to two threads,
  and audio frames join one of them from behind.
* **State read before and used after.** `isConnected()` is read when the decision is taken and again when
  the gate is posted; the link may go between the two.
* **Echoes that are late.** The K4 acknowledges by `TX;`/`RX;`, which may belong to the previous transmission.
* **Clients that vanish.** A logger crashes in mid-transmission, after another has keyed, or having
  changed route since.
* **Two owners of one fact.** The TCI server and the arbiter both record who keyed, on different threads.
* **Reentrancy.** A socket's `abort()`, `write()` and `connectToHost()` emit signals before they return, so the
  teardown of an attempt runs inside the handler that caused it.
* **Lock-free hand-over.** Three threads share a ring and one flag; a wake-up lost there is a key left down.
* **Answers that come after the question changed.** A device is opened and closed on another thread, and the
  answer arrives after it was unplugged or switched off.
* **Decisions about the past.** The keyer decides an element as of an instant before the one it runs at, with edges
  and releases recorded since, and carries out releases later than they were asked for.
* **Processes that are killed.** A launcher may die between the rename of a folder and the check that nothing runs
  from it; a program may be started from the folder in between.
* **Sessions.** A queued `stop()` of one session can run in the next one, while `openMic()` blocks the TX thread.

Each is a hazard in `PROJECT.json` with the properties that would catch it going wrong.

## 2. Plan

The order is by what the failure would cost: transmit first, then the paths that can leave the radio keyed,
then the session, then the devices.

| step | module | composes | abstract specification | theorems worth proving | status |
| --- | --- | --- | --- | --- | --- |
| 1 | `TransmitOwner` | | `TransmitLock` | every decision sound | done, proved |
| 2 | `TransmitControl` | `TransmitOwner`, TX audio, link, radio | `TransmitLock` (refinement) | types, indicator and confirmation, refinement; gate, key commands, source, microphone | done, proved |
| 3 | `RemotePtt` | `TransmitOwner`, `CatServer`, `TciServer`, `TciController` | | a departing CAT client leaves nothing keyed; no client unkeys the operator | done, proved |
| 4 | `KzEgress` | keyer threads, ring, I/O thread | `KzFifo`, a FIFO in claim order | safety and refinement | done, proved |
| 5 | `TcpSession` | `TcpClient`, its socket and timers, `ConnectionController` | | a timer or a lookup is always due; nothing carried over; told once | done, proved |
| 6 | `UsbDevice` | policy, facade, USB worker, EP02 reader | | types, live handle, gated keying, no deaf reader, one removal | done, proved |
| 7 | `PaddleKeyer` | device thread, main thread, keyer thread | | types, alternation, not left keyed, a release ends the burst | done, proved |
| 8 | `WindowsUpdate` | copies of QK4, launchers, the install root | | types, folders kept, `current.txt` | done, proved |
| 9 | proofs | | | every invariant and action property a run checks | done |
| 10 | `CatQueries` | pending GETs of `CatServer` against the radio | each answer to its asker | no entry outlives its client | planned |

Each run asks one question of the system, with two or three actors and queues one slot longer than the
interesting overlap needs. No module that is proved about declares a recursive operator.

## 3. The modules and the code

A definition whose name begins with `Fault_` is a seeded fault: the definition of that name as a plausible bug would
have it. Each property is checked to fail under one of them, so that it is known to say something about the code.

### TransmitOwner, TransmitLock

`models/transmitowner.h` is pure: a State and an event give a State and Effects. So is `TransmitOwner`: `Engage`,
`Release`, `ReleaseAll`, `OperatorStop` and `RadioReports` return `[s, e]`, built like the code from one `Transition`.
`TransmitLock` is what the arbiter promises: one holder; a free transmitter (or one the radio keyed itself) may be
taken by anybody, a held one only by the operator and only from somebody who is not the operator.

### TransmitControl

The arbiter executed. `arb` is `m_state`; `Apply` is the decision and `todo` what is left of
`TransmitController::apply()`, one step at a time in the code's order (source, `TX;`, gate, abort, `RX;`, switch), with the
other threads running in between. The main thread takes no other event until `todo` is empty, as in the code.

| part | state | actions |
| --- | --- | --- |
| main thread | `arb`, `indicator`, `rsTx`, `todo`, `mainQ` | `EngageRequest`, `ReleaseRequest`, `XmitStops`, `Escape`, `CatStopsRadio`, the steps of `apply()`, `HearEcho`, `HearLost` |
| TX thread | `pipe`, `buf`, `txQ` | `SetPttActive`, `SwitchSource`, `ReconcileMic`, `StopPipeline`; `TakeBlock`, `SendBlock` |
| I/O thread, radio | `link`, `ioQ`, `radio` | `IoDrops`, `IoSendsTx`, `IoSendsRx`, `IoSendsAudio`, and the radio's own changes |
| environment | `sessions`, `overtaken` | `LinkLost`, `LinkUp`, the microphone's device and permission |

A switch carries `current`, false once a later source write superseded it: all the generation counter is used for.
`ep` numbers transmissions and is history: it is carried by messages so that properties can say "of an earlier
transmission", and no guard other than its bound reads it.

A block of audio is two steps of the TX thread, for the main thread writes the source while it is being converted.
`TakeBlock` is the look at the source (`audio/txaudiopipeline.cpp:388`, and 323 for TCI audio): `buf.block` is the source the
block was accepted from. `SendBlock` is the look at the gate (423) and the frames (426 to 434, 489). The gate is only ever
written on the TX thread, so nothing comes between those two; what comes before them is a change of the source, and the
flush of `m_micBuffer` it posts (280), which waits behind the block in hand. `buf.left` says that the half
frame left in `m_micBuffer` has samples of the microphone; a frame with any of them is the microphone's.

`RoomNeverUnderTci` says what is left of "the room is never transmitted under TCI" with that. A client is granted the transmitter
before the same handler has written its source, and a block in hand is sent whatever the source has become: the room can be read,
and a frame of it sent, at the tail of the *previous* transmission, whose gate is still open. No frame with any of it is
sent in the client's own transmission, for the gate that opens it waits behind the block in hand and is posted behind the flush
(and flushes by itself when the gate was closed, `setPttActive()`). `overtaken` is history: the session began with the `stop()` of the last one still
to be carried out, the one case where the source of a transmission is undone behind its back (section 4).
`NotLeftKeyed` looks only at the key commands on their way and at the holder's route; audio behind them
does not hold it up.

### RemotePtt

The servers' bookkeeping of who keyed. The CAT server asks the arbiter by direct call, so each of its actions is a whole
command or departure. The TCI server is on its own thread: `toMain` is its `pttRequested`, and `toTci` counts the
`releaseLocalPtt` calls on their way back, which carry nothing and so need no order among themselves. Losing a client
from inside a broadcast is `TciKeyDropsClient`. `toMain` holds `"Key"` and `"Unkey"` for `pttRequested(true)` and `(false)`.

### KzEgress, KzFifo

The ring, one action per access to shared memory: `FindsRoom`, `FindsFull` and `FallsBehind` are the three answers of the
sequence number a thread loaded, `Claim` and `ClaimFails` the compare-and-swap, then `Write`, `Publish`, `Signal` (the
flag) and `Wake` (the pipe); on the I/O thread `ReadPipe`, `ClearFlag`, `HandOver`, `FreeSlot`, `DrainEnds`. Interleaving
these is sequential consistency, which the code pays for: a slot is handed over by release and acquire, and the flag against
the queue by sequentially consistent operations and fences. A frame is its thread and number. The sequence numbers are
not wrapped: 64 bits are not used up. Left out: frames that are empty or too long, which no caller
posts, and the event notifier's fallback for a pipe that cannot be made.

### TcpSession

`TcpClient` is one record `tcp`: state, attempt, host, retries, timers, macro, socket, the parser's `tail`. Handlers of
the code call each other and are called back by the socket, so a handler here is an operator from record to
record, and an action applies one to `tcp` and queues what it emitted (`out`) to the main thread. `Abort`, `Write`
and `AttemptConnection` show the reentrancy: they run `OnSocketDisconnected` or `OnSocketError` before they
return. The main thread is what `ConnectionController`, `CwController` and `MainWindow` remember of it.

`attemptConnection()` takes a socket that is not Unconnected (`network/tcpclient.cpp:178`), so an attempt may begin while the last
one is still closing, and nothing keeps it from meeting a retry that `endSession()` did not stop. `met` is history: what the attempt found
left of the last, `"Nothing"`, `"Closing"` or `"Retry"`. `socket.of` is the attempt that opened the socket, and a packet
read is `own` if that is the present one. `OwnConnection` says how far such a socket reaches into an attempt that did not open it.

Left out: the TLS configuration, ping latency, the latency log of KZ frames, and quitting.

### UsbDevice

The KPOD+ through four hands. `policy` is the lifecycle's State; `Detected` to `Disabled` are the cases of its `apply()`,
and `ApplyKpodPlus` what the controller does with the answer. `polling` is the facade's flag, which lags. `worker` is the
USB thread: its handlers run to their end but for `releaseHandle()`, which waits for the EP02 reader's mutex (`Releasing`).
`ep02` follows `run()`: look at the handle, lock and look again, transfer, and on an error tell and then forget. Handles
and bus addresses are numbered, so that a stale one differs from the present one. The single shot of 0 ms in
`handleLostDevice()` is a queued call, as Qt makes it. Left out: decoding, configuration commands that succeed, the
discarding of buffered keying and quitting; the KPOD has the same policy and a worker of its own, not modelled.

### PaddleKeyer

Three threads. The device thread makes an edge (`Edge`: the lock, the inhibit) and then stamps and queues it
(`StraightEdge`, `PaddleEdge`); it holds `m_firstElementMutex` from one to the other, so `device` is both where it is and that
lock. The main thread sets the inhibit, and then stamps and queues a release (`Inhibit`, `Escape`, `Close`; `PushRelease`,
`PostClose`); it does not take the lock. The keyer thread is `keyer`, whose `pc` is where `run()`, `processNextEvent()` and
`sendBurst()` are:

| `pc` | code | actions |
| --- | --- | --- |
| `Top`, `Pop` | a pass of the loop: pending releases, one event | `ReleaseStraightKey`, `ReleasePaddles`, `Drained`; `KeyStraightDown`, `KeyStraightUp`, `KeyReleased`, `BeginBurst`, `PopClose` |
| `Reconcile`, `Wait` | nothing queued: lost edges, the monitor, the semaphore | `NothingQueued`, `RestoreMonitor`, `NothingLost`, `NotYetReconciled`, `Reconcile`, `Wake`, `TimeOut` |
| `First` to `Gap` | a burst: first element, heard, read again, sounding, key up, decision | `FirstElement`, `NoFirstElement`, `Hear`, `ReadDue`, `Reread`, `DecisionDue`, `EndElement`, `NextElement`, `EndBurst` |
| `Closing`, `Exited` | the request to close | `Exit` |

Lengths are left out: an element is as long as the keyer stays in it, and a length can be anything. Times stay, for the
keyer compares them: `now` numbers the stamps, and every comparison of the code is between two of them. `Choose` is the decision of
`sendIambic()` and `sendUltimatic()` from the history as of a time; whether a dit was held for longer than the memory's delay is
a free choice (`memory`). `air` is what the radio was told, `"Twice"` once it was told what it knew. `extra` counts elements
begun since a release left every lever up, and is history.

### WindowsUpdate

Copies of QK4 (`copy`), launchers finishing an update (`fin`), the launcher that cleans up (`cleaner`) and a normal launch that did not get
the lock (`launch`) share `folder`, `current`, `notes` and `lock`. A step is what one process does between two looks at what others may change.
The version folder is followed through its life: placed under its name, renamed to `.trash-`, perhaps put back, deleted file by
file (`whole` is false from the first). `trashFolder()` is three steps, `RenameAway`, `CheckAgain` and `PutBack`, taken for whoever holds the lock. A
time limit (ten seconds for the lock, a minute for the window, thirty seconds for the closing copy) may pass at any time, and any
launcher may be killed at any step (`Kill`, `KillCleaner`), which frees its lock as the system does. `DeleteTree` takes no lock and looks at
nobody, like `deleteTrash()`: it may begin anywhere between another launcher's `RenameAway` and `PutBack`, and `raced` records on the folder that it did. The health check is
`PassesHealth` and `FailsHealth`: the readiness file, the exit code, the window.

## 4. The runs

| run | instance | what it shows | distinct states |
| --- | --- | --- | --- |
| `transmit` | PTT button, XMIT, a CAT client by both routes, a TCI client; TX thread arbitrarily late, and between the steps of a block | what is shown, gate, source, microphone, key commands and the order of `TX;` and audio follow the holder; the room is not sent under a TCI client; the lock is implemented | 1 282 669 |
| `transmit_audio` | XMIT and a TCI client, two sessions, fairness | a lost link closes the gate, and a radio that drops out of an acknowledged transmission ends it | 209 584 |
| `remote_ptt` | two CAT and two TCI clients, the operator, the radio | departures and refusals leave servers and arbiter in agreement; no client unkeys the operator | 64 929 |
| `kz_egress` | two threads, three posts each, two slots | the ring is the FIFO; no data race, no lost wake-up; everything accepted is handed over | 64 447 |
| `tcp_session` | a TLS radio with a `.local` name and another; three requests | every attempt ends, is reported once at most, and leaves nothing to the next but what `OwnConnection` names | 294 950 |
| `usb_device` | two plug-ins, two switches, one glitch, opens that may be refused | the reader uses the open handle only; keying is gated; every loss and removal is told, once | 323 237 |
| `paddle_keyer` | every keying mode; three edges and one release, five and three for a straight key; a queue of two; fairness | the radio is never left keyed nor told twice; a release ends the burst; the monitor comes back; what must not key stops | 494 457 |
| `windows_update` | one version and two newer; two copies, two finishing launchers; two starts, two installs and one kill, four in all | no folder is deleted in use or, but for the race of section 4, put back incomplete; a version is always left; `current.txt` only moves forward | 1 273 983 |
| `stale_rx` | XMIT alone, one session, queues of two | finding 1 | stop at the violation |
| `tci_rekey` | as `remote_ptt` | finding 2 | |
| `usb_gate` | one plug-in, opens that may be refused | finding 3 | |
| `paddle_slips` | as `paddle_keyer`, `Straddles` | finding 4 | |

### Bounds, and why they are enough

* Transmit. One producer of each kind the arbiter tells apart: local by audio, local by `TX;`, and the two remote ones; the
  Ulanzi dial asks as the PTT button does, and a second of a kind is the first one again. `MaxEpisodes` 2: a message of one
  transmission in the next. `MaxSessions` 2: a call of one session in the next. `MaxQueue` (TX thread) and `MaxSend` (I/O thread) 1 let a handler start while
  something is still queued and append all of its own calls; `MaxReports` 1 keeps an echo waiting while the next is made. `transmit_audio` has a `MaxQueue` of 0, since what it asks is about the last call and not about
  how many are queued: a handler still appends all of its own; `stale_rx` has queues of 2. The proofs are for every bound.
* Remote PTT. Two clients of each server: the holder and another. `MaxPosted` 3 outlasts every chain of answers. The
  clients are symmetric: no property or action names one, and nothing temporal but one action property is checked. The proofs are for every set of clients.
* Ring. Capacity 2 with six posts laps it three times; two threads are all that post. The proofs are for every capacity.
* Session. Three requests: an attempt, one that replaces it, and a disconnect or another; two radios that differ in TLS and in
  name resolution; `MaxSignals` 3 holds the state, the error and a reply together.
* USB. Two addresses and two switches give each a stale value; one glitch fails a device that is there; `MaxQueued` 2
  lets a second failing poll report while the first report is on its way.
* Paddles. A decision compares the last down and up of each lever: two presses and one release, or the other way round, give every
  order that matters, with one release or inhibit among them. A straight key needs to overrun a queue of two, be reconciled, and be
  released and pressed again: five edges, three calls. The proofs are for every bound and every queue size.
* Update. Two offers finish in either order; the second copy is the one that is terminated, slips in, or installs too; one kill
  (`MaxEvents` 4 bounds starts, installs and kills together, so in place of a start or an install) leaves a folder at every stage of its life, and a third folder is the second attempt at a version. The proofs are for every bound.

### Fairness

Safety does not depend on it. `transmit_audio`: the three event loops deliver what was posted; producers, link and radio
owe nothing. For the main and the I/O thread that is weak fairness of `MainStep` and `IoStep`. On the TX thread a posted call is not
enabled while a block is in hand, and blocks keep coming; Qt's loop delivers posted events between two expiries of the poll
timer and two queued blocks, so the call is not put off for ever: strong fairness of `TxStep`, and weak of `SendBlock`, which is the rest of a handler that has begun. `kz_egress`: a thread inside `post()` runs to its end,
since it never waits, and the I/O thread has an event loop; nobody need post. `tcp_session`: timers fire and `lookupHost()`
answers; nothing is assumed of the network, the radio, or of queued calls. `usb_device`: event loops deliver, the presence
timer ticks, the reader goes round its loop; device and operator owe nothing. `paddle_keyer`: the keyer
runs (`Keyer`: its waits have a limit or a post, its elements a length), a call that was begun ends (`PushRelease`, `PostClose`), and an edge that
was captured is queued (`StraightEdge`, `PaddleEdge`); nobody need press, release or close anything. The history of what the keyer
did decides which of its actions is enabled, so fairness of their disjunction is all that is assumed. Of the update nothing temporal with
fairness is stated: every wait in the launcher has a time limit, which the model lets pass at any time.

Deadlock is checked where somebody can always act. The ring, the session, the device, the keyer and the update may come to
rest: all posted and handed over; nothing asked for and no session; a device unplugged for good; a keyer closed; the operator done.

### What the environment is not allowed to do

Two constants restrict it.

* `SlowReader` FALSE: the EP02 reader, a real-time thread, does not stop between telling of an error and forgetting its
  handle for as long as it takes to close the device, enumerate it and open it again. Otherwise it forgets the new handle
  and `NoDeafReader` is violated.
* `Straddles` FALSE: no call that releases runs whole between the device thread's check of the inhibit and its reading of the
  clock. Otherwise finding 4.

### What three properties except, and what the operator sees of it

In three places the code does less than its comments say. The models have these behaviours, with no guard that keeps them out; the
property names exactly the states they reach, by a history variable, and holds everywhere else. Without the exception TLC finds
each of the properties violated; no run of its own states that.

* **A `stop()` that comes late** (`overtaken`; `SourceSettles`, `RoomNeverUnderTci`). `openMic()` blocks the TX thread for as long as the system takes,
  so the `stop()` queued at the end of a session can run in the next. It writes the source without a generation
  (`audio/txaudiopipeline.cpp:58`): a TCI client that has keyed by then transmits from the microphone. The comment in `feedTciTxAudio()` and
  the one at line 385 ("what must not happen is the room being transmitted while a TCI client holds the transmitter") are about the
  source as it is read; neither considers that it is wrong.
* **A socket or a retry of the last attempt** (`met`; `NothingCarriedOver`, `ToldOnce`). With `"Closing"`: a graceful close may take its time, and the
  operator connects again. Either the new attempt calls `abort()` on that socket, or it closes by itself while the new radio's `.local`
  name is looked up; both emit `disconnected()`, which finds the client Connecting and ends the *new* attempt, without a message
  (`network/tcpclient.cpp:178`, `:440`). As long as the lookup lasts, bytes of the old session are parsed and passed on, though the
  comment at line 461 says that they "must not be parsed into the next one". With `"Retry"`: a network error in the middle of a TLS handshake calls
  `abort()` inside `onSocketError()`, whose `disconnected()` ends the attempt, and the retry timer is started all the same (line 491 on). `connectToHost()`
  stops no timer when the state is Disconnected, so the retry dials into the next attempt: the password of one radio may be given
  to another (TRN-001), a failure told twice, or a session aborted. The attempt that `"Closing"` ended goes on the same way, for
  `attemptConnection()` does not look at the state after its `abort()`: it dials, and an attempt begun before that socket is up meets it. The password case needs a `.local` radio
  without TLS beside one reached over it, which is not the instance of `tcp_session`; the others occur in it. What holds without exception: a timer or
  a lookup is due, readiness, the end of every attempt, macros, half packets, no report of a cancelled attempt.
* **A deletion that began before the put-back** (`raced`; `FoldersAreKept`). `trashFolder()` says that a folder in use "goes back, untouched"
  (`tools/windows-launcher/main.cpp:343`) and the installer that one at the final name "is always complete"
  (`update/windowsinstaller.cpp:215`). But `removeWorkingFolders()` (line 656) takes any `.trash-` folder, without the lock: its look at what runs can
  come before a copy in the folder is seen, and its deletion before the put-back. After some sixteen steps a folder is back under its
  name with files missing. Nothing of it is deleted under a copy that runs, and another version is left.

### Findings

1. `stale_rx`: within one round trip of key, unkey, key, the first transmission's late `TX;` echo confirms the second, and
   its late `RX;` then ends it (`models/transmitowner.h:274`).
2. `tci_rekey`: a `releaseLocalPtt()` on its way takes away an ownership acquired after it was posted; the transmitter is
   then held for a client the server has forgotten (`network/tciserver.cpp:142`).
3. `usb_gate`: an open that fails leaves the CW gate up and nothing lowers it (`controllers/hardwarecontroller.cpp:289`).
4. `paddle_slips`: the comment at `hardware/paddlekeyer.cpp:351` says that `releasePaddles()` takes the device's lock; it does not
   (line 203). A straight key pressed while the inhibit goes up can be stamped later than the release, is then taken for a new
   press, and keys. Letting it go does not end it: while inhibited the key-up is dropped as well (line 357).

Also seen while modelling, without a run of its own:

* The gate shuts by one queue and `RX;` goes by another, so a last frame of the transmission can follow its `RX;`
  (`controllers/transmitcontroller.cpp:108`, `:121`).
* The startup macro and the connect are two queued calls, and the session being replaced may be accepted between them
  and send the macro meant for the next (`controllers/connectioncontroller.cpp:85`).
* A connect that fails at once, inside `connectToHost()`, leaves the connect timer running; it is ignored when it fires.
* A KPOD+ switched off while its open is on the way stays open, with the gate up, until it is switched on and off again or unplugged
  (`hardware/usbdevicelifecycle.h:123`): the policy closes only what it counts as open.
* A KPOD+ switched on again before its removal was heard is not reopened (`hardware/kpodplusdevice.cpp:150`), nor is one
  unplugged and plugged in again between two presence ticks while closed: the worker keeps the old address.
* A release in the middle of an Iambic B burst records both levers as let go, which the memory reads as a tap of the other one: one
  opposite element may still be sent. `ReleaseEndsBurst` allows for it.
* `endStraightKeyOnAir()` sends its `KZU` without arming the monitor's restore (`hardware/paddlekeyer.cpp:958`): after a straight key was ended
  by a release, the radio's monitor stays muted until the next key-up.
* A copy on trial that is closed after its health check has passed no longer keeps its folder from being trashed by another failing
  attempt for the same version, before the first commits it (`tools/windows-launcher/main.cpp:503`): `current.txt` then names a version that
  is gone, and the launcher falls back.
* A folder that could be neither deleted nor put back stays under its `.trash-` name; the next cleanup deletes it.
* A failure note written between another copy's reading of the notes and its removal of them is lost, and the version is offered again
  (`update/updateflow.cpp:150`). A `.healthy` that cannot be written is not noticed.

## 5. The proofs

| module | theorem | for every |
| --- | --- | --- |
| `TransmitOwnerProofs` | `EveryDecisionSound`: a decision leads from a reachable State to one, hands on lawfully, tells truly whether anybody transmits, and its gate and key effects are the difference of two routes | State and event |
| `TransmitProofs` | `Invariance`, and from it `TypeCorrect`, `ShownTruly`; `TransmitImplementsLock` | set of producers and bounds (`ControlAssumption`) |
| | `Settles`, and from it `GateIsTheOwners`, `NothingStaysOn`; `KeyedInOrder`, and from it `KeyBeforeAudio` | the same |
| | `RoomsKept`, and from it `SourceIsTheOwners`, `RoomIsQuiet` | the same |
| `RemotePttProofs` | `Invariant`, and from it `TypeCorrect`, `CatHoldIsAlive`, `TciIsTold`; `OperatorKeepsIt` | sets of clients and bounds (`PttAssumption`) |
| `KzEgressProofs` | `RingInvariant`, and from it `WakeUpsAreNotLost`, `SlotsAreNotRacedFor`; `RingImplementsFifo` | set of threads, capacity and number of posts (`EgressAssumption`) |
| `TcpSessionProofs` | `Invariant`, and from it `TypeCorrect`, `SomethingIsDue`, `KeyerHasCaughtUp`, `StartsClean` | sets of radios and bounds (`SessionAssumption`) |
| | `StaysApart`, and from it `CarriesNothing`, `FailureIsToldOnce` | the same |
| `UsbDeviceProofs` | `TypeCorrect`, `LiveHandle`, `GatedKeying`, `FacadeIsRight`, `OneRemoval`; `ReaderNotDeaf` if not `SlowReader` | bound (`UsbAssumption`) |
| `PaddleKeyerProofs` | `TypeCorrect`, `FramesAlternate`, `ReleaseEndsIt`, `MonitorIsRestored`; `LetsGo` if not `Straddles` | queue size and bounds (`PaddleAssumption`) |
| `WindowsUpdateProofs` | `TypeCorrect`, `MovesForward`, `KeepsFolders` | set of copies, launchers and offers, and bounds (`UpdateAssumption`) |

**Transmit.** `IInv` is `TypeOK /\ IndicatorHonest /\ ConfirmedIsHeard`. Neither of the last two is inductive alone: a decision
is sound only from a State the arbiter can be in, and which States those are is in the type invariant (`Paired`) and in the confirmation
itself. `ApplySound` lifts the arbiter's theorem to `Apply`; each action then only has to keep its queues typed. The refinement of
`TransmitLock` is by cases on the actions that touch `arb`: a takeover is `MayEngage`, every other change frees.

The properties of the transmit path at rest say nothing while anything is under way, so each has an invariant about what is.
*What a queue leads to* is the idea of all of them: `Ends(q, W, V)` says that the last of the calls `W` in `q` is one of `V`,
and lemmas say what an append, a removal from the head and a replacement do to it. `GateWillOpen` follows the gate through
what the handler has still to do, what is posted and what the pipeline has; with no loss of the link to be heard it is what
the holder's route needs (`GateInv`). `KeyInv` is the same for `TX;` and `RX;`, `MicDue` says that a microphone open for
nothing has a call on its way that reconciles it, `LinkInv` that a lost link is heard last. Together they are `Settling`.
`Ordered` follows the one `TX;` of an XMIT transmission ahead of its gate and its first frame, whichever of the two queues
they are in. `Rooms` is about the source: `SourceInv` that the newest write wins, by the generations; `TciRoom` that while a
TCI client holds the transmitter the microphone is only the source of the transmission before. A `stop()` of the last session
carried out late would break both: `StopDown` says that there is none while the link is up, in every session that did not begin with one due (`overtaken`).
For the frames, `DirtyInv` says that samples of the microphone in hand or half a frame of them have their flush on its way as soon as the source is another,
and `ClientClean` that the client's gate is behind it. `BlockGated`, that a block is in hand only with the gate open, is in `Ordered`.

**Remote PTT.** `TciServerIsTold` speaks of a server with nothing in flight. `ClaimStands` says what the server's belief rests on before: the
last thing it asked for was the transmitter, and when that is answered and nothing is being taken back, it was granted. A
client that loses the transmitter has a `releaseLocalPtt()` on its way (`ApplyTells`). `FreeOffline` is needed for
the CAT server: without it a session could begin with a hold that no command explains.

**Session.** The handlers are operators on the client's record that call each other, so the lemmas are about operators: what each keeps, of any
record it may be called on. What a handler emitted counts as queued at once (`Queue`), so the signals of a nested handler are in
order with its caller's. `Sound` is what holds inside a handler too: the phase has its timer and its socket, and what the main thread will
have heard is the state the client is in (`Tells`, `TellsReady`). That the attempt itself is due an answer (`Due`, or a lookup) holds only between
handlers and is in `IInv`, with `MacrosInOrder`: a connect call has the macro of its own request just before it. None of this looks at
`met`: timers, readiness, macros and packets are right whatever an attempt finds. `Apart` does: the socket
is of the present attempt, or is closing under one that met it so, or a retry was left behind; the attempt has told of no failure, or of one once it is over; and
no two late packets are queued. `Waiting` says that an attempt whose lookup is under way has opened nothing. From these follow the password, `OwnConnection` and the failure told once.
`ReadyIsConnected` is stated by the positions of the signals, not by a filtered sequence, which the provers cannot expand.

**Ring.** `NoLostWakeUp` and `NoDataRace` say nothing of positions, and are not inductive. `RingInvariant` adds where each position of
the current window is: the window is at most one lap (`Window`); a position between the two ends is claimed by exactly one
thread or published, with its frame in its slot (`Occupied`, `Owned`); the others are free for their next lap (`Vacant`); a thread looking
at a position cannot be ahead of the queue (`Looking`); frames were handed over in the order they were claimed
(`HandedInOrder`, `Numbered`). Two positions less than a lap apart have different slots (`SlotsDiffer`), so a claim, a
publication or a release disturbs no other. For the wake-up, `FlagAccounted`: a flag that is set is owed by somebody, a readable pipe, the
I/O thread about to clear it, or a thread about to write the pipe. The refinement maps the queue to what is claimed and not
handed over: `Claim` is Accept, `FindsFull` is Refuse, `HandOver` is itself.

**USB device.** The properties speak of the device that is open, and the step that opens it would break them: what it relies
on was queued long before. `IInv` therefore looks ahead in the calls queued to the USB thread. With the gate down every Open
still queued has a Close behind it (`Undone`, `ClosedAgain`), because `apply()` lowers the gate only with a Close and asks
for an Open only with the gate up (`ApplyKeeps`). `ReaderHandle` says that the reader has the open handle or none, and
`TeardownDue` that a reader without one has told the USB thread, or a Close is on its way: this is where the order of `Tell`
and `Clear` matters, and `SlowReader`. `FacadeKnows` and `RemovedOnce` need the whole queue to the main thread:
`SessionsInOrder` says that hearing the signals one by one takes the facade from what it thinks to what the worker has, by
arrivals and removals that alternate (`Takes`, a function on the positions of the queue).

**Paddle keyer.** `AirAlternates` needs only that a straight key has no bursts and paddles leave no key down between elements
(`ModesApart`). `NeverLeftKeyed` speaks of a keyer that sleeps; `Known` says why that is safe. Nothing is queued then
(`SleepsOnNothing`: whoever queues posts, and an edge that finds the queue full finds it not empty). What is queued leaves the radio keyed
only if the key is down (`QueueKnown`). And a key that reads as down while it is up or must not key has a release on its way that is
not older than the press (`KeyKnown`, `Pending`); the steps that would break this are `StraightEdge` under an inhibit and `PushRelease`, and there
`Straddles` is used.

`ReleaseEndsBurst` is about times. `BurstKnown` says that no edge is later than now (`Past`), and that while elements
since a release are counted there is a time the levers were let go of after which nothing was pressed (`LeversUp`, `LetGoAt`). `NothingWanted`
then computes `Choose`: as of any later time neither lever reads as held, and the memories owe nothing once the times
they compare with (`look`, `heard`) are past. So the first element after the release may be owed, but the second may not
(`Spent`: its own times were taken after the release), nor does the next burst find a press overlooked (`NothingMissed`). Stamps are greatest
elements of sets of numbers; that there is one (`GreatestOf`) comes from the well-ordering of the naturals, which the library states for
sets and needs no induction. `MonitorComesBack` follows from where a mute without a restore may be (`MonitorKnown`): in a burst only.

**Update.** `Structure` is the types with what each process's reference to a folder means: a folder keeps its number
(`Numbered`), the lock's step says where its folder is (`LockKnown`), and what is to be deleted outside the lock is not under
a version's name and is nobody's to put back (`FinTrashKnown`, `CleanerTrashKnown`). `Safe` adds that nothing runs from what
is being deleted and that what may be put back is whole, or was `raced` for (`NothingRuns`), and, for a version to be left, that one not newer
than the current one stays, beside the one about to be renamed (`OneStays`): a rollback only takes a version newer than
`current.txt`, and a cleanup leaves the current one and the next lower.

Only model-checked: what is temporal with fairness, which the prover does not do (`LinkLossClosesGate`, `RadioDropEndsHold`,
`EveryFrameHandedOver`, `EveryAttemptEnds`, `LossIsHeard`, `KeyingEnds`). Every invariant, action property and refinement that a passing run checks
is also a theorem. Two have a hypothesis (`~SlowReader`, `~Straddles`), which their run has as the value of a constant; the section on the environment says what
happens without it. Nothing is proved of liveness: that a queue is served, a timer fires or a burst comes to its end
is what the runs show, under the fairness above.

## 6. Not modelled

`PROJECT.json` gives the reason for each component. In short: the CAT server's pending queries are next in the plan; audio samples,
spectrum and widgets are data or presentation, and the greater part of the program's lines; framing and command formatting are
byte-level; settings are written through; station accessories are independent polling clients; logging and receive playout are candidates
once the plan is done. Of the keyer: a change of mode at run time, the sidetone's scheduler, MIDI time stamps and the
arithmetic of lengths. Of the update: the check and the download, and the platforms where QK4 only saves a file.

----------------------------- MODULE UsbDevice ------------------------------
(***************************************************************************)
(* The KPOD+, a USB paddle keyer, from the cable to the CW gate:           *)
(*   - the main thread: the policy of hardware/usbdevicelifecycle.h as     *)
(*     controllers/hardwarecontroller.cpp executes it, and the facade      *)
(*     hardware/kpodplusdevice.cpp;                                        *)
(*   - the USB thread: KpodPlusUsbWorker, which owns the handle;           *)
(*   - the EP02 thread: KpodPlusEp02Worker, which blocks in transfers on   *)
(*     that handle and hands the keying to the radio.                      *)
(* Calls and signals between the first two are queued; the USB thread sets *)
(* the EP02 thread's handle directly.  Fault_... are seeded faults: what   *)
(* the definition of that name would be with a plausible bug.              *)
(***************************************************************************)
EXTENDS Naturals, Sequences

CONSTANTS Refusals,     \* TRUE: the system may refuse to open the device (another program has it)
          SlowReader,   \* TRUE: the EP02 thread may stop for a whole reopening between two statements
          MaxToggles,   \* bound: times the operator switches the device on or off
          MaxPlugs,     \* bound: times the device is plugged in
          MaxGlitches,  \* bound: transfers that fail with the device still there
          MaxQueued     \* bound: calls and signals queued when a poll fails once more

ASSUME UsbAssumption ==
  /\ {Refusals, SlowReader} \subseteq BOOLEAN
  /\ {MaxToggles, MaxPlugs, MaxGlitches, MaxQueued} \subseteq Nat

VARIABLES
  policy,     \* HardwareController::m_kpodPlusState
  polling,    \* KpodPlusDevice::m_polling
  gate,       \* CwController::m_kpodPlusGate: the KPOD+ owns CW, QK4's own keyer keys nothing
  toWorker,   \* calls queued to the USB thread
  toMain,     \* signals queued to the main thread
  worker,     \* KpodPlusUsbWorker
  ep02,       \* KpodPlusEp02Worker: m_handle, and the copy h of it in run()
  bus,        \* the address the device is plugged in at, or 0; addresses are not used twice
  toggles, glitches

mainVars == <<policy, polling, gate>>
vars == <<mainVars, toWorker, toMain, worker, ep02, bus, toggles, glitches>>

Info(detected) == [kind |-> "Info", detected |-> detected]
Arrived == [kind |-> "Arrived"]
Removed == [kind |-> "Removed"]

\* The USB thread has enumerated the bus and said what it found.  at is the address in its m_info, 0
\* while m_devicePresent is false; handle tells which opening of the device m_handle is, and on at
\* which address it was.
Init ==
  /\ \E b \in {0, 1} :
       /\ bus = [now |-> b, last |-> b]
       /\ worker = [pc |-> "Idle", at |-> b, handle |-> 0, on |-> 0, opened |-> 0]
       /\ toMain = <<Info(b # 0)>>
  /\ \E on \in BOOLEAN : policy = [present |-> FALSE, open |-> FALSE, enabled |-> on]
  /\ polling = FALSE /\ gate = FALSE /\ toWorker = <<>>
  /\ ep02 = [pc |-> "Look", handle |-> 0, h |-> 0]
  /\ toggles = 0 /\ glitches = 0

-----------------------------------------------------------------------------
(* UsbDeviceLifecycle::apply(): the state it leaves and what the caller must do. *)

Decision(s, open, close) == [s |-> s, open |-> open, close |-> close]
Nothing(s) == Decision(s, FALSE, FALSE)

Detected(s) ==
  IF s.present THEN Nothing(s) ELSE Decision([s EXCEPT !.present = TRUE], s.enabled /\ ~s.open, FALSE)

Lost(s) == Decision([s EXCEPT !.present = FALSE, !.open = FALSE], FALSE, s.open)

Opened(s) == Nothing([s EXCEPT !.open = TRUE])

Enabled(s) ==
  IF s.enabled THEN Nothing(s) ELSE Decision([s EXCEPT !.enabled = TRUE], s.present /\ ~s.open, FALSE)

Disabled(s) ==
  IF ~s.enabled THEN Nothing(s) ELSE Decision([s EXCEPT !.enabled = FALSE, !.open = FALSE], FALSE, s.open)

\* The gate follows the device: it goes up when the open has succeeded.
Fault_ApplyKpodPlus(d, isPolling) ==
  /\ policy' = d.s
  /\ gate' = ((gate \/ d.s.open) /\ ~d.close)
  /\ toWorker' = toWorker \o (IF d.open /\ ~isPolling THEN <<"Open">> ELSE <<>>)
                          \o (IF d.close THEN <<"Close">> ELSE <<>>)

\* applyKpodPlus(): the gate goes up before the open is asked for, and startPolling() asks for
\* nothing while the last session's removal has not been heard.
ApplyKpodPlus(d, isPolling) ==
  /\ policy' = d.s
  /\ gate' = ((gate \/ d.open) /\ ~d.close)
  /\ toWorker' = toWorker \o (IF d.open /\ ~isPolling THEN <<"Open">> ELSE <<>>)
                          \o (IF d.close THEN <<"Close">> ELSE <<>>)

-----------------------------------------------------------------------------
(* The main thread. *)

MainOnly == UNCHANGED <<worker, ep02, bus, glitches>>

Hears(kind) == toMain # <<>> /\ Head(toMain).kind = kind /\ toMain' = Tail(toMain)

HearInfo ==
  /\ Hears("Info")
  /\ ApplyKpodPlus(IF Head(toMain).detected THEN Detected(policy) ELSE Lost(policy), polling)
  /\ UNCHANGED <<polling, toggles>> /\ MainOnly

HearArrived ==
  /\ Hears("Arrived")
  /\ polling' = TRUE
  /\ ApplyKpodPlus(Opened(policy), TRUE)
  /\ UNCHANGED toggles /\ MainOnly

HearRemoved ==
  /\ Hears("Removed")
  /\ polling' = FALSE
  /\ UNCHANGED <<policy, gate, toWorker, toggles>> /\ MainOnly

\* kpodEnabledChanged
Toggle ==
  /\ toggles < MaxToggles
  /\ toggles' = toggles + 1
  /\ ApplyKpodPlus(IF policy.enabled THEN Disabled(policy) ELSE Enabled(policy), polling)
  /\ UNCHANGED <<polling, toMain>> /\ MainOnly

-----------------------------------------------------------------------------
(* The USB thread.  A handler runs to its end, but for releaseHandle(), which waits for the EP02 *)
(* reader.                                                                                       *)

WorkerOnly == UNCHANGED <<mainVars, bus, toggles>>

\* KpodPlusEp02Worker::setDeviceHandle(), called directly.
SetDeviceHandle(h) == ep02' = [ep02 EXCEPT !.handle = h]

\* Releases, and reports removed, whatever there is to close.
Fault_CloseDevice(w) == worker' = [w EXCEPT !.pc = "Releasing"] /\ SetDeviceHandle(0)

\* closeDevice() of a worker already changed to w, up to the wait in releaseHandle().
CloseDevice(w) ==
  IF w.handle = 0
  THEN worker' = w /\ UNCHANGED ep02
  ELSE worker' = [w EXCEPT !.pc = "Releasing"] /\ SetDeviceHandle(0)

Called(c) == worker.pc = "Idle" /\ toWorker # <<>> /\ Head(toWorker) = c

Forgotten == [worker EXCEPT !.at = 0]

\* openHandle() finds the device where it was enumerated, and the system lets it be opened.
OpenSucceeds == worker.handle = 0 /\ worker.at # 0 /\ worker.at = bus.now

OpenDevice ==
  /\ Called("Open")
  /\ SlowReader \/ ep02.pc # "Clear"
  /\ toWorker' = Tail(toWorker)
  /\ \/ /\ OpenSucceeds
        /\ LET n == worker.opened + 1 IN
           /\ worker' = [worker EXCEPT !.handle = n, !.on = worker.at, !.opened = n]
           /\ SetDeviceHandle(n)
        /\ toMain' = toMain \o <<Info(TRUE), Arrived>>
     \/ (~OpenSucceeds \/ Refusals) /\ UNCHANGED <<worker, ep02, toMain>>
  /\ UNCHANGED glitches /\ WorkerOnly

CloseCalled ==
  /\ Called("Close")
  /\ toWorker' = Tail(toWorker)
  /\ CloseDevice(worker)
  /\ UNCHANGED <<toMain, glitches>> /\ WorkerOnly

\* Closed without a report.
Fault_ReleaseHandle ==
  /\ worker.pc = "Releasing"
  /\ ep02.pc # "Transfer"
  /\ worker' = [worker EXCEPT !.pc = "Idle", !.handle = 0]
  /\ UNCHANGED <<toWorker, toMain, ep02, glitches>> /\ WorkerOnly

\* The end of releaseHandle() and of closeDevice(): the EP02 reader's mutex is free.
ReleaseHandle ==
  /\ worker.pc = "Releasing"
  /\ ep02.pc # "Transfer"
  /\ worker' = [worker EXCEPT !.pc = "Idle", !.handle = 0]
  /\ toMain' = Append(toMain, Removed)
  /\ UNCHANGED <<toWorker, ep02, glitches>> /\ WorkerOnly

\* handleLostDevice() with the calls still queued.  Its single shot of 0 ms is one more of them.
HandleLostDevice(calls) ==
  IF worker.at = 0 /\ worker.handle = 0
  THEN toWorker' = calls /\ UNCHANGED <<worker, toMain>>
  ELSE /\ worker' = Forgotten
       /\ toMain' = Append(toMain, Info(FALSE))
       /\ toWorker' = Append(calls, "Close")

\* Connected to nothing.
Fault_TransferError ==
  /\ Called("Lost")
  /\ toWorker' = Tail(toWorker)
  /\ UNCHANGED <<worker, toMain, ep02, glitches>> /\ WorkerOnly

\* The EP02 reader's transferError.
TransferError ==
  /\ Called("Lost")
  /\ HandleLostDevice(Tail(toWorker))
  /\ UNCHANGED <<ep02, glitches>> /\ WorkerOnly

\* A transfer on a handle fails: the device has gone, or is there and glitches.
Fails(on) ==
  \/ on # bus.now /\ UNCHANGED glitches
  \/ glitches < MaxGlitches /\ glitches' = glitches + 1

\* The poll timer, or a configuration command, finds the device gone.
PollFails ==
  /\ worker.pc = "Idle" /\ worker.handle # 0 /\ Len(toMain) + Len(toWorker) < MaxQueued
  /\ Fails(worker.on)
  /\ HandleLostDevice(toWorker)
  /\ UNCHANGED ep02 /\ WorkerOnly

\* The presence timer's walk over the bus, which opens nothing.
PresenceArrival ==
  /\ worker.pc = "Idle" /\ worker.at = 0 /\ bus.now # 0
  /\ worker' = [worker EXCEPT !.at = bus.now]
  /\ toMain' = Append(toMain, Info(TRUE))
  /\ UNCHANGED <<toWorker, ep02, glitches>> /\ WorkerOnly

\* Reports the removal that closeDevice() reports too.
Fault_PresenceLossTwice ==
  /\ worker.pc = "Idle" /\ worker.at # 0 /\ bus.now = 0
  /\ toMain' = toMain \o <<Info(FALSE), Removed>>
  /\ CloseDevice(Forgotten)
  /\ UNCHANGED <<toWorker, glitches>> /\ WorkerOnly

\* Closes, and does not say that the device has gone.
Fault_PresenceLossSilent ==
  /\ worker.pc = "Idle" /\ worker.at # 0 /\ bus.now = 0
  /\ CloseDevice(Forgotten)
  /\ UNCHANGED <<toMain, toWorker, glitches>> /\ WorkerOnly

PresenceLoss ==
  /\ worker.pc = "Idle" /\ worker.at # 0 /\ bus.now = 0
  /\ toMain' = Append(toMain, Info(FALSE))
  /\ CloseDevice(Forgotten)
  /\ UNCHANGED <<toWorker, glitches>> /\ WorkerOnly

-----------------------------------------------------------------------------
(* The EP02 thread: run(), which tells of an error before it forgets the handle. *)

Ep02Only == UNCHANGED <<mainVars, toMain, worker, bus, toggles>>

Goes(from, to) == ep02.pc = from /\ ep02' = [ep02 EXCEPT !.pc = to]

\* The handle as loaded; without one the thread waits.
Look ==
  /\ ep02.pc = "Look" /\ ep02.handle # 0
  /\ ep02' = [ep02 EXCEPT !.pc = "Lock", !.h = ep02.handle]
  /\ UNCHANGED <<toWorker, glitches>> /\ Ep02Only

\* Checks the handle again and transfers on the copy (USB-010).
Fault_Lock ==
  /\ ep02.pc = "Lock"
  /\ ep02' = [ep02 EXCEPT !.pc = IF ep02.handle = 0 THEN "Look" ELSE "Transfer"]
  /\ UNCHANGED <<toWorker, glitches>> /\ Ep02Only

\* m_transferMutex taken, and the handle read again.
Lock ==
  /\ ep02.pc = "Lock"
  /\ ep02' = [ep02 EXCEPT !.pc = IF ep02.handle = 0 THEN "Look" ELSE "Transfer", !.h = ep02.handle]
  /\ UNCHANGED <<toWorker, glitches>> /\ Ep02Only

\* Keying, or nothing for a while.
TransferEnds == Goes("Transfer", "Look") /\ UNCHANGED <<toWorker, glitches>> /\ Ep02Only

\* The device has gone, an I/O error, or twenty other errors in a row.
TransferFails == Goes("Transfer", "Tell") /\ Fails(worker.on) /\ UNCHANGED toWorker /\ Ep02Only

Tell ==
  /\ Goes("Tell", "Clear")
  /\ toWorker' = Append(toWorker, "Lost")
  /\ UNCHANGED glitches /\ Ep02Only

Clear ==
  /\ ep02.pc = "Clear"
  /\ ep02' = [ep02 EXCEPT !.pc = "Look", !.handle = 0]
  /\ UNCHANGED <<toWorker, glitches>> /\ Ep02Only

-----------------------------------------------------------------------------
(* The cable. *)

CableOnly == UNCHANGED <<mainVars, toWorker, toMain, worker, ep02, toggles, glitches>>

Unplug == bus.now # 0 /\ bus' = [bus EXCEPT !.now = 0] /\ CableOnly

Plug ==
  /\ bus.now = 0 /\ bus.last < MaxPlugs
  /\ bus' = [now |-> bus.last + 1, last |-> bus.last + 1]
  /\ CableOnly

-----------------------------------------------------------------------------
MainStep == HearInfo \/ HearArrived \/ HearRemoved
WorkerStep ==
  \/ OpenDevice \/ CloseCalled \/ ReleaseHandle \/ TransferError \/ PollFails
  \/ PresenceArrival \/ PresenceLoss
Ep02Step == Look \/ Lock \/ TransferEnds \/ TransferFails \/ Tell \/ Clear

Next == MainStep \/ Toggle \/ WorkerStep \/ Ep02Step \/ Unplug \/ Plug

Spec == Init /\ [][Next]_vars

FairSpec == Spec /\ WF_vars(MainStep) /\ WF_vars(Ep02Step)
                 /\ WF_vars(OpenDevice) /\ WF_vars(CloseCalled) /\ WF_vars(TransferError) /\ WF_vars(ReleaseHandle)
                 /\ WF_vars(PresenceArrival) /\ WF_vars(PresenceLoss)

-----------------------------------------------------------------------------
\* The type invariant: a handle is released only if there is one.
TypeOK ==
  /\ policy \in [present : BOOLEAN, open : BOOLEAN, enabled : BOOLEAN]
  /\ polling \in BOOLEAN /\ gate \in BOOLEAN
  /\ toWorker \in Seq({"Open", "Close", "Lost"})
  /\ toMain \in Seq({Arrived, Removed} \cup {Info(b) : b \in BOOLEAN})
  /\ bus \in [now : Nat, last : Nat] /\ bus.now \in {0, bus.last}
  /\ worker \in [pc : {"Idle", "Releasing"}, at : Nat, handle : Nat, on : Nat, opened : Nat]
  /\ worker.at <= bus.last /\ worker.on <= bus.last
  /\ worker.handle \in {0, worker.opened} /\ (worker.pc = "Releasing" => worker.handle # 0)
  /\ ep02 \in [pc : {"Look", "Lock", "Transfer", "Tell", "Clear"}, handle : Nat, h : Nat]
  /\ toggles \in Nat /\ glitches \in Nat

\* Every call and signal has been handled, and the USB thread knows what the bus holds.
Settled ==
  /\ toWorker = <<>> /\ toMain = <<>> /\ worker.pc = "Idle"
  /\ ep02.pc \notin {"Tell", "Clear"}
  /\ (worker.at # 0) = (bus.now # 0)

\* The EP02 reader transfers only on the handle that is open: never on one that was closed, or closed
\* and opened again, since it looked (USB-010).
HandleIsLive == ep02.pc = "Transfer" => ep02.h = worker.handle /\ worker.handle # 0

\* While the KPOD+ can key the radio QK4's own keyer is inhibited, however openings, closings and
\* unplugging fall: the two may overlap only until a close already asked for is carried out.
KeyingIsGated ==
  worker.handle # 0 /\ ~gate => worker.pc = "Releasing" \/ \E i \in DOMAIN toWorker : toWorker[i] = "Close"

\* Once things have settled the facade polls exactly while the device is open: if not, startPolling()
\* would answer a later enabling with nothing.
FacadeKnows == Settled => polling = (worker.handle # 0)

\* Once things have settled an open device has its EP02 reader on it: the poll cannot go on with the
\* paddles dead.
NoDeafReader == Settled /\ worker.handle # 0 => ep02.handle = worker.handle

\* The end of a session is reported once: a removal is heard only while polling.
RemovedOnce == [][HearRemoved => polling]_vars

\* A device that was unplugged is not counted as open for ever.
LossIsHeard == bus.now = 0 ~> (bus.now # 0 \/ ~policy.open)

\* The CW gate follows the open device (hardware/README.md): once things have settled QK4's keyer is
\* gated for a KPOD+ only if it is open.
GateFollowsOpen == Settled /\ gate => worker.handle # 0
=============================================================================

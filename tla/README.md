# Verification of the STM32 UDS / ISO-TP stack

TLA+ specifications of the diagnostic stack in this repository: the ISO-TP
transport and UDS server under `library/`, the application and bootloader under
`App/`, and the FDCAN transport of the C092 example. TLC checks the specifications
on small instances; TLAPS proves safety properties of eight of them, and that the
parameter store implements a durable register, for every value of the constants.
`PROJECT.json` maps each definition to the lines it models and lists the runs,
the hazards, the findings and the theorems.

Contents: [the system](#1-the-system) · [modules](#2-modules-and-what-they-stand-for) ·
[runs](#3-runs) · [fairness](#4-fairness) · [proofs](#5-proofs) ·
[findings](#6-findings) · [observations](#7-observations-without-a-run) ·
[not modelled](#8-what-is-not-modelled) · [plan](#9-plan)

## 1. The system

An ECU answers diagnostic requests that arrive as CAN frames. There is one
thread, the super-loop of `main()`, which calls `uds_app_process()` and a periodic
diagnostic task, and one interrupt that puts received frames into a ring.
Everything else is a library call made from the loop. The C092 application has a
second interrupt, for transmission events, which shares flags with the loop.

```
 CAN bus ──interrupt──> s_rx_fifo ──> uds_isotp_endpoint_receive
                                          │   IsoTpRx (reassembly)
                                          v
                                      UdsServer (session, reset, 0x27, 0x34..0x37)
                                          │     │            │           │
                                          │     v            v           v
                                          │  UdsSecurity-  UdsDownload  back ends: DTC, IO
                                          │  Gate             │         control, memory, DIDs,
                                          │     │        bootloader,    authentication, ROE,
                                          │     v        floor, flash   link control
                                          │  UdsParamStore (NVM) <────── DTC block
                                          v
 CAN bus <── mailboxes <── pending / in-flight / queued / control slots, IsoTpTx
```

| Component | State | Operations | What makes it correct |
|---|---|---|---|
| ISO-TP receiver, `isotp.c` | active, expected length, buffer, next sequence, block count, deadline | reset, feed, tick | a message comes out whole or not at all; no write outside the buffer; the receiver is always released |
| ISO-TP sender, `isotp.c` | state, payload, offset, sequence, block size and count, separation time, WAIT count, deadline | reset, start, flow control, next, tick | follows the peer's flow control; is always released |
| Endpoint, `endpoint.c` | pending frame, in-flight flags, queued response, control frame, reset marks | init, receive, process, tick, tx_complete | no reset runs over an answer that still waits; the transmit path drains; the endpoint does not go deaf |
| Application loop and transport, `main.c`, `uds_app.c`, `can_transport.c` | ring, mailbox mask, error latch, time of the last diagnosis | interrupt, poll, send, complete, error, abort, diagnostic task | the ring never looks empty when it is full |
| UDS session part, `uds.c` | session, pending and ready reset, S3 activity | 0x10, 0x11, 0x3E, tick | sessions end with S3; a reset is deferred until its answer is out |
| Security gate, `uds_security_gate.c`, `uds_security_nvm.c`, 0x27 | state, level, seed and expiry, attempt counter, lockout; a record in NVM | seed, key, tick, session and ECU reset, restore, persist | bounded attempts; lockouts served in full; access ends with the session |
| Parameter store, `uds_wear_leveling.c` | active slot, next sequence number; flash slots | init, load, save, erase_all | an atomic durable register across power loss |
| Download, `uds_download.c`, 0x34/0x36/0x37 | state, range, received, block counter, CRC, deadline | begin, poll, write, finish, abort | writes only where allowed; an acknowledged image is stored |
| Bootloader, `uds_bootloader.c` | candidate flags, metadata, active version; boot journal | download callbacks, EraseMemory, CheckMemory, activate, confirm, rollback, start | no version below a confirmed one is activated; trials are bounded |
| Anti-rollback floor, `boot_floor.c` | floor in RAM and in NVM | load, raise, check | a confirmed version is never undercut |
| Trouble codes, `uds_dtc_app.c`, 0x14/0x19/0x85 | status byte, fault and aging counters, snapshots of ROM and dynamic records; DTC setting; a block in NVM | set_fault, report_event, clear, set_snapshot, set_extended_data, 0x85, attach, save, load | what a tester reads survives a restart; a failed code is listed; confirmed codes age out only when due |
| Dispatcher and back ends, `uds.c`, `uds_services.c`, `uds_io_control_app.c`, `uds_memory.c`, `uds_auth_app.c`, `uds_roe_app.c`, `uds_link_control_app.c`, `uds_did_app.c` | outputs and who controls them, written DIDs and memory, challenge, event set-up, link rate | one request each | memory rights; a proof counts once; outputs can be handed back |
| FDCAN transport and loop of the C092, `can_transport_fdcan.c`, `uds_app_fdcan.c`, `uds_platform_fdcan.c` | pending, complete and error flags, marker, one-frame mailbox; the TX FIFO and TX event FIFO of the controller | send, TX event interrupt, poll, tx_complete, tx_error, deferred reset | completion and error are about the frame that was sent; the transmitter is released |

What is hard to test here: requests that arrive between any two steps of the
loop (the queue of responses is one deep); frames lost at any point of a
segmented transfer; clocks that wrap; power loss inside any flash operation;
writes that fail half way; flags that one function sets and another must clear;
long sequences of legal requests; an interrupt between two stores of a driver.
`PROJECT.json` lists 41 such hazards with their lines and the properties that
cover them.

## 2. Modules and what they stand for

| Module | Models | Extends / composes |
|---|---|---|
| `IsoTp` | `isotp.c`: each call is an operator from the old record to the new one plus the frame or status it returns | |
| `IsoTpService` | abstract specification: messages arrive whole, in order, at most once | |
| `IsoTpLink` | a sender and a receiver joined by a bus that loses frames | `IsoTp`, refines `IsoTpService` |
| `UdsSession` | sessions, ECUReset, TesterPresent, S3 as operators on the server record | |
| `Endpoint` | the super-loop of the F767 application around `endpoint.c`, with its diagnostic task | `IsoTp` + `UdsSession` |
| `ParamRegister` | abstract specification: a durable register | |
| `ParamStore` | `uds_wear_leveling.c`, one flash operation a step | refines `ParamRegister` |
| `SecurityAccess` | the gate, service 0x27, and the NVM copy of the counter | `UdsSession` |
| `Programming` | 0x34/0x36/0x37, the routines, the slots, journal and floor | `UdsSession` |
| `DtcStore` | the trouble-code memory and its block in NVM | |
| `Services` | the dispatcher and the services of both applications behind it | `UdsSession` |
| `FdcanTransport` | the FDCAN transport of the C092 and its loop, with interrupts | |
| `IsoTpLink_proofs`, `Endpoint_proofs`, `SecurityAccess_proofs`, `ParamStore_proofs`, `Programming_proofs`, `DtcStore_proofs`, `Services_proofs`, `FdcanTransport_proofs` | theorems (section 5) | their component |
| `MC…` | the instances TLC checks | |

**IsoTp.** A frame is a record tagged with its N_PCI type; `data` holds the
bytes after the header, padding included, so its length stands for the DLC.
Bytes are opaque. `DL` is the frame length (8 in the code), so that a first
frame carries `DL-2` and a consecutive frame `DL-1` bytes. Sequence numbers
wrap at `SeqMod` (16), the clock at `ClockMod` (2^32); `Expired` is the signed
comparison of `time_reached()`. `RxFeed` dispatches as `isotp_rx_feed()` does,
half-duplex rule, length checks and overflow answer included.

**IsoTpLink.** Submission *n* carries the bytes `<<n,1>>, <<n,2>>, …`, so that a
byte of another message or a padding byte is recognised wherever it ends up. The
bus keeps the order of frames, as CAN does for one identifier, and may lose any of
them (`LoseData`, `LoseFc`); it does not duplicate them. On such a bus the
counting of blocks already keeps messages apart: TLC finds `ServiceSpec` true
even without the comparison of sequence numbers, which guards against
duplicates and stale transfers. Once more than `QuietMsgs` messages are submitted the
receiving node may answer WAIT first, as a foreign stack may, and time may pass while
frames are queued (`Unruly`). The proofs hold for every value, 0 included.

**Endpoint.** One iteration of the loop in `main()` is five steps: `Poll`
(completion and transmission status), `Receive`, `Process`, the tick
(`TickTimers`, or `TickExecutesReset` when a reset is due), and
`App_DiagnosticTask()` (`Diagnose` every `DiagPeriod`, else `DiagnosisNotDue`), which
asks the transport for errors without telling the endpoint. The interrupt, the
mailbox hardware, bus-off and the clock act between any two. The slots of
`UdsIsoTpEndpoint` are sequences of at most one element, which stands for the
content and its flag at once. `answer` and `silent` are history variables: what
became of the answer to the latest ECUReset. `TransportError` leaves out the last branch of
`uds_can_transport_tx_error()` (`can_transport.c:81-97`): it looks at bits of `ErrorCode`
that only the HAL's transmit interrupt sets, which `main()` does not enable. An ECUReset
returns everything to the state of
`uds_app_init()`.

**ParamStore.** A slot is a payload cell and a header cell, each erased,
programmed or torn. `Scan` finds the newest valid slot as `uds_param_init()`
does, one slot after the other (`At`), keeping the better of two (`Better`), on a
circle of sequence numbers that skips 0. A save is erase (on entering a
sector), payload, header, each a step; a power loss or a port error may
hit each and leave it undone, torn or done. Assumed: CRC-16 tells the values
apart; the CRC of erased cells is not the erased pattern; a header the port
reports as failed is not complete; `2 * (slots + 1) <= SeqMod`, which the code
does not check and which 16-bit numbers satisfy with any realistic geometry.

**SecurityAccess.** `Seed…`, `Key…` are the paths of the 0x27 handler, from
the call of `uds_security_gate_tick()` it begins with to the record it
persists; the application's callbacks accept, reject or refuse. Storage is a
register (what `ParamStore` is shown to implement), may fail at most `MaxFaults` times
between two lockouts served, and power may be cut before or after a write
(`PowerCycle`, `CutInFailure`, `CutInRelease`). `wrong`, `faults`,
`left` and `age` are history variables that count in the real world, not on the
wrapping clock.

**Programming.** A cell of flash is one programming unit and one TransferData
block; it is erased, torn, foreign, or holds what belongs there in the
image of some version. CRC, hash and signature are taken to tell such contents apart.
The first cell is the header with the vector table, which the hash does not
cover. `target` chooses between the F767 (activation in place, sectors,
programming a second time merges) and the C092 (pages, programming a second time
fails; an ECUReset resets and activates nothing, and `uds_c092_app_init()` sets the target again
after the journal was read, which forgets what it restored: `Booted`); `journaled` says whether
the build has a
boot journal. The HAL build has stubs (`bootloader_nvm_save_metadata`), so both
cases are checked. The floor is readable; the application attaches no floor
store and calls neither confirm nor rollback, the library interface offers them and
the actions `Confirm` and `Rollback` stand for an integrator's calls.

**DtcStore.** A status byte is the set of its bits, a snapshot is where its bytes
come from (ROM table, built-in default, a call that recorded one); extended-data
bytes, which no report returns, are left out. Every call changes RAM and then
saves the whole block; a save is atomic (what `ParamStore` is shown to implement) and
may fail, and the callers ignore its result. `PowerCycle` is init, attach and load.
The history variable `missed` says that the last save since the start failed. `quiet` counts
the passing reports at the floor of the fault counter since the last failure or clear; it is
what an observer of the calls would count, and neither a save nor a restart touches it. `granted`
has the codes whose aging counter did not come from such reports (baseline codes, counters that
`set_extended_data()` dictated, a failure or clear that a restart undid), `unsaved` those whose latest
failure or clear is not in the block.

**Services.** One action is one request, from `uds_server_handle_addressed()` to
its answer; `NotAdmitted` and `Malformed` are the refusals of the dispatcher and
of the format checks of every handler. `target` is the application, and `Offered` the services
it has a handler for. Memory access is that of the C092 application only: the F767 one
gives the handlers the CAN transport as context, which they take for their memory manager
(section 7). Handlers of 0x29, 0x2F, 0x3D and 0x87 also test the room for their
answer after they changed something; the endpoint always offers 4095 bytes (`endpoint.c:125`),
so that these refusals are never made and are left out. Session changes come from `UdsSession`;
SecurityAccess is reduced to the level the other services read. The shared
identifier of EGR and IAC, its masks and its one frozen flag are as in
`uds_io_control_app.c`; addresses are a short interval that ends with the last
region, so that a range may run past the end of the address space. `earned` and
`uses` are history variables: the session a key was accepted in, and how often a challenge's
proof was accepted.

**FdcanTransport.** `uds_c092_fdcan_send()` runs with interrupts enabled and is
four steps (`BeginSend`, `PendSend`, `ClearSend`, `AddSend`); what the loop does with
interrupts masked is one (`Poll`), and so is each interrupt. `Transmit` is the
controller: it sends the head of the TX FIFO and stores an event, or loses it. `tx_marker` is not
`volatile` while the flags are: `late` is the build that stores it after them,
which `gcc -O2` produces. `wired` is the set of TX event interrupts a project enables
(the guide enables new data only). The endpoint is reduced to its slots and
responses of one frame. History: `gone` and `done` (the frame left; the endpoint was
told so), `alarm` (an error was raised since the submission), `missed` (its event was lost
and no interrupt says so), `aliased` (its marker equals that of an earlier frame that
is not drained).

## 3. Runs

| Run | Checks | Instance | States |
|---|---|---|---|
| `isotp_service` | `TypeOK`, `BuffersRespected`, `ReceiverConsistent`, `ServiceSpec`, `Recovery`, `SidesReleased` | frames of 3 bytes, 3 messages of 2, 10 or 11 bytes into a buffer of 10, blocks of 2, sequence numbers modulo 4, clock modulo 6, 2 losses; WAIT without end and late frames from the third message on | 307 k |
| `endpoint_reset` | `TypeOK`, `ResetAfterAnswer`, `MarksAreCurrent` | 3 tester frames at any moment, physical and functional, 2 mailboxes, ring of 3, 1 failed transmission, 1 bus-off, a diagnosis every 2 ms | 3.0 M |
| `endpoint_liveness` | `ListensAgain`, `TransmitPathReleased` | a tester that waits for its answers; segmented requests and responses | 354 k |
| `param_store` | `TypeOK`, `LoadAgreesWithReboot`, `RegisterSpec` | 2 sectors of 2 slots, 2 values, sequence numbers modulo 10 | 49 k |
| `security_access` | the seven properties below | 2 levels, 3 attempts, clock modulo 8, 2 failed writes | 98 k |
| `programming` | the six properties below | both targets, with and without journal, 2 versions, slots and images of 2 cells, addresses modulo 8, block counters modulo 2 | 155 k |
| `dtc_store` | `TypeOK`, `RestartAgrees`, `FailedIsListed`, `ConfirmedAgesOut`, `SettingOffFreezes` | 2 ROM codes, 2 others for 1 dynamic record, a block with 2 snapshots, fault counter -2..3 in steps of 2, aging limit 2, 2 calls, 5 reports, 1 failed save | 953 k |
| `services` | `TypeOK`, `OutputsAccounted`, `ProofAcceptedOnce`, `MemoryGuarded` | both applications, 3 regions in 6 addresses, 2 output values, challenges modulo 2, 2 rates, 4 requests that change something | 55 k |
| `fdcan_transport` | `OutcomeIsOwn`, `TransmitterReleased` | FIFOs of 2, markers 1 to 3, events wired in two ways, both builds, 3 received and 2 foreign frames | 379 k |
| `endpoint_session_reset`, `endpoint_diagnostics`, `fdcan_marker_race` | one property each, violated | see section 6 | |

Why the bounds reach the cases that matter:

- *ISO-TP*: lengths 2, 10 and 11 are a single frame, a message that fills the
  buffer (FF and 5 CF, three blocks, a sequence number that passes its wrap) and
  one that overflows it by a byte. Three messages let the remains of one meet
  the next two; two losses hit both ends of one transfer, or two transfers. Timeouts
  of 2 on a clock of 6 wrap several times in a run.
- *Endpoint*: three frames are the least that put one response in flight, one
  in the queue and a third in the way; a ring of 3 is full with two. Functional
  TesterPresent, a short and a long answer and an ECUReset are the kinds of
  answers the slots tell apart. S3 expires within a run.
- *ParamStore*: two sectors of two slots make sector changes with and without an
  erase pending; ten sequence numbers are the least the assumption allows, and
  every behaviour wraps. There is no bound on saves, wipes, losses or errors.
- *Security*: three attempts, so that a restart can fall between the first and
  the second, and between the second and the last; the clock wraps inside a lockout.
- *Programming*: requests are all of slot B, its last cell, a range that runs
  past its end, one that wraps around the address space, and an empty one. With counters
  modulo 2 a two-cell transfer wraps. Two versions are what a downgrade needs.
  Power fails without limit.
- *Trouble codes*: one dynamic record for two codes fills the array; two snapshots
  for three records leave one out of the block; the counter clamps at both
  ends; five reports confirm a code, age it by one, fail it again and age it out.
- *Services*: an open and a secured region are neighbours, and the secured one ends the
  address space; challenges wrap after two; four changes are an unlocking, a session
  change and two uses, or an adjustment of two outputs with two masked releases.
- *FDCAN*: two elements are full with one foreign frame and one of our own; three frames
  put a response in flight, one behind it and one in the way; with three markers the
  second send wraps, and a marker comes round within one full FIFO.

`CHECK_DEADLOCK FALSE` is set for the link only: when its submissions are used
up and everything is delivered it may stop.

What the properties say:

- `BuffersRespected`: the copy loops of `isotp.c` have no bounds check of their
  own; the lengths they keep imply one.
- `ReceiverConsistent`: the expected sequence number is the number of
  consecutive frames copied plus one, and a full block never waits.
- `ServiceSpec`: refinement of `IsoTpService`. WAIT answers and late frames come only with
  the last message of the run (`QuietMsgs`): with another one to follow it is *false*. A CTS
  that arrives after its transfer was
  abandoned starts the next one, the receiver may still hold the first frame of
  the old message, and consecutive frames do not say which message they belong
  to. That is a limit of the protocol (ISO 15765-2 relies on the timeouts of
  both sides being far longer than any delay on the bus), not of this code.
- `Recovery`: a message submitted after the last loss, and not held up by WAIT or
  delay, is delivered.
- `SidesReleased`: no transfer and no reception lasts for ever.
- `ResetAfterAnswer`: the ECU never resets over a positive answer that still waits in a slot or
  a mailbox: it was acknowledged, lost on the bus, or aborted with its mailbox. A mailbox
  also empties when its frame was lost, because retransmission is disabled, and when
  the diagnostic task aborts it. `ResetAfterTransmission` is the stronger property that the
  answer was transmitted; the run `endpoint_diagnostics` shows that the code does not have it.
- `MarksAreCurrent`: no response is marked as the answer to a reset that is
  no longer pending.
- `ListensAgain`: while an ECUReset is pending every request is ignored; that
  ends. `TransmitPathReleased`: no slot of the transmit path stays occupied.
- `LoadAgreesWithReboot`: between calls `uds_param_load()` returns what a
  reboot would recover. `RegisterSpec`: refinement of `ParamRegister`, saves are atomic
  across a power loss at any flash operation.
- `GateConsistent`: the flags of the gate, set in different functions, never
  contradict each other. `AccessNeedsSession`: no level and no seed outlives its
  session. `AttemptsBounded`: at most `MaxAttempts` wrong keys are answered between
  lockouts, plus one for each refused write. `LockoutServed`: a lockout runs its full
  time, across restarts and the wrap. `UnlockEarned`: a level is unlocked only by a
  key for an unexpired seed of that level. `LockoutEnds`: every lockout ends.
- `BlocksAgree`: the two block counters (server, download) agree while a
  transfer can go on. `StaysInSlotB`: no request changes flash outside slot B.
  `ExitMeansStored`: a positive RequestTransferExit means flash holds what was
  sent. `NoDowngrade`: no version below a confirmed one is activated.
  `TrialBounded`: an image on trial is started fewer than three times.
- `RestartAgrees`: unless the last save failed, a restart changes nothing a tester can
  read, but for snapshots that do not fit the block. `FailedIsListed`: a failed or confirmed
  code is in the reports, whose list depends on an `active` flag kept apart from the status.
  `ConfirmedAgesOut`: a passing report takes the confirmed bit away only after `AgingLimit`
  passing reports since the last failure or clear, as counted by an observer of the calls, across
  restarts and failed saves; `granted` codes are excepted. `SettingOffFreezes`: what the
  server acknowledged for 0x85 is what the application obeys.
- `OutputsAccounted`: an output off its default is under control, so that handing
  control back undoes everything. `ProofAcceptedOnce`: no proof counts twice within a
  period of the challenge sequence. `MemoryGuarded`: a write to the memory of the
  C092 stays in one region and has the session and the key this region asks for.
- `OutcomeIsOwn`: the endpoint takes a response as sent only when that frame left the
  controller, and aborts it only for an error raised since its submission. It exempts two
  cases in which the code fails to do so: the `late` build with the error interrupts
  enabled (the run `fdcan_marker_race` checks `MatchingEventOnly`, which has no exemption), and a
  marker that came round (section 7). TLC finds it false without either exemption.
- `TransmitterReleased`: the transmitter and the slot in flight are freed, unless an event
  was lost and no interrupt is enabled that would say so.

Every property of a passing run has a mutant in `PROJECT.json`: a plausible bug
in the mapped code under which TLC finds that property violated.

## 4. Fairness

Weak fairness only, and only for what the hardware and the scheduler owe:

- the super-loop runs for ever (after the initialisation `main()` is that loop, nothing in
  it blocks, and the diagnostic task is one of its steps) and calls each component's tick
  (`Loop`; `SendNext`, `…Receive`, `…Tick`; `Ticks`);
- the clock advances (`ClockTick`, `Tick`, `Elapse`);
- a controller that is not bus-off transmits what is in its mailboxes or FIFO;
- an interrupt that is raised is served (`TxEventInterrupt`).

Testers owe nothing: no fairness on requests. Losses, write failures and bus-off
are never fair and bounded. Three exemptions are part of the properties. The
endpoint's liveness exempts bus-off, because automatic recovery is disabled and
no code calls `uds_can_transport_recover()`. `LockoutEnds` exempts an ECU that
is restarted for ever, because each restart restores the full lockout.
`TransmitterReleased` exempts an event lost in silence, because nothing in the
transport times out.

In `Endpoint` the clock advances at most once an iteration, and in `SecurityAccess`
at most once between two ticks: the loop is faster than a millisecond.

## 5. Proofs

`tlapm <module>_proofs.tla` checks all obligations with Z3, Zenon and LS4. The only
assumptions are the named `ASSUME`s on the constants, which TLC evaluates in every
run. Every inductive invariant was checked with TLC before it was proved. The theorems
hold for every value of the constants: sizes, limits, moduli, tables, and any number
of requests, losses and failures.

| Module | Theorems (and the property each states) |
|---|---|
| `IsoTpLink_proofs` | `TypeCorrect`, `BuffersSafe` (`BuffersRespected`), `ReceiverAlwaysConsistent` (`ReceiverConsistent`) |
| `Endpoint_proofs` | `InvariantHolds`; from it `TypeCorrect`, `MarksAlwaysCurrent` (`MarksAreCurrent`), `ResetAlwaysAfterAnswer` (`ResetAfterAnswer`) |
| `SecurityAccess_proofs` | `TypeCorrect`, `GateAlwaysConsistent` (`GateConsistent`), `AccessEndsWithSession` (`AccessNeedsSession`), `UnlockAlwaysEarned` (`UnlockEarned`); with storage attached, `AttemptsAlwaysBounded` (`AttemptsBounded`) and `LockoutAlwaysServed` (`LockoutServed`) |
| `ParamStore_proofs` | `TypeCorrect`, `LoadAlwaysAgrees` (`LoadAgreesWithReboot`); with two sectors or more, `StoreIsRegister` (`RegisterSpec`) |
| `Programming_proofs` | `TypeCorrect`, `BlocksAlwaysAgree` (`BlocksAgree`), `TrialAlwaysBounded` (`TrialBounded`), `AlwaysStaysInSlotB` (`StaysInSlotB`), `ExitAlwaysMeansStored` (`ExitMeansStored`), `NeverDowngrades` (`NoDowngrade`) |
| `DtcStore_proofs` | `TypeCorrect`, `RestartAlwaysAgrees` (`RestartAgrees`), `FailedAlwaysListed` (`FailedIsListed`), `ConfirmedAlwaysAgesOut` (`ConfirmedAgesOut`), `SettingOffAlwaysFreezes` (`SettingOffFreezes`) |
| `Services_proofs` | `TypeCorrect`, `OutputsAlwaysAccounted` (`OutputsAccounted`), `ProofsAcceptedOnce` (`ProofAcceptedOnce`), `MemoryAlwaysGuarded` (`MemoryGuarded`) |
| `FdcanTransport_proofs` | `OutcomeAlwaysOwn` (`OutcomeIsOwn`) |

**IsoTpLink_proofs.** For every frame length from 3, buffer size, block size, timeout
and clock width, with WAIT answers and late frames.
`IInv == TypeOK /\ BuffersRespected` is inductive; neither part is alone, since
the types of the lengths follow from the bounds (`expected_len <= RxMax` comes from the
overflow test in `RxFirst`, `Len(buffer) < expected_len` while active from the
test that ends a reception) and the bounds need the types. One lemma per
library call (`RxFirstOK`, `RxAppendOK`, `TxConsecutiveOK`, …) says that the call keeps
both and returns a well-typed frame; `NextIInv` has one case per action.
`ReceiverConsistent` is inductive relative to `IInv`: a consecutive frame that does not
complete the message is a whole one, because a shorter one is refused, so that bytes
and sequence number advance together (`RxAppendConsistent`; the wrap is `CountsOn`).

**Endpoint_proofs.** For every frame length from 3, clock, size of the ring, number of
mailboxes, set of operations, and any number of frames, losses and bus-off episodes;
full and half duplex. That every answer fits the transmit buffer (`TxMax >= 4`) is an
assumption, as `UDS_MAX_RESPONSE_LENGTH` is below `ISOTP_MAX_PAYLOAD`.

`IInv` holds the types (`LoopTyped`, `PathTyped`, `CanTyped`), the two properties and what
they need. `ResetAfterAnswer` needs to know what a mark is: `MarkedIsAnswer` says that a marked
response is the single frame of RESET_OK and that a segmented transfer has no mark to hand on
(`tx_reset_completion`). `FlightCarries` says that a marked frame in flight still waits in a
mailbox of `tx_mailbox_mask`, or its fate is settled: sent, lost or aborted. The diagnostic task
keeps this, because what it takes out of the mask it aborts (`DiagnoseKeeps`); so when
`uds_can_transport_tx_complete()` finds the watched mailboxes empty, the answer does not wait
any more (`AnswerGone`). `ReadyIsReset` says that only an ECUReset becomes ready, and with it that a
ready server ignores requests. `MarksAreCurrent` is kept by an abort because
nothing is pending behind a frame in flight and the queue is emptied. One lemma per library call
(`RxFeedOK`, `TxStartOK`, `TxNextOK`, `HandleOK`, …) and one per action or branch of
`uds_isotp_endpoint_process()`.

**SecurityAccess_proofs.** For any set of levels, limit, timing and number of
write failures. `AttemptsAlwaysBounded` and `LockoutAlwaysServed` assume that the
storage is attached (`Persistent`); without it they are false (section 7).

`IInv == TypeOK /\ GateConsistent /\ AccessNeedsSession /\ Counted`. `Counted` is the
strengthening the bound on attempts needs: both the counter in RAM and the
stored one, plus the writes that failed, are at least the number of wrong keys;
the bound itself says nothing about what a restart brings back.
`LockoutServed` needs `Owed`: the real time a lockout still has to run is at
most what the wrapping clock shows; as long as time is owed and no write has failed,
the stored counter is at its limit, so that a restart locks again; and a stored
remaining time is none or the full one. `UnlockEarned` needs `Aged`: what the clock shows
until the expiry of a pending seed is what its real age leaves of the timeout, and a seed
whose time is up is one the loop has not looked at yet (a key request looks first). The
arithmetic on the clock is in `ModSmall`, `ModOver`, `ModUnder`, `RestOfNew`,
`RestOfElapsed` and `AgesWithClock`.

**ParamStore_proofs.** For every number of sectors and slots with
`2 * (slots + 1) <= SeqMod`. Three things have to be known of the flash at any moment,
also half way through a save or a wipe: a header is there only with the payload it describes
(`Whole`); relative to
the active slot, the slots behind it in the order of filling carry the numbers of the last
writes (`Placed`), which is what makes the comparison of wrapped numbers a linear
order; and the active slot stays valid until its successor is complete (`Anchored`).
`OpPlace`, `OpFree`, `OpPayload` and `OpWipe` say how far the call under way has
come, `PastHolds` that nothing in flash predates the last complete wipe. What
the loop of `scan_for_active_slot()` returns is proved by induction on the slots it has
passed: `Least` derives the least-number principle from `WellFoundedInduction`,
`ScanSteps` unfolds the recursive function, `ScanNewest` concludes that the
scan finds the newest slot of any flash that is `Ordered`.

`StoreIsRegister` is the refinement of `ParamRegister`, step by step (`StepRefines`): the
header completes the register's save; the erasure and the payload before it are stutters, since
they spare the slot a restart recovers; a port error or a power loss is a failed save. Where a wipe
was cut short the step may uncover an older value, as the register allows. It needs
`SectorCount > 1`: with a single sector, which `uds_param_init()`
accepts, the erasure before a save takes the only copy with it, and a
power loss there loses the value. `LoadAgreesWithReboot` holds with one sector too.

**Programming_proofs.** For every size of slots, pages and images, width of addresses and
of block counters. Besides types, `IInv` has four parts the properties need. `Reserved`:
the range of an open download lies in slot B. Neither `validate_download_region()` nor
`uds_bootloader_request_download()` guarantees that alone: the unsigned subtraction of
`range_inside()` lets a range pass that begins beyond the end of the slot; both tests
together exclude it (`AcceptedInside`). `OnTrial`: each start of an image on trial is in its
record, and `JournalCurrent`: so it is in the journal, and on the C092 no image is
ever on trial. `FloorCovers`: a confirmed
version is at most the floor in RAM, and that at most the stored one, whatever writes failed.
`VerifiedIsNew`: what is verified is a candidate that was compared with everything
confirmed so far. `ExitMeansStored`, `NoDowngrade` and `StaysInSlotB`
are action properties proved from `IInv`.

**DtcStore_proofs.** For every ROM table, number of dynamic records, thresholds and size of
the block. `Good` ties the records to their order (`Listed`: what failed or is confirmed is
active). It must hold of RAM and of the block (`GoodBlock`), because a restart makes
the block the new RAM, and of the block also that it keeps its snapshots when it is loaded
and saved again. `RestartAgrees` is part of the invariant. `ConfirmedAgesOut` needs `Earned` beside
it: the aging counter of a code that is not `granted` is not ahead of the observer's count,
in RAM and in what a restart would bring back; a restart that undoes an unsaved failure or clear
moves the code to `granted`.

**Services_proofs.** For every memory map, set of values, identifiers, rates and period of
the challenges. `MemoryGuarded` needs `LevelEarned` (a level is only active in the session its
key was accepted in), `ProofAcceptedOnce` needs `ChallengesFresh` (no challenge ahead in the
sequence, nor the open one, was used in this period).

**FdcanTransport_proofs.** For every depth of the FIFOs, number of markers and wiring, in
both builds and at every interleaving of `uds_c092_fdcan_send()` with the interrupt. Two
arguments cover the two cases `OutcomeIsOwn` promises: where the marker is stored
first, only the latest frame has its marker (`MarkersOwn`); where only new-data interrupts
are enabled, no frame is given up, so that the FIFOs hold at most one of the endpoint's frames
(`OneMarked`). `ErrorsRaised`, `EventsGone`, `CompleteGone` and `DoneGone` carry
this from the FIFOs to the flags and to the endpoint.

**Only model-checked**:

- liveness (`Recovery`, `SidesReleased`, `ListensAgain`, `TransmitPathReleased`, `LockoutEnds`,
  `TransmitterReleased`), which is outside the prover's reach, as are all arguments with fairness;
- `ServiceSpec`, the refinement of `IsoTpService`: it relates frames of several messages, under
  way and lost, to what both sides hold, and is true only because time stands still while frames
  are on the bus; no proof has been attempted.

## 6. Findings

Each has a run in which TLC produces the counterexample.

1. **A session change makes a later ECUReset hang**
   (`endpoint_session_reset`, `endpoint.c:126`). A change to Programming or back to
   Default sets `reset_pending` and nothing clears it. The answer to a following
   ECUReset is then not marked, the reset never completes, and the endpoint
   ignores every request from then on.
   `docs/conformance/issue13_tx_pending_report.md:52` says the endpoint completes the
   reset exactly once.
2. **The diagnostic task turns an aborted answer into a completed one**
   (`endpoint_diagnostics`, `main.c:109`). `App_DiagnosticTask()` calls
   `uds_can_transport_tx_error()` behind the endpoint's back. With the answer to an ECUReset in
   a mailbox and the controller bus-off, the call aborts the mailbox and empties
   `tx_mailbox_mask`; the next `uds_can_transport_tx_complete()` is true of the empty mask, and
   the ECU resets without having answered. `docs/conformance/issue13_tx_pending_report.md:48`
   says the mask is cleared only when no tracked mailbox remains pending, and
   `docs/engineering/issues_13_18_gap_analysis.md:89` asks to transmit the positive response
   before the reset.
3. **A stale event completes an answer** (`fdcan_marker_race`, `can_transport_fdcan.c:117`).
   `tx_marker` is not volatile. In a build that stores it after the flags, with the FULL or LOST
   interrupt enabled, the event of a flow control given up earlier is served while the next
   frame is being submitted, and completes that one. `examples/stm32c092/README.md:89` says
   that only the matching event does.

## 7. Observations without a run

Behaviour the models have, about which no document says what should happen, or
which follows from a setting outside the models:

*Endpoint and transport*

- With one response on its way and one queued, `start_response()` drops the answer to an
  ECUReset; the reset stays pending and the endpoint is deaf (`endpoint.c:33`;
  `docs/conformance/issues7-8_implementation_report.md:264` says the positive
  response is queued first). `ListensAgain` is checked with a tester that waits.
- A functional single frame that arrives during a segmented physical reception is fed
  to the same receiver (`endpoint.c:162`), which abandons the reception for it.
- With retransmission disabled a mailbox empties when its frame is lost too;
  `uds_can_transport_recover()` is called by no code.

*FDCAN transport and C092 application*

- A submission refused for a full TX FIFO also takes a marker, one per iteration: after 255
  of them the marker is that of the frame still waiting.
- With new-data interrupts only (as the guide wires them) a lost TX event leaves `tx_pending` set
  for ever; so does bus-off.
- FIFO_FULL aborts a response that is sent all the same, and drops the ECUReset it
  announced.
- `uds_server_tick()` forgets the reset before the platform's 50 ms wait begins, so that
  requests are accepted meanwhile and another ECUReset restarts the wait;
  `examples/stm32c092/README.md:188` says they are ignored.
- A frame that arrives while the one-frame mailbox is full is dropped.

*Storage and security*

- After a save that was cut short the next one programs the same slot without looking whether
  it is erased (`uds_wear_leveling.c:231`); a comment in `test_security_nvm.c:37` says
  real flash cannot do that. On flash with ECC every further save in that sector then fails;
  on flash that merges, the save may be acknowledged though its CRC cannot match.
- The F767 application attaches no security storage (`uds_app.c:126`), although
  `CHANGELOG.md:18` says that lockouts survive resets and power cycles: nothing but tests
  calls `uds_security_nvm_attach()`.
- With `sector_count` 1, which `uds_param_init()` accepts, every save that enters the
  sector erases the only copy first: a power loss then loses the parameters.
- After an interrupted save on ECC flash every save in the sector fails, so that the
  release of a lockout may never become storable; `MaxFaults` assumes that failures end.
- A seed of level 2 that expires while level 1 is unlocked leaves the gate
  LOCKED_READY with `active_level = 1`.
- `docs/uds/security_access.md:66` says a reset clears the counter;
  `CHANGELOG.md:18` and the code say it does not.
- `docs/uds/session_control.md:62` says requests keep the session alive; requests
  denied by a service attribute do not (`uds.c:1227-1232`).

*Programming*

- CheckMemory during a trial overwrites the only metadata record: the trial can
  then be neither confirmed nor withdrawn, and after a restart `active_version` is
  that of a candidate that never ran.
- `candidate_verified` survives EraseMemory and a RequestDownload whose erasure
  failed: an ECUReset then activates a slot that no longer holds what was verified.
- No C092 application calls `uds_bootloader_activate_candidate()`: the build excludes
  `uds_app.c`, and `uds_platform_fdcan.c` only resets. A verified candidate is never
  activated there, and the copy into slot A is run by tests only.
- In the build for the hardware the metadata is neither saved nor loaded
  (`uds_bootloader.c:102`), so that `active_version` is 1 after every start, also that of an image
  just activated, and trials and confirmations do not survive a reset;
  `uds_app_fdcan.c:200` would forget a restored version on the C092 in any build.
  `CHANGELOG.md:22` says "Restored active firmware version floor from validated NVM metadata
  at boot." `NoDowngrade` is about confirmed versions, which the floor store keeps.
- A failed EraseMemory blocks TransferData until an EraseMemory succeeds.
- A TransferData block repeated because its answer was lost is refused.
- `range_inside()` underflows for an address beyond its region; the wrap test
  before it and the bootloader's own check make up for it (`StaysInSlotB`).
- `uds_download_tick()` is called by no code; a transfer timeout is noticed only
  by the next block.

*Trouble codes*

- Aging counts passing reports, not operation cycles (`uds_dtc_app.h:31`). The baseline codes
  start with an aging counter of 40: their first passing report at the floor un-confirms them.
- A passing report clears neither pending nor failedThisCycle. Codes that are only pending
  are not listed.
- A cleared baseline code shows the snapshot of the ROM table again.
- Dynamic records are never freed; neither application attaches the NVM block.

*Other services*

- IO control, authentication, link rate and DTC setting outlive the session.
- Freezing EGR or IAC sets one shared flag; a masked release of one unfreezes both.
- The F767 application passes the transport as `uds_context` (`uds_app.c:119`), which
  `resolve_manager()` (`uds_memory.c:37`) takes for a `UdsMemoryManager`: the table of regions is
  the CAN handle, their number the request identifier, the limits the response
  identifier and the mailbox mask. The regions of `uds_memory_app.c` are never consulted there, and
  what 0x23 and 0x3D do depends on the contents of RAM. The C092 application passes no context.
- DID F186 always reports the default session.
- `docs/uds/service_attributes.md` gives 0x11 and 0x85 as physical only; the table allows
  both. Back ends installed through `uds_services.c` ignore the suppress bit.
- A refused verification of LinkControl keeps an earlier one; a transition changes
  the record only, the CAN controller keeps its rate.
- The challenge sequence starts over with every restart and repeats after 256.
- The length check of `handle_report_activated()` counts one byte fewer than it writes;
  its buffer is always larger.

*Flash state machine* (`uds_flash_fsm.c`, used by no application)

- The end of a range wraps at the top of the address space; an unaligned start misses
  the last sector; without a driver success is reported; `total_size` is not enforced;
  `Flash_StateClear()` forgets an operation that is running.

## 8. What is not modelled

- CAN FD layouts, extended and mixed addressing, and the microsecond values of
  STmin: byte layout and units on top of the control modelled here.
- Boot metadata format, cryptographic primitives, seed and key computation: arithmetic,
  taken as "tells contents apart" or as the callback's answer.
- The byte layout of the DTC reports, values of data identifiers, and the registry of
  `uds_did.c`, which only a test uses.
- Memory access (0x23, 0x3D) on the F767, whose outcome depends on RAM (section 7), and the copy of a
  candidate into slot A of the C092, which no application calls.
- Services for which no application installs a back end, and services that parse a
  request for a callback and keep no state.
- The asynchronous flash state machine: no application uses it.
- The closed floor after an unreadable floor record; CRC-only verification of images.
- HAL wrappers, other ports and examples, start-up code and vendor drivers: hardware
  access, generated or third-party code.

## 9. Plan

Order of the work: transport, endpoint, storage, security and programming first,
because a fault there makes the ECU unreachable or unsafe to program; then the
trouble codes, the other services and the FDCAN transport. All of these are done.

What is left to model: CAN FD framing as operators checked against a reference
definition; full duplex and longer responses on FDCAN in `Endpoint`; the flash state
machine, should an application use it.

Next theorem: `ServiceSpec` of the link, the one safety property that is only model-checked.

# FieldKit core and module firmware: TLA+ models, checks and proofs

The repository is the firmware of a FieldKit station: a *core* board (`src/src/core`) that schedules
readings, logs them, serves an app over Wifi, uploads files and fetches firmware; and sensor *modules*
(`src/src/modules`, `src/module`) that the core powers and queries over I2C. `src/src/common` is shared.
Each processor runs one super-loop: a state machine (tinyfsm) whose current state's `task()` is called
again and again; tasks wait by calling `alive()` in loops of their own. Concurrency comes from the two
processors, from interrupt handlers (the module's I2C child, the core's button), from events that
`alive()` dispatches in the middle of a task, from log messages that are written wherever code logs, from
the app and the upload server, and from power that fails anywhere.

Run, in this directory, `tlc -config X.cfg M.tla` for the runs and `tlapm M.tla` for the proofs.

## Inventory

| component | state it keeps | operations | what is hard | correct means |
|---|---|---|---|---|
| Module link, core side: `module_comms`, `two_wire_task` | `address`, `pending`, `hasQuery`, `hasReply`, the TwoWireTask; a handler's `active` and `pending` | enqueue, task (prepare, send, receive, BUSY, RETRY, timeouts), push, handle | late, lost and garbled replies, timeouts racing replies, resends | a reply answers its query, the link is idle when its clients are, a transaction ends |
| Module link, module side: `two_wire_child`, `module_idle`, `module_servicer` | `incoming_`, `outgoing_`, the pipe, the state | receive and reply interrupts, serve | interrupts inside the main loop, orphaned replies, resets | a reply that is dropped is no other than that of a query asked for too early |
| Gathering readings: `gather_readings`, `take_readings`, `live_data_reading`, `app_module_query_task` | retries, the owner of `twoWire1`, the reading number, the log | acquire, query, merge, done, error, give up | several clients of one bus, abandoned transactions, stale readings of an earlier gather | a sensor once per reading, complete readings are complete, the bus is released |
| Core state machine: `core_fsm`, `tinyfsm.hpp`, the states | current, previous and resume pointers, radio, modules' power, indices | 30 states, 6 events | events in the middle of a task, back() and resume() over pointers an event overwrote | no null state, readings resume what they interrupted, the radio is on where it is used, the schedule is heard again and again |
| Firmware storage: `firmware_storage`, `flash_storage` | files, banks, the saved super block | write, verify, update, backup, reclaim | power failing between bank, save and erasure; a failed save; blocks used again | a saved bank names a complete image |
| Firmware download: `check_firmware`, `firmware_health_check` | the open file, bytes received | download, verify, update, self flash | downloads that break off, lost writes, power | only complete images are flashed |
| Firmware push: `transmissions`, `upgrade_module_firmware`, `module_receive_data` | query, position, checksum; pipe, received, `dataCopyStatus` | prepare, stream, verify; receive, erase, update, flash | queries inside the stream, overflow, a stream cut off, a verification that is thrown away | the module only commits what the core sent, comes back to its idle state, and takes the push |
| Scan of attached devices: `attached_devices`, `scan_attached_devices` | address, `scanning`, the query, the hold on the bus | scan, resume, done, error | a bus that is taken, a module that stops answering half way | the list is what answered, each listed sensor is described, the bus is free afterwards |
| State of the core: `core_state`, `flash_storage` | reading number and its copies in RAM and flash, module list and its pool, readings' status | started, getOrCreateModule, merge, takingReadings, save, clear, format | uninitialised arrays in a pool that is used again, what a restart goes back to | what is reported was taken, numbers are repeated no further than a schedule |
| User button: `user_button` | pressed, changedAt, pending | interrupt handler, task | the handler inside the task | an event per press, of its length |
| LEDs: `leds` | three slots of animations, the time of the last activity | push, cancel, notify, task | slots taken over and copied | the button's animation while the button is held |
| Upload: `transmit_file`, `wifi_transmit_files`, `file_cursors`, `file_copy_operation` | cursors, the open copy, tries | open, copy, answer, retry, save | lost answers, early answers, erased or swapped files with a cursor left | what is below a cursor was received |
| Files and log: `file_system`, `data_logging` | data file, two logs, errors | append, swap, erase, format, open, start | write errors, restarts between two files' changes | metadata first, the log in use has room, no cursor outlives its data |
| App queries: `api_connection`, `app_servicer`, `data_replies`, `download_file_task` | connection, its buffer, the download | read, serve, erase, format, download, close | time outs, replies that are taken in part, resets inside an erasing query | one reply to a query, a download is as long as announced |
| Switches, pools, watchdog: `hardware`, `pool`, `watchdog` | counts, offsets | take, release, allocate, sleep | unbalanced releases, exhaustion | power is on while taken |
| Clock, GPS, cron | the fix, the tasks due | device I/O, cron expressions | when the location, and the number with it, is saved | see state of the core |
| Radio, discovery, encodings, logging | device state | device I/O, formatting | | not modelled, see the end |

The states interact as follows. Start: Booting, FactoryResetCheck, StartSystem, ConfigureDevice,
Initialized, CheckPower, FirmwareHealthCheck, ScanAttachedDevices, WifiStartup, then one of
WifiTryNetwork, WifiCreateAp, CheckAllAttachedFirmware, WifiTransmitFiles, WifiListening or WifiDisable,
and Idle or NoModules. The schedule interrupts Idle, NoModules and WifiListening with
BeginGatherReadings, TakeGpsReading, TakeReadings, which resumes. WifiListening serves an app, whose
queries enter AppServicer, WifiDownloadFile, WifiQueryModule, and live data enters LiveDataReading.
CheckFirmware leads to UpgradeModuleFirmware (a module's image) or FirmwareSelfFlash (the core's).

## Modules and the code

Six specifications (bold) stand on the layers above them in this table, which they extend.

| module | models | state and actions |
|---|---|---|
| `ModuleBoard` | a module's I2C child and the states that serve readings | `incoming`, `outgoing`, `fsm`, `sensors`; interrupt handlers are operators the core's bus steps use (`ReceiveInterrupt`, `ReplyInterrupt`), the main loop is `Notice`, `Decode`, one action per query, `Boot` |
| `ModuleComms` (extends it) | ModuleCommunications, TwoWireTask, ModuleProtocolHandler | `address`, `hasQuery`, `hasReply`, `wire` (where the TwoWireTask is, and whether the board was away when the query came); `Asks` is the poll, which comes when its delay is over and may find the query waiting (`early`); `Prepare`, `Send`, `Receive`, `EndOfStream`, `Poll`, `Missed`, `Timeout`; the handler's `HandlerEnqueues`, `HandlerFinishes` |
| **`GatherReadings`** (extends it) | the clients, the bus owner, the log | one action per branch of `task`, `done`, `error`; `QueryGivesUp` is the ten second break |
| `ReadingSession` | the abstract log: readings open, record each sensor in order at most once, complete or fail | refined by `GatherReadings` (`Session`) |
| **`CoreFsm`** | tinyfsm and every state of the core | `core` holds the three pointers; an action per state, two where a task waits in a loop (`...Turn`, `...Ends`); `Alive` dispatches what `alive()` may |
| `CoreState` | reading number, its save and restart, module list, pool, statuses of readings | `Started`, `Create`, `Save`, `MergeReading`, `ClearReadings`, `LoseState`, operators that the compositions call |
| `AttachedDevices` (extends it) | the scan and its hold on the bus | `ScanBegins`, `ScanHangs`, one action per reply and error |
| `Leds` | the slots of animations | `Push`, `Cancel`, `LedsTask`, `NotifyAlive`, `Disabled` |
| `UserButton` (extends it) | the interrupt handlers and the task, read by read | `HandlerPressed`, `HandlerReleased`, `Hold` (time passes); `ButtonTask`, `ButtonStep`, with `at` the place in the task |
| **`MainServices`** (extends both) | the states that use the modules, what `alive()` runs, app queries that touch the core's state | `Core`, `Fix`, `Press`, `Button`, `Led`, `Watchdog`, `Restart` |
| `DataFiles` | the two logs, the data file, the cursors, start and format | `WriteLog` with the swap, `LogCutShort` for power that fails inside it, `RecordData`, `StartSystem`, `Erase`, `EraseClosed`, `SaveCursor`; `data` has the position of the data file's handle apart from its size |
| `TransmitFile` (extends it) | WifiTransmitFiles, TransmitFileTask, FileCopyOperation, the server | `OpenFile`, `UploadRecord`, `Conclude`, `GiveUp`; `ServerAccepts`, `ServerAnswers`, `LinkDrops` |
| `AppServicer` (extends it) | the connection, AppServicer, the erasing queries step by step, DownloadFileTask | `Accept`, `EraseFile` then `ResetCursor`, `EraseEverything` then `EraseNext`, `Download` with the header, `WriteMetadata`, `DownloadRecord`, `DownloadEnds`, `DownloadBreaks`, `DownloadDone`, `FlushAndClose` |
| **`WifiServices`** (extends it) | all that uses the files, with resets and log messages between any two steps | `Resets`, `Logging`, `Recording`, `Transmitting`, `Serving` |
| `DataDelivery` | what the upload of one file promises | refined by `WifiServices` for each file (`Delivery(f)`) |
| `FirmwareStorage` | files, banks and super block of one processor | `Update`, `UpdateSaves`, `UpdateErases` are the three steps of `update`; `StartStorage` is initialize and reclaim |
| `FirmwareBank` | what a processor's flash promises its bootloader: the bank is replaced in one step by one image | refined by `FirmwareDownload` and `FirmwarePush` (`Bank`, with `InPending`) |
| **`FirmwareDownload`** (extends `FirmwareStorage`) | CheckFirmware and FirmwareSelfFlash on the core | `Receive`, `DownloadEnds`, ..., `PowerFails` |
| **`FirmwarePush`** (extends `FirmwareStorage`) | PrepareTransmissionData on the core against ModuleServicer, ModuleReceiveData and ModuleFirmwareSelfFlash | `Ask`, `Poll`, `SendPiece`, `WriteEnds`; `Deliver` is the interrupt; `Serve...`, `Receive...`, `BackUp`, `SelfFlash` |
| `...Proofs` | the theorems of the module named before `Proofs`; those of `FirmwareStorage` are lemmas for the other two, those of `AppServicer` are about `WifiServices` | |

Abstractions. Messages are records, decodable or "garbled". Clocks are left out: what waits for a delay
is enabled at once, and what needs a clock to run away is a *fault* in the constant `Faults`, so that a
run says which of them it allows. A reading's value is the number of the gather that had it taken. A
data or log file is the number of its records, and what a server has is the set of their numbers, so
that a history variable can say which records of the *present* content were accepted. A firmware file is
a sequence of pieces of an image, and a checksum is the content it was computed over (no collisions). In
`FirmwarePush`, `MainServices` and `AppServicer` a query of a module is one step; `GatherReadings` has the
steps inside. phylum's files appear when formatted, disappear when erased, and its super block is
replaced whole. `MainServices` has no more states of the core than its state needs; `CoreFsm` has them all.

What may go wrong is chosen once for each behaviour where a run covers many faults: `faults`
(`WifiServices`, at most `MaxFaults` of them), `acts` (`MainServices`, one of `Scenarios`) and `events`
(`CoreFsm`, one of `EventSets`) are variables that never change. A property can then say "unless this
fault may happen" of exactly the behaviours that have it, and one run checks the strong form without
it and the weak form with it.

## Runs

| run | configuration | bounds and faults | shows |
|---|---|---|---|
| `exact` | `GatherReadings_exact` | 3 sensors, 2 readings to take, 3 gathers; queries may be garbled. 8,448 states | replies answer their queries; the only orphan is the first sensor's reading, after a poll that came too early; `ReadingSession` is refined in its reliable form, in which a reading that completes lacks no other sensor |
| `faults` | `GatherReadings_faults` | 2 sensors, 1 reading to take, 2 gathers; late service, dead and noisy wires, corruption, stalls, slow readings, resets. 5.22 M states | the assertion of `enqueue`; the link and the bus are free when no client runs; a sensor once per reading; stale values only from gathers that failed |
| `liveness` | `GatherReadings_live` | 1 sensor, 2 readings to take, 2 gathers; dead wires, stalls, endless readings, the give-up. 327,720 states | both clients end; only the owner drives the bus |
| `acquire` | `GatherReadings_acquire` | | violation, see Findings |
| `core_events` | `CoreFsm` | 2 networks, 1 module; all events but live data, or all but a low battery and failing starts. 113,968 states | TakeReadings resumes what the schedule interrupted; no state of the Wifi runs with the radio off; the core returns to a state that hears its schedule |
| `core_null` | `CoreFsm_null` | | violation, see Findings |
| `main_services` | `MainServices` | addresses 7 and 8, 2 sensors, 2 readings to take, reading numbers to 2; five scenarios. 6.7 M states | the scan gives the bus back and leaves nothing half described; reported readings were taken; what a restart repeats; events are earned; the LED follows the button |
| `wifi_services` | `WifiServices` | logs of 2 records and an empty final block, a card with room for 1 data record, 2 tries, downloads of 1 record at 0 and 1; each of eight faults, one kind in a behaviour. 5.66 M states | the upload implements `DataDelivery`; cursors are sound; no cursor outlives the data; metadata first; the log has room; downloads send what they announced, or one of the stated parts of it; one reply |
| `wifi_rests` | `WifiServices_live` | the same files; failing erases and opens, early answers. 2,091,756 states | uploads, downloads and queries come to an end, unless a connected peer takes nothing for ever |
| `firmware_banks` | `FirmwareDownload` | 4 blocks, 2 images, 2 pieces; power and writes fail. 28,548 states under symmetry | saved banks name complete images, no file is in two banks, `FirmwareBank` is refined: the bank goes from one image to the one offered last, in one step |
| `firmware_backup` | `FirmwareDownload_backup` | | violation, see Findings |
| `push` | `FirmwarePush` | 3 blocks, 1 image, 2 pieces, a pipe of 1; noise, lateness, resets, failed writes, errors of the module. 168,784 states | `FirmwareBank` is refined with any image the core may have pushed; `dataCopyStatus` is current; three files' room is enough; the module always comes back to ModuleIdle; once the faults stop, every push flashes the module |

Why the bounds are enough. Two sensors tell "first", "next" and "last" apart in every loop over sensors,
and three show in `exact` that it is only the first that an early poll may lose;
two gathers are an abandoned one and its successor, three an undisturbed one around it. One module is
enough for the link, because every query goes to one address and the handler is drained between modules.
Two addresses give the scan a first and a last, with nothing, a sensor module or a communications module
at either. A reading number of 2 makes a restart repeat one and not another. Two networks make the index
of WifiTryNetwork wrap. A log of two records swaps at the third and has a partial upload; both logs can be
full at once when a swap fails or power fails ahead of two swaps; an empty final block (`FinalBlock = 0`)
is entered by the record that fills the log. Two tries are a retry and a last one. A file of two pieces can be empty,
partial, complete, and too long; three blocks are the two banks a module uses and one new file, four leave
the core room to leak one. What larger values would add is covered by the proofs, which have no bounds.

Blocks and images are interchangeable, so `firmware_banks` uses symmetry; no liveness run does.

Fairness. The super-loops run for ever and nothing preempts them but short interrupt handlers, so each
loop's progress is weakly fair: `ClientStep`, the link's progress and the board's loop in
`GatherReadings`; the end of every task in `CoreFsm` (that the waiting tasks end is what the other
liveness properties show); `Tasks` in `WifiServices`, what the core does by itself in the states it is
to leave; each processor's loop in `FirmwarePush`. Timeouts are fair because the clock advances. No fault,
event, query, log message, answer of a server or user action is fair, except that a hand lets go of the
button. `Rests` therefore holds against a server that never answers and an app that stays silent. The step that
sends a record (`UploadRecord`, `DownloadRecord`) is not fair either: a socket may stay connected and take
nothing, `copy()` then leaves its loop with `busy_` set, and no limit runs. `Rests` says that this
(`KeptByPeer`) is the only way to keep the core.
`KeepsReturning` speaks of behaviours without `"low"`, since the scan may then wait for modules that have
no power (Known limits), and without `"hardware"`, a start that may fail each time, and counts as a return
the states that serve an app, are off or are replaced. `liveness` leaves out `"lag"` and `"noise"`, since a
RETRY can loop for ever.

The variable `quiet` of `FirmwarePush` is the environment's: after `Quiets` no fault happens. The faults may
stop only while the module is idle with an empty `outgoing_`, because a reply that a failed push left there
is taken for the reply to the next preparation, which then fails; what they left in banks and files stays.

Regimes. `ReplyAnswersQuery` and `OnlyEarlyOrphans` need that no transaction is
abandoned: each of late service, a failed transfer, a stall, an unreadable reply and slow readings breaks
them, because nothing in a reply says which query it is of. Late service (`"lag"`) is a main loop that
needs more than reply_delay (100 ms, against a loop of 10 ms) for a query that it was not away from. A query
that came while it was away in its readings state is asked for by the core's clock, before or after the main
loop has looked at it, in every run. What holds under every such fault is in `faults`.
Values that a reset board finds on its stack are `0` in the log, and `RecordedOnce` does not speak of them.
`ResumesWhereScheduled` needs that no app polls live data (`core_null`). `LastSaveCovers` needs a save
before the readings: no disabled GPS, no failing flash write, no live data, which saves nothing, and no
factory reset that leaves the data file. `PendingIsEarned` holds in every state with the button held, and
after a release only if the handler did not run inside the task (`raced`): what it says fails there. So does
`LedFollowsButton`, and after the cancel of another animation that copied the button's (`copied`).
`MetadataFirst` excepts a failing append, after which the record follows without metadata; `LogHasRoom` a
failing erase or open, and power that fails ahead of the swap when both logs are in their final block.

## Findings

- `AcquireAssertHolds` (`acquire`): WifiQueryModule leaves its loop after ten seconds without releasing
  `twoWire1` (`wifi_query_module.cpp:28`); the next app query fails the assertion at
  `app_module_query_task.cpp:10` and until a restart no readings are taken. A module that keeps
  answering RETRY makes a transaction last that long.
- `CurrentNotNull` (`core_null`): schedule and live data due in one `serve()` (`wifi_states.cpp:26`) leave
  a resume pointer that is consumed twice; the state machine ends at null against the assertion of
  `tinyfsm.hpp:73`.
- `BackupIsProgram` (`firmware_backup`): `firmware_storage.cpp:73` never advances the pointer, so the
  "Backup of the original firmware." (`module_info.h:56`) is its first kilobyte, repeated.

## Proofs

Each theorem holds for every value of the constants that satisfies the named assumptions. In each module
an inductive invariant strengthens the property by what the code relies on; one lemma per layer or action
says what a step keeps of it.

`GatherReadingsProofs`, for every number of sensors, readings, gathers and log entries and every
set of faults, from `BoardAssumption` and `GatherAssumption`:

- `TypeCorrect`: `[]TypeOK`. `TypeOK` is not inductive: which query is in flight depends on the client.
  `TypeInv` adds `ClientsOK`, that the handler's queries belong to the client that runs. One lemma per
  layer (board, link, handler, clients), each stating what a step of the layer keeps.
- `EnqueueAssertSafe`: `[]EnqueueAssertHolds`, the assertion of `enqueue`. Inductive by itself, because
  `CommTask` sets `hasQuery` only while `address` is not 0 and `enqueue` sets both.
- `OwnerDrivesSafe`: `[]OwnerDrives`, strengthened by `DriverInv`: a gather and a query task are never both
  at work, and a busy link has a client.
- `IdleLinkSafe`: `[]IdleLink` if `"giveup"` is not among the faults, by `LinkInv`: an open transaction or
  a reply has an active query in the handler, and a client that ended has none, or is a query task that
  WifiQueryModule abandoned.
- `OnlyGiveUpLeaks`: `[](IdleLink \/ Abandoned)` with any faults: the give-up is the only way to leave the link
  or the bus held, and it is the query task that holds it then.
- `RecordedOnceSafe`, `NeverTakenFromCompleteSafe`, `CompleteIsFinal`: what the log holds, under any
  faults. No action of the model is about readings alone, so the proof first sorts the steps by what they
  do to a reading (`StepKinds`: a query is sent, a reply fetched, the board moves, a gather begins, goes on,
  records, completes, ...), with `Held`, the reply the core has but has not looked at, and `Asking`, that
  the gather waits for readings. `NumberInv` bounds every gather number on the way by `number`; `BeginInv`
  says what a begin that is still on its way implies. `OrderInv` is why no sensor is recorded twice: a
  reading that is filed, or held, is of a lower index than all that are still to come, unless the board
  has lost its numbers (`Counts`). `CompleteInv` is why a complete gather is over: `NothingLeft`, once the
  core holds an IDLE or error, no reading of the gather is on the board; `CompleteIsOver`, no number of a
  complete gather is left anywhere on the way. `CompleteIsFinal` is an action property: the log only grows,
  and not by a complete reading's number.
- `ReplyAnswersQuerySafe`, `OnlyEarlyOrphansSafe`, if the faults are `"noise"` at most (any other breaks them,
  see Regimes). `ExchangeInv`: the board is quiet unless the handler has a query, and what it or the core
  holds then answers that query. Only one query can be asked for too early, the first status after a begin,
  which finds the board away; so what is served twice is that, and what is dropped the first reading.
- `SessionImplemented`: every step is one of `ReadingSession` or a stutter, in its reliable form without
  faults but noise, in the other with all faults but `"reset"`. It needs `AccountInv` besides: once the
  begin was handled, each sensor's reading is still to be taken, on the board, on its way or filed, or is
  the first and was dropped after an early poll; so an IDLE after which nothing is left (`NothingLeft`)
  finds every other sensor filed.

`CoreFsmProofs`, for every number of networks and modules and any sets of events, from `CoreAssumption`:
`TypeCorrect`, `RadioOnWhenUsedSafe`, `ResumesWhereScheduledSafe`. The properties speak of the state that
runs, but where it goes next is in the other two pointers, which every event overwrites. `IInv` says of
each pointer what must hold if it is still going to be followed: `RadioOK`, that the radio is off only
where no pointer leads to a state that uses it; `ResumeOK`, where each state that goes back or resumes may
end; `OwnOK`, that only the tasks with loops of their own run on after an event has changed the state.
`Follows` and `Ends` say the same of the pointers a task leaves, so that `ReturnOK` finishes every task.

`MainServicesProofs`, for any scenarios, sensors and readings, from `CoreStateAssumption` and
`MainAssumption`, all six properties of `main_services`. Two invariants that share nothing:

- `ButtonInv`: `PressOK`, a press that goes on is as old as `changedAt_` says and no event is pending for a
  longer one, wherever the handler falls; `FollowOK`, what the LED shows
  of the button at each place of the task. The slots are reasoned about through `AvailableGivesWay`: an
  animation takes only its own slot, a free one, or one of lower priority, and none is above the button's.
  `PendingIsEarnedSafe`, `LedFollowsButtonSafe`.
- `CoreSafe`: `ScanOK`, the bus is the scan's exactly while it has a query; `ListOK`, what the list
  lacks the scan is asking for; `NumbersOK`, the number in flash is within one schedule of the one in use.
  `ScanConcludesSafe`, `ReportedWereTakenSafe`, `LastSaveCoversSafe`, and with both `TypeCorrect`.

`WifiServicesProofs`, for every capacity, number of tries, download and combination of faults, from
`FilesAssumption`, `TriesAssumption` and `DownloadAssumption`: `TypeCorrect`, `CursorsSound`,
`MetadataIsFirst`, `Delivered`. `UploadOK` says what a connected upload knows of its file: while the file
still has the content that was opened, all before the copy began had been accepted, and after the server
has accepted the request, all up to where the copy stands. `DoubtOK`: a cursor in doubt is not 0. `HandleOK`:
an open handle of the data file stands where the file ends, and through a closed one nothing is written; so `appendMetadataIfNecessary`, which asks the handle, is told the truth about the file. Every
action does one of four things to the card (`CardStep`: contents change, a cursor is saved, a server accepts,
nothing), and each is a step of `DataDelivery` of every file; so `Delivered` is the refinement, from
`Init` to `Init` and step by step, with restarts, failing cards, swaps and erasing queries.

`AppServicerProofs`, on top of that invariant, one more for each theorem:

- `OneReplySafe` by `RepliesOK`: the buffer holds a reply only while it is flushed, and only a download
  has replied before it ends.
- `LogHasRoomSafe` by `RoomOK`: one of the two logs always has room, and the one in use does; with power
  failing inside the write of a log message, if the one in use has none, neither has the other.
- `AnnouncedIsSentSafe` by `AnnounceOK`: what a download owes is the metadata that is due or was cut and what
  the copy has yet to read; a copy that did not begin reads nothing.
- `DataInDoubtSafe` by `DoubtInv`: an erasing query clears the cursors before it erases, and an upload
  of the data file believes only a server that has the request.

The firmware is proved for every number of blocks, images and pieces, from `StorageAssumption` and
`PushAssumption`, under the condition that `"save"` is not among the faults: with it the properties are
false (Known limits); `AlwaysRoomSafe` does without. What the storage keeps is `StorageOK` of
`FirmwareStorageProofs`, with one lemma for each of its operations:

- `Kept(table, files)`, of `banks` and of `saved`: a bank that is not empty names a file, Pending and
  Incoming a complete image, and no two banks one file.
- `CommitOK`, which makes it inductive: between the steps of `update` the two tables may differ, but only
  while it has yet to save, and what it will erase is in no bank of the new one. So the old file goes when
  neither table names it.

`FirmwareDownloadProofs` adds that the file that is being written is in no bank, and what came of it so far
when the task decides to commit. `FirmwarePushProofs` has to show that a comparison of two checksums is
enough: `ModuleOK` says whose the block in `dataCopyStatus` is in every state of the module, and that it is
empty while a transfer writes; `SentOK` that a checksum on its way is of the beginning of an image, which
the size makes the whole. From these invariants:

- both: `TypeCorrect`; `RunsAnImageSafe`, the program is always one image; `BankImplemented`; `SavedFilesStay`;
- `BanksHoldImagesSafe`, `BanksApartSafe` of the core; `PendingIsPushedSafe`, `StatusCurrentSafe` of a module.

`SavedFilesStay` is the action property behind crash safety: no step touches a file that the super block
on flash names (`SavedStays`). With it only the save of the super block can change what the bootloader
finds (`PendingStays`). `BankImplemented` is the refinement of `FirmwareBank`: the save is its `Install`, for
which `CommitsOne` says in which bank the two tables differ and, for the core, that this file is of the
image the server sends. `SelfFlash` is its `Flash`, a format its `Clear`, a new download an `Offer`, everything
else a stutter.

`AlwaysRoomSafe` assumes that there are three blocks where a file may begin. `RoomInv` says which files
there may be besides the backup and the pending one in each state of the module: the transfer while it is
received and remembered, the old file until update() erases it, and none in the two states that need
room. Without the reclaim of a preparation, or the erasure in `update`, it is false.

Each strengthening was checked as an invariant by TLC, on the bounds of the runs above, before it was proved.

Only model-checked: the liveness properties (`TakeReadingsEnds`, `QueryModuleEnds`, `Rests`,
`KeepsReturning`, `PushTakes`, `ModuleReturns`), which like everything with fairness or ENABLED are beyond
the prover, and the three properties of the Findings, which are violated. Every safety property that a
passing run checks is a theorem.

## Known limits of the code that no document speaks of

- A RETRY reply starts `transaction_timeout` (`two_wire_task.h:51`) anew with the resend, so that a module
  that never gets to serve a query keeps the transaction, and the task that waits for it, for ever.
- A reply that nobody fetched answers the next query; the push does not drain it before it prepares.
- With a super block that is not saved (`"save"`), update() erases the file the saved bank names; the
  backup may take its block and the bootloader flashes that. `BanksHoldImages` and `Installs` are
  checked without it.
- LowPowerSleep disables the modules and ScanAttachedDevices waits for them with no end.
- A scan that does not get the bus has no query and never ends (`ScanHangs`); no one checks in with the
  watchdog meanwhile, which resets the core (`WatchdogBites`).
- After QUERY_FORMAT the module list is empty until the next scan, and gathers take nothing.
- A restart goes back to the reading number in flash: the numbers since are used again (`LastSaveCovers`
  bounds how many). getOrCreateModule leaves an entry's arrays sized for the sensors it first had, and
  uninitialised: a pool that was cleared and used again shows old statuses (`dirty`). A rescan copies the
  names into the pool once more.
- QUERY_FORMAT and QUERY_RESET reply with success whether or not the files were erased.
- The swap of the logs erases a log and leaves its upload cursor; a server that answers 200 before it has
  the request moves a cursor past what it has. Both leave the cursor in doubt (`doubtful`) until it is
  next 0. `DataInDoubt` shows the data file's does not get there without a fault.
- A gather may lose the reading of the first sensor without any fault: the core polls a module that was away
  in its readings state by its own clock; if it has just come back, the poll finds the query unserved and is
  answered RETRY, the query is sent again, and of the two replies the first, with the reading, is dropped
  ("Orphaned reply!", `module_servicer.cpp:28`). The gather completes (`OnlyEarlyOrphans`, `ReadingSession`).
- A download whose copy does not begin goes on: from a position beyond the end of its file it announces a
  length and sends nothing; if the file does not open it announces what the reader of the copy before still
  says (`NotBegun`). Metadata that the socket did not take is announced and lost (`WriteMetadata`).
- When power fails inside two writes of the log, each ahead of its swap, both logs are in their final block
  and the start takes LogsB, which has no room (`LogHasRoom`).
- A peer that stays connected and takes nothing keeps the core in WifiTransmitFile or WifiDownloadFile
  ("TODO: Maximum time in this state?", `transmit_files.cpp:33`): no limit runs while a copy is not finished.
- Cancelling an animation copies the last slot over it and leaves the last as it is, so that an animation
  may be there twice and outlive one cancel (`copied`).
- A handler that clears `changedAt_` between two reads of the button's task makes a tap a long press
  (`raced`).
- A write of more than five seconds is cut off by the default `transaction_timeout` (`transmissions.h:62`):
  the push fails, safely (`push`), each time.
- A download that breaks off leaks its file until the next start.

The four hazards in PROJECT.json that no property covers carry the reason in their notes.

## Not modelled

The library phylum, the WiFi101 and lwcron libraries and the bootloader are external: they are not in the
repository, and the models use of them what the code relies on. Radio, discovery, status and GPS are device
I/O without a protocol of their own; the encodings are sequential, and a message is a record in the models;
logging matters only for the files it fills. PowerSwitch, Pool and the watchdog's sleep keep counts that one
thread uses; of them only the module pool is modelled. Of the app's connections there is one at a time, and
the captive portal and ConfigureDevice over serial are left out; the contents of records, and a format of
the card that fails after it changed the card, are as well. So is a download of a file that does not open
before any other was copied since the start: the reader has no file then, and what `FileReader::tell` does
is undefined.

## Plan

1. Link and readings, core state machine, firmware storage, download and push: done, with proofs.
2. Files, upload and the app's queries with their composition: done, with proofs and the refinement of
   `DataDelivery`.
3. State of the core, scan, button and LEDs with their composition: done, with proofs.
4. Proofs of what the log holds, of the exact link, of `ReadingSession`, of the room on a module's flash and of
   `FirmwareBank`: done. Every safety property of a passing run is proved.
5. Then, small modules: PowerSwitch, socket buffers, the HTTP parser and FileReader's arithmetic against
   reference definitions, and more than one connection at a time.

# AstroTracker: a TLA+ verification project

AstroTracker is the firmware of an asset tracker: a GNSS receiver, an Astronode S
satellite modem, a screen and a BLE interface around one microcontroller (NRF52 or
SAMD21). It logs GNSS samples and user messages in RAM, brings them to the modem,
which sends them when a satellite passes, and sleeps in between. All paths below are
under `src/firmware/AstroTracker/src/`.

## 1. Inventory

| component | state it keeps | operations | interacts with |
|---|---|---|---|
| Data logger (`core/logger`) | `logger_struct`: a table of 100 slots (id, tag, two dates, status, buffer), in RAM | insert, clear (one, by tag, all), set status, set acknowledged date, lookups by id and by date | called from every callback of the main state machine |
| Main states (`core/sm/sm_main.cpp`) and engine (`core/sm/sm.cpp`) | current/next state, `new_config_available`, `logger_new_data_available`, `request_sat_status_update`, `gps_start_time`, finish times of LED and screen | boot, provisioning, operational, battery low, log full, deactivate, error; callbacks of all drivers | owns the main loop; calls every driver's tick, is called back by them |
| Satellite driver (`syshal/sat/syshal_sat.cpp`) | `state`, `new_event_pending` (set by an interrupt) | init, configure, wake up, shut down, send message, tick (read events, acknowledgements, commands) | modem over UART, EVT pin interrupt, `syshal_sat_callback` |
| Astronode S protocol (`syshal/sat/astronode.cpp`) | request and answer buffers, last error code | one request and one answer per operation, with time limits and a checksum | the modem |
| Modem and satellites (external) | payload queue by id, acknowledgements, command, reset event, EVT pin | accept a payload or refuse it, deliver, acknowledge | the satellite driver |
| Scheduler (`core/scheduler`) | a table of six cron alarms, two alarm ids, two expressions | start/stop/update of the GNSS and the satellite-pass alarm, tick | RTC, GNSS wake-up, push flag |
| RTC, watchdogs, sleep (`syshal/rtc`, `syshal/pmu`) | uptime counter, `timestamp_offset`, compare register, watchdog | set time, set alarm, kick, sleep | every part that reads the time |
| GNSS driver (`syshal/gps`) | `state`, configuration | wake up, shut down, tick (raw sample, fix) | receiver over I2C, `syshal_gps_callback` |
| Command packets (`core/command`, `core/loopbackstream`) | two byte streams, a receive buffer that is never emptied | decode a packet, acknowledge, answer a request, each through the stream it came by | BLE and satellite callbacks |
| BLE (`syshal/ble`) | connection, the bytes received | drains what has come into `syshal_ble_callback`, on NRF52 in a task of its own; sends the stream | the same callback logs, clears and lists messages, changes the configuration, wakes the GNSS receiver and resumes the main loop |
| Screen (`syshal/screen`), LED (`syshal/led`) | menu page, colours and blink times | tick, wake up, shut down | preset messages and "clear all messages" reach the logger |
| Configuration (`core/config`) | one record per tag with a `set` flag | get, set, iterate, required tags | written by BLE and satellite commands, read by the states |
| Battery, temperature, GPIO, flash, debug | none that matters here | reads and writes | |
| Vendored code | | SparkFun GNSS library, Adafruit NeoPixel, TemperatureZero, ccronexpr, Time, CException | not modelled |

### What is hard here

* The main loop is one thread, but the modem's EVT pin interrupt and, on NRF52, the
  BLE task act between any two of its instructions, on flags and a table without locks.
* A message changes hands by slot id only: logger, modem and acknowledgement have to
  agree on what an id means while slots are freed and reused.
* Exchanges with the modem fail or time out half way; most results are ignored.
* The logger is RAM: a watchdog reset empties it, and resets the modem.
* Time jumps (from a default date to GNSS time) under alarms computed from it, and
  wraps; sleep ends only if the compare register was set before its moment passed.
* Capacities: 100 slots, the modem's queue, six alarms, 64-byte packets.

### What makes each component correct

* Logger: lookups return what their callers rely on; no call lands on the payload of
  another message; the walk by date visits what there is and ends.
* Uplink: an accepted message stays pending until a satellite has it (or the user or
  a reset gave it up); it is not sent twice; no message is left waiting for nothing;
  every acknowledgement reaches its slot.
* Scheduler: each id names its own alarm; an alarm due fires once; a jump of the
  clock does not lose the alarm.
* Main states: what runs is the last configuration; the GNSS receiver is not left
  powered; every sleep has a wake-up in time.
* Protocol: unless one was late, an answer is paired with its request, and what is
  confirmed or cleared was taken or read; a few failed exchanges do not keep a tick from
  ending.
* Commands: a packet is acted on whole or not at all.

## 2. Plan

1. `LoggerTable`, `Logger`: the slot table, as operators and as a state machine. **done**
2. `Delivery` (abstract) and `Uplink` (detailed, refines it). **done**
3. Proofs: type correctness, no overwriting, no duplicate, no silent loss, the
   agreement of ids, the refinement. **done**
4. `Scheduler`: cron table, alarm ids, clock jumps, the sleep between alarms, the
   configuration in force; and its proofs. **done**
5. `MainSM`: engine, boot, provisioning, operational, battery-low and error states, power
   and session times of the GNSS receiver, the BLE task beside the loop, both
   watchdogs; and its proofs. **done**
6. `Rtc` and `Acquisition`: the uptime counter, its width and its wrap, under the loop
   that takes positions. **done**
7. `AstronodeLink`: request and answer with time limits, late answers and disturbed
   frames, lost and refused requests; `Exchange`, which it implements; and its proofs. It
   justifies the hazards `link_fault`, `ack_read_fault` and `late_answer` of `Uplink`. **done**
8. `Command`: the stream, the receive buffer and the packets of the app; and its
   proofs. **done**
9. The walk of the push: `PushOffersAll` and `NoStranded`, with their proofs. **done**
10. `LoggerTasks`: the calls of the logger cut where the BLE task can come in. **done**

How they compose: `Logger`, `Uplink` and `LoggerTasks` use the operators of `LoggerTable`,
`Uplink` implements `Delivery`, `AstronodeLink` implements `Exchange`, and `Acquisition`
extends `Rtc`. `Uplink`, `Scheduler`, `MainSM` and
`Command` each follow the same loop and callbacks for a different part of their state:
messages, alarms and sleep, power, packets. What one leaves out is free choice
in it (`MainSM` lets the GNSS alarm be due at any turn), with one exception, which is stated
with every result it touches: `Uplink` is the main loop alone. On the SAMD21, which has no BLE, that is all
there is; on the NRF52 the BLE task logs into the same table without a lock, and what
`Uplink` promises then fails, as `LoggerTasks` shows.

`Exchange` is the seam between the link and `Uplink`. Its steps are those that `Uplink`
takes with payloads and acknowledgements: `Enqueue` (or `NoEffect`) is `SendMessage`,
`Acknowledge` is `ReadAck` with or without a clear that works (`link_fault`), `Misread` is
`MisreadAck` (`ack_read_fault`), and `Confuse`, which needs a late answer, is `MisreadAck`
or `ClearUnreadAck` (`late_answer`). For commands and the reset event `Uplink`'s hazards are read off the
code directly; `Exchange` does not speak of them, nor of which answer the push loop saw.

## 3. Modules and code

| module | models | notes |
|---|---|---|
| `LoggerTable` | `logger.cpp` as operators from a table to a table | `Finds` is the lookup loop "first slot with this id" (0 finds the first empty slot); `IsYoungestOlderThan` what the lookup by date promises |
| `Logger` | the same functions as actions, any order | the `Scan...`, `Loop...` and `Walk` functions run the loops index by index |
| `Uplink` | `logger_push_slots_to_sat`, `syshal_sat_tick`, `syshal_sat_send_message`, `syshal_sat_callback`, the handlers that log or clear, the EVT interrupt, a watchdog reset; modem and satellite | `pc` names the stage of one turn of `sm_main_operational`; `push`/`pushed` and `event`/`drained` are inside the two functions |
| `LoggerTasks` | `logger_insert_data` and `logger_clear_slot` of the main loop, cut where the BLE task can interrupt them | for the one question whether the table survives two tasks |
| `Delivery` | the promise: accepted, then received or given up on purpose | refined by `Uplink`: `pending` is the payloads of the waiting slots that no satellite has received |
| `Scheduler` | `scheduler.cpp`, `CronAlarms.cpp`, the RTC's time and alarm, `syshal_pmu_sleep`, and `sm_main_provisioning` and `sm_main_operational` as far as alarms, sleep and configuration go | `pc` names the stage of the state machine and of its loop |
| `AstronodeLink` | `astronode.cpp` and `syshal_sat.cpp`, one step per request; the modem's side of the line | `request` names the request in progress; what it leads to is the function that sent it |
| `Exchange` | what the link comes to: payloads enqueued, taken, acknowledged, the id the tracker is told for each acknowledgement, cleared or not | refined by `AstronodeLink`: `told` is `msg_id`, `late` whether an answer was late |
| `MainSM` | `sm.cpp` and the states of `sm_main.cpp`, `syshal_gps.cpp` up to the messages to the receiver, what the states use of LED and screen, both watchdogs, the BLE task's requests that wake the receiver or bring a configuration | `pc` names the point of a turn; every call of `syshal_gps_wake_up` and `syshal_gps_shutdown` is two steps |
| `Rtc` | `syshal_rtc.cpp`: counter, overflow, offset, compare register | operators and the clock's variables |
| `Acquisition` | `Rtc` under the main loop with its one GNSS alarm | for the life of the clock, not for its interleavings |
| `Command` | `an_command.cpp`, `LoopbackStream.cpp`, `syshal_ble_callback` as far as packets go, `ble_write_req` | `pc` names the point of the callback |
| `MCLogger`, `MCUplink`, `MCScheduler`, `MCAstronodeLink`, `MCMainSM`, `MCCommand` | instances for TLC | `Acquisition` and `LoggerTasks` need none |
| `LoggerTableProofs`, `LoggerProofs`, `UplinkProofs`, `SchedulerProofs`, `MainSMProofs`, `CommandProofs`, `AstronodeLinkProofs`, `AcquisitionProofs` | theorems and proofs | |

Definitions introduced by a comment "Variant" are faulty forms of the definition that
follows them. No action uses them; they show that the properties notice such a fault.

### Reading `Uplink`

`GpsDone`, `SatTickIdle`, ..., `PushEnd` are the straight line of the main loop;
`GpsMessage` acts in stage `gps` (the callbacks of `syshal_gps_tick`), `UserMessage`
and `UserClear` in stage `screen`. `ReadAck`, `MisreadAck`, `ClearUnreadAck`, `ReadReset`,
`ReadCommand` and `EventsDone` are the turns of the `while` in `syshal_sat_tick`. `PushSlot` is one turn of the push loop: lookup,
status test, and `SendMessage`, whose disjuncts are the answers of the modem:
full queue (the only one that ends the loop), duplicate id, accepted, or the late answer
to another payload. `link_fault` lets an exchange have no effect, or its answer be lost;
`ack_read_fault` hands the callback an id nobody has set (`MisreadAck`); `late_answer` lets
the driver see events and answers that are not the modem's (`StaleEvent`) and clear an
acknowledgement that nobody read (`ClearUnreadAck`).

What the environment may do beyond the regular case is the constant `Hazards`, so
each run says under which conditions its properties hold.

The modem is modelled from how the code uses it: acknowledgements are read in the order
satellites gave them; `with_msg_ack_pin_en` and `with_cmd_event_pin_en` are set, so
EVT is high while one of the two is waiting (`Pin`); an id is in use while its payload
is queued. `AckHoldsId` says that it stays in use until the acknowledgement is
cleared. It is an assumption on the modem that this repository does not settle; every
result but those that do not name ids needs it.

Abstractions: a payload is a model value, its bytes are not followed; a date is a
natural number in order; one exchange with the modem is one step; a command of the
satellite is a message for the user or anything else (a configuration, which touches
no slot); a message whose buffer could not be allocated is logged with `NoData`, and is not
counted as accepted. The satellite-pass alarm (`SatpassStart`) is included although
the predictor that sets it is off in the shipped configuration: it only raises a flag.
A handler is one step, as nothing but the main loop touches the table here.

### Reading `LoggerTasks`

The BLE task is of a higher priority than the loop and runs a call of its own to the end,
so `BleInsert` is one step and the calls of the loop are cut where the table is half changed:
between the search for a free slot and its use (`InsertFinds`, `InsertTakes`, `InsertFills`;
`logger.cpp:77-92`), and between `id = 0` and the rest of a clear (`ClearFrees`,
`ClearEmpties`; `logger.cpp:130-135`). Each of the two gaps loses a message
the logger has accepted; the run shows the first it meets.

### Reading `Scheduler`

Time is `now`, in seconds of the RTC. It passes while an iteration of the loop is
busy (`Takes`), second by second while the tracker sleeps (`SleepOn`), and jumps when a
fix sets the clock (`Fix`): far forward the first time, back by a small drift later.

`Provision` and `LeaveProvisioning` are the first and the last entry of provisioning,
`Enter` and `Leave` those of the operational state. In between the loop runs through
`gps` (`Fix`, `NoFix`), `service` (one turn of `serviceAlarms` per step: `SkipAlarm`,
`ServiceGps`, `ServiceSatpass`; `ServiceDone` ends one call or starts another, as
`Cron.delay` does within its millisecond), `reap` (the end of `scheduler_tick`),
`busy`, `rest` (`Rest` sets the compare register to `WakeTime`; `StayAwake` while
the LED blinks), `suspend` and `asleep`. `screen` says whether the display is on when `Rest`
chooses: then, as when the receiver is on, the sleep has a fixed length (`Active`) and no
alarm is looked at. `SleepIsSafe` claims no more of such a sleep than that length, so an alarm may come due in it.

The cron expressions are followed as far as the two that exist: `EveryNext(h, t)` is
the next start of an hour that is a multiple of `h`, `DateNext(d, t)` the next time
the date `d`, which has no year, comes round. Both are constants, for which the
proofs assume only that they return a later time within the range of time and,
for `EveryNext`, that a later start has no earlier result. An expression is named
by its hour or its date, and 0 is the empty one.

`ReceiveConfig` is a configuration packet in the BLE task or in the modem's tick; it
may come at any stage. `LateConfig` says whether one may also come between the two
entries of provisioning, where the code loses it (see the finding). `Builds` is the
set of values `sm_main_boot` may be compiled with; the shipped ones are
`gps_log` TRUE, `predictor` FALSE and no pass time, the others exercise the satellite
pass alarm, whose ids may go stale.

`armed` says that the RTC will still match the register: it signals the moment its
counter reaches it, so a register set to the present second, or passed between the
setting and the suspension, never matches. An interrupt that comes before the
suspension resumes a loop that is not suspended, which does nothing. The hardware
watchdog (external) resets the tracker when it was not kicked for `HwTimeout` seconds.
`last_gps` and `peak` are histories: no action reads them.

### Reading `AstronodeLink`

`Uplink` takes an exchange with the modem as one step that works, fails, or works
unseen. `AstronodeLink` is what is below: `Ask` sends a request (`encode_send_request`),
which the modem handles at once (`Handles`) and answers (`Answers`, `Answered`) at the end of
`line`, or which has no effect (`Refused`): it is lost, or the modem reports an error,
because it arrived damaged or the modem is busy or could not write its flash. A clear can fail like any request, and the
acknowledgement or event is then read again.
`Reads` is `receive_decode_answer`, which takes one frame from the front of `line`, or
none when the time limit ends first, and then consumes what has come in. How much that
is depends on the moment, so `Dropped` leaves any end of the line. The steps of the driver
follow `request`: `NextIgnored` and `Saved` for `syshal_sat_init`, status and shutdown,
`NextConfigured` for provisioning, `EventRead`, `AckRead`, `CommandRead` and `ClearDone`
for the tick, `PayloadSent` for a push. `msg_id` is the local of `syshal_sat_tick` the
callback gets: `AckRead` sets it to what was read, or leaves it `Unset` when the read
failed, which the code uses all the same (`syshal_sat.cpp:485-493`).

A frame is a register, a length, a value and whether it is undisturbed. A frame read
with another length than its own is taken to fail its 16-bit checksum. The UART's own
buffer does not overflow. An id is in use until its acknowledgement is cleared, as with
`AckHoldsId` of `Uplink`. A reset by the
watchdog other than through the error state is left to `Uplink`. Which payload a push
sends next is any id. The modem answers a full queue or an id in use with one of the
two errors when both apply.

### Reading `MainSM`

The main task and the BLE task take turns at the points where the other can come in: a
step is a stretch of code between two of them. `syshal_gps_wake_up` sets the power pin,
waits, and only then changes its state (`MainWakes`, `WakeDone`; `BleWakes`, `BleStarts`,
`BleResumes`), `syshal_gps_shutdown` takes the power and then changes it
(`MainShutsDown`, `ShutdownDone`). `AfterWake` and `AfterOff` name the points inside
these calls and where the turn goes on. `BleStarts` is not enabled while the main
task is inside `syshal_gps_shutdown`: the delay of the wake-up is far longer than the
two instructions there.

`Boot`, `Provision` .. `LeaveProvisioning`, `BeginTurn` .. `Left`, `BatteryTurn` and
`ErrorTurn` are the states' functions in their order; `EndTurn` is `sm_tick`, `Throw` an
exception, which skips the rest of the turn. `Rest` chooses the sleep: until an
alarm, at most `Hard`; or a time in the past, which only the hardware watchdog ends;
or `Active` when the receiver or the display is on. `Resumed` is the resumption of the loop,
which does nothing when it comes before the suspension.

Time is what code compares: `since` is the uptime minus `gps_start_time`, `led_left`
what is missing to `led_finish_time`, `unkicked` the seconds since the soft watchdog
was kicked, `slept` and `wake_by` those of a sleep. `Wrap` is the return of the uptime counter
to 0 under a session, after which the unsigned difference is huge. It is the SAMD21's; on the
NRF52 a counter that overflows is a turn that hangs (below). `Faults` says whether devices may
fail (`driver`) and turns may hang (`hang`). `fault` is a history, and `config` says whether
the configuration is still the default.

`TickMax`, the longest a turn may take, is the soft watchdog's time limit: a turn that
takes longer is reset. The receiver's `UNINIT` and the screen's `UNINIT` are the
states before boot and of a build without a screen.

Three things the code does are in the model as they are and limit what is claimed. The
battery level reads 0 and the last reading starts at 0, so the low battery state is
only entered from provisioning, in a build whose boot configuration has the limit set
(`battery_low`; the shipped one has not, and no packet sets it). In that state nothing looks at the receiver, and one the BLE task wakes
stays on until the hardware watchdog resets the tracker; `SessionBound` excludes it. And a
build with `gps_log` FALSE, which skips the checks at `sm_main.cpp:1126`, leaves on a
receiver that a user woke; such a build is not in `Builds`.

### Reading `Rtc` and `Acquisition`

`counter` has the range the board gives it: 24 bits at 8 Hz on the NRF52 (`W` of 2^21 seconds,
24.3 days), 32 bits at 32 Hz on the SAMD21 (2^27 seconds, 4.25 years). On the NRF52 a read that finds the
overflow event adds `NRF_RTC_OVERFLOW_SEC`, one second short, and clears the event;
the next read gives the bare counter. But `syshal_rtc_init` also enables the
interrupt of the overflow, and `RTC2_IRQHandler` clears the event of the compare register only:
the handler is entered again at once and no task runs any more (`Stuck`) until the watchdog
resets the tracker (`WatchdogReset`). `Timestamp` and `LaterTimestamp` are a first and a second read in
one stretch. `AlarmIn` is the arithmetic of `syshal_rtc_set_alarm`, modulo the word and the counter.

`Acquisition` gives the loop the kindest conditions: every session finds a fix, no
alarm is missed, no stage takes more than `TurnMax`, and a tracker that hangs has been reset
within `HwTimeout` seconds. What is left is the clock.

### Reading `Command`

A packet is a header cell, whose checksum covers all, and its body in cells. The app
sends it cell by cell (`Send`, `Notify`), a lost connection cuts it (`Disconnect`). `Receive`
drains what has come into the stream, where what exceeds it is lost, and reads the stream
back into `rx_buffer`, behind which the bytes of earlier packets remain. `Decodes` looks at
the buffer and not at how much of it was just filled: stale bytes can complete a packet.
`Accept` is a packet that is found, acknowledged and acted on; `Reject` everything else;
`Reply` and `SendAnswer` write the stream to the app; `Clear` empties it. `begun`, `done`,
`batch` and `inbox` are histories.

Facts of the code the model has and nothing states otherwise: a packet that comes in two
callbacks is lost (a message of 49 bytes takes three notifications), a second packet in the
same drain is lost, the negative acknowledgement of a damaged packet is written to the
stream and cleared, never sent, configuration and bulletin packets are never
acknowledged to the app (the acknowledgement is written and cleared), and a message is acknowledged
before it is inserted, also when the logger is full. The limit of `rx_buffer` lets one
byte in more than it holds, into the padding behind it. The bytes of a message are
assumed not to contain a whole packet, and two packets to have equal checksums only
when they are equal. The satellite side runs the same decoder on commands of
40 bytes, without acknowledgements; it has no module of its own. `syshal_ble_rx_callback_priv` copies
all the bytes that are available into the buffer of the event and does not compare their number with its size; the
model drains a queue of any length and does not follow what that copy would do beyond the buffer.

## 4. Runs

| run | shows | bounds, and why they are enough |
|---|---|---|
| `logger` | loops and calls of the logger on every reachable table | 3 slots, 3 dates: ties of two and three, gaps in the middle, a full table |
| `uplink` | no message is sent twice under all hazards together | 2 slots, a queue of 1 (full queue). One message is followed; any number of others (`NoData`, from a failing `calloc` or a command that was never sent) fill slots and queue beside it. A duplicate is of one message, so following one is enough; `NoMessageTwice` covers any number |
| `uplink_live` | the uplink implements `Delivery`; delivery, nothing stranded, pushes complete | 3 messages, 2 slots (reuse, and a full logger), queue of 2 (several acknowledgements wait at once), 1 command, resets at any step. `NoSilentLoss`, `QueueMatchesLogger` and `PromiseSpec` under failing exchanges, failing `calloc` and equal dates are the theorems'; the first two were also run with `link_fault`, `no_mem` and `reboot` together |
| `logger_tasks` | finding: the two tasks take one slot for two messages | 2 slots, 2 messages |
| `user_clear` | finding: a cleared slot's id is still the modem's | 2 slots, 2 messages |
| `deaf` | finding: a lost edge leaves the tracker deaf | fairness of the main loop and of the satellite only |
| `scheduler` | ids, the GNSS alarm, schedule, sleep and configuration, over clock jumps, resets and new configurations | an hour of 3 seconds, a day of 2 hours, a clock from 10 to 24 with one jump to 17: several due times before and after the jump; 2 alarms, which fill the table; an iteration of up to 2 seconds, so that an alarm can be overdue when the tracker goes to sleep; a watchdog time of 4 and an alarm limit of 3; intervals 1 and 24 |
| `link` | unless an answer was late: nothing is left in the line, confirmations are true, what is cleared was read; in any case the link implements `Exchange`, and a tick ends if its exchanges do not fail for ever | 2 ids and a queue of 1 (duplicate and full); one late answer and one that is disturbed, cut, lost or refused, in any order and at any request; one payload taken or one command. Acknowledgements of several satellites between a read and a clear are the theorem's; the safety part was also run with two passes |
| `main` | power and time of the receiver, errors and resets, configurations served, with the BLE task | every time limit a few seconds in the order the real ones have, and a session bound (`MaxSession`) that is exactly the one the proof needs; three builds (plain, with a screen, with a low battery) |
| `reconfigured` | finding: a configuration that finds the screen shut down ends in a reset | as `main`, with a screen and no faults |
| `acquisition` | finding: after the wrap of the SAMD21's counter no position is taken | a counter of 40 seconds, an interval of 12, a first fix at 100: three intervals before the wrap. With the NRF52's clock (`Nrf` TRUE, `MaxTime` 300), and with a counter that does not wrap, the property holds, which `PositionsKeepComing` proves |
| `command` | packets acted on once, true acknowledgements, answers in order, resynchronisation | two messages with the same end, a request with up to two answers, a configuration, an unknown packet, each sent once, cut anywhere and drained at any moment, in a stream of four cells (two packets overfill it). That a packet is acted on no more often than it was sent, when it is sent more than once, is the theorem's |

Symmetry is used on `Data` in safety runs only. Dates are not symmetric (they are ordered).
The assumption on `MaxSession` (`SessionAssumption`) is what a session can take: its
timeout, then the rest of a turn, a sleep or the LED sequence, and the beginning of the
next turn. Seconds beyond it are not counted (`Later`).

### Fairness

`LiveSpec` of `Uplink` assumes weak fairness of the main loop (each turn sleeps at most
until the next alarm, which `sm_main_operational` sets for every sleep, and a
stage is never blocked) and of satellite passes that take a queued payload. Nothing is assumed of
users, of GNSS fixes, of satellite commands or of the one-shot satellite-pass alarm.
`EveryMessageDelivered` is checked with a queue as large as the logger; with a smaller
one, a message that did not fit waits for the next trigger of a push, which nothing guarantees.

For the link, weak fairness of the driver's steps is the time limit of the port
(`TIMEOUT_SERIAL`): a request ends with or without an answer. `TickEnds` needs nothing of the
modem, but the number of answers late or disturbed and of requests lost or refused is bounded (`MaxTimeouts`,
`MaxNoise`): with a clear that fails for ever the `while` of `syshal_sat_tick` never ends, and
only the watchdog does.

For `MainSM`, weak fairness of `Main` (the loop runs unless it is suspended), of `Pass` (time
passes) and of `Resets` (both watchdogs act when their time is over). Nothing is assumed of
the BLE task, of buttons and of the modem. Between them they are enough for
`ErrorResets` and `ConfigServed` although a turn may hang and a sleep may miss its alarm.

### What the findings say

* `user_clear`: `syshal_sat_send_message` treats `DUPLICATE_ID` as success and
  acknowledgements name only the id; after "clear all messages" a reused slot loses
  its new message to the acknowledgement of the old one.
* `logger_tasks`: on the NRF52 builds the BLE task logs into the table the main loop is about to change.
  `logger_insert_data` overwrites a message that took the slot it had found free (`logger.cpp:77`),
  and `logger_clear_slot` empties one that took the slot it was freeing (`logger.cpp:130`).
* `deaf`: see `new_event_pending` in `syshal_sat.cpp:541`.
* `reconfigured`: `syshal_screen_update_config` refuses a screen that is shut down
  (`syshal_screen.cpp:567`), which it is 10 seconds after its last use, and provisioning
  throws on that (`sm_main.cpp:1012`). The state ERROR ends in a watchdog reset, after which the
  configuration is the default one and the logger empty.
* `acquisition`: after 2^27 seconds the SAMD21's uptime, and every timestamp, goes back by 4.25
  years; the next GNSS alarm lies as far in the future.

Others, without a run of their own:

* Equal dates. A GNSS tick can log a raw sample and a fix with the same second, and the
  walk of the push asks for slots strictly older (`logger.cpp:240`), so it offers only one
  of them, and the other only in a push after the first was acknowledged and cleared, against
  the comment at `sm_main.cpp:1476`. `WalkVisitsEachDateOnce` states what the walk does do.
* A missed second. `sm_main.cpp:1227` sets the alarm to the next alarm when that is near,
  also when it is the second that is passing. The register never matches, and unless
  a button, the modem or BLE wakes the tracker, the hardware watchdog resets it,
  which empties the logger (`HwReset` of `Scheduler` and `MainSM`).
* A configuration lost. `sm_main.cpp:1042` resets `new_config_available` after the LED sequence
  of provisioning, long after the configuration was applied at `sm_main.cpp:1014`. The
  values received in between are stored and stay without effect until the next packet.
  With `LateConfig` TRUE, `AppliedConfig` of `Scheduler` is violated.
* The overflow of the NRF52's counter. Its interrupt is enabled (`syshal_rtc.cpp:134`) and not
  handled: 24.3 days after boot the tracker hangs in the handler until the watchdog resets it,
  which empties the logger and restarts the clock at its default.
* Intervals out of range are refused only where they are applied (`scheduler.cpp:187`): a
  first interval out of 1..24 leaves no expression, no GNSS alarm is
  created and, with the predictor on, its place goes to the satellite pass alarm, which a
  stale id can then confuse with it. The runs and theorems of `Scheduler` therefore
  send valid intervals.
* An alarm that is overdue when the tracker goes to sleep makes the difference of
  `sm_main.cpp:1227` wrap: the sleep lasts as long as the watchdog
  allows, past any other alarm due meanwhile. `SleepIsSafe` states it as the code has it.
* A display that is on, like a receiver that is, makes the tracker sleep for a fixed time
  (`sm_main.cpp:1234-1238`) without looking at the alarms, so one may come due in that sleep and is served after it.
* A message logged by the BLE task during a push, dated above the slots the walk has reached,
  is not offered, and `sm_main.cpp:1176` then resets the flag that would offer it. It waits for the next message
  or alarm. No module has push and BLE task together.
* Late answers. An answer that comes after the time limit shifts all that follow by one,
  because nothing clears the line before a request: an answer is taken for
  that of the next request, which fails, until a
  read happens to find the line empty. A long answer (to `PER_RR`, the status) read by a request with a
  smaller buffer leaves its end behind and so shifts the rest by one more. A read can then find the
  answer to an earlier read of an acknowledgement, and the clear after it removes one
  that was never read (`ClearUnreadAck` of `Uplink`, where the message is then sent again), against `astronode.h:64`, "Confirm to the
  terminal that Acknowledgment was properly decoded and can be deleted by the terminal".
  One late answer is enough (`MaxPasses = 2`, `MaxLine = 6`, `OnlyReadAcksCleared` without its
  condition), where `MaxLine` bounds how long the line may get before such ends are no longer followed.

## 5. Proofs

| theorem | assumptions |
|---|---|
| `LoggerTypeCorrect`, `LoggerNeverOverwrites`, `LoggerScansCorrect`, `LoggerWalkIsComplete`, `LoggerClearIsExact` (`LoggerProofs`) | the named ASSUMEs on constants |
| `TypeCorrect`, `NoMessageTwice` (`UplinkProofs`) | any `Hazards`; `NoMessageTwice` needs `AckHoldsId`, and excepts messages whose acknowledgement was cleared unread |
| `NothingLost`, `IdsAgree`, `ImplementsDelivery`, `PendingOnce` (`UplinkProofs`) | `AckHoldsId` and `RegularUse` |
| `PushIsComplete` (`UplinkProofs`) | `AckHoldsId` and `OrderlyWalk` |
| `NothingStranded` (`UplinkProofs`) | the same and `RoomForAll` |
| `TypeCorrect`, `IdsAlwaysMatch`, `GpsAlarmLives`, `ScheduleKept`, `FiresOnce`, `SleepSafe` (`SchedulerProofs`) | `ValidIntervals`, and the ASSUMEs of `Scheduler` on limits, inputs and calendar |
| `ConfigApplied` (`SchedulerProofs`) | the same and `~LateConfig` |
| `TypeCorrect`, `ReceiverNotLeftPowered`, `SessionsAreBounded`, `ErrorsHaveReasons` (`MainSMProofs`) | `TimesAssumption`, `SessionAssumption`, `BuildsAssumption`: the time limits are ordered as in the code, any `Builds` and `Faults` |
| `TypeCorrect`, `ActsOncePerSending`, `AcknowledgementsAreTrue`, `AnswersInOrder`, `AlwaysResynchronises` (`CommandProofs`) | `PacketsAssumption`: each packet fits the buffer |
| `TypeCorrect`, `ConfirmationsAreTrue`, `AnswersArePaired`, `ClearedAcksWereRead`, `ImplementsExchange` (`AstronodeLinkProofs`) | `LinkAssumption`: ids and bounds are natural numbers, and no id is 0. The middle three speak of the time before the first late answer |
| `PositionsKeepComing` (`AcquisitionProofs`) | `Sizes`, and `Nrf` or `NoWrap`, as hypotheses |

`Uplink` is the main loop alone, and so are these theorems: of the NRF52 builds they hold for as long as the BLE
task logs nothing (`logger_tasks`). Likewise `NoOverwrite` of `Logger` is about calls that follow one another.

`RegularUse` excludes `user_clear` (see the finding), `ack_read_fault` and `late_answer`: the
slot acknowledged is then left to chance. Failing exchanges, resets, failing `calloc` and equal
dates are allowed, in any combination. An acknowledgement whose clear failed is handled again within the tick,
where nothing fills a slot, and, if the tick ends before it is cleared, never: it keeps the EVT pin
up, so that no edge starts another tick (`AcksGood`). The message is not lost, but the tracker is deaf from then on.

`OrderlyWalk` excludes equal dates (one of two such slots is passed over) and failing
or late exchanges (which the loop counts as success, or as a full queue); clears by the
user, misread acknowledgements, failing `calloc` and resets are allowed. `RoomForAll` asks for a queue
as large as the logger, which the firmware does not have (100 slots, against the few
payloads the modem holds), and for no failing `calloc`: `PushIsComplete`, which needs neither,
is what holds of the firmware's sizes. A push that found the queue full leaves the rest to the next
message or alarm.

The argument for the logger. `TypeOK` is inductive as it stands, and what the loops return follows
from it in each state. The loops are functions defined by recursion, so they are shown to exist
first (`LoopDefined`: a run of n turns can be extended by one) and then followed with an
invariant of the loop (`LoopRule`): `YoungestSoFar`, `LastSoFar` and `OldestSoFar` are what a
scan has found after n slots, `ClearedUpTo` is the table a clear by tag has reached, and `WalkedSoFar`
says that the dates from the one last returned on are exactly the n dates returned so far, so that
the walk ends when it has counted them all, which is within its bound because there are at most as
many dates as slots. Both rules rest on the least-number principle (`Induction`, from `WFMin`), stated
with sets instead of predicates.

The argument for the uplink. `TInv` is type correctness with the well-formedness of slots (id is
the index, an empty slot is empty). `DInv` carries `NoMessageTwice`: a payload that is
delivered is not queued, because its slot either still has its acknowledgement
waiting, so that the modem refuses the id, or was marked or cleared; a message whose acknowledgement
was cleared unread is the exception, which `unread` remembers. `LInv` carries
the rest: every queued payload is the content of its waiting slot, every
acknowledgement names a slot whose payload was delivered, ids are queued or
acknowledged once, and each accepted payload is in one slot. `NoSilentLoss` alone is
not inductive: it has to be known that an acknowledgement names a slot whose payload
a satellite received, which in turn needs the agreement of the queue with the table.

For the walk of the push, `PInv` adds to `DInv` that dates tell the slots apart and `WalkInv`: the
modem knows every waiting message among the slots the walk has passed, those not older than
`prv_slot_epoch`, and they are at least `push_i`. So the loop ends by itself only when it has
passed every slot, by its bound too (a set of slots with `NbSlots` elements is all of them). `NInv` adds
`AllOffered`, that all are known after the loop, for which a full queue with a place for
each slot must hold every id, ids being queued once.

For the scheduler, `SchedulerInv` says what none of its properties says by
itself: the GNSS alarm, created first in an empty table, has place 0 and the satellite pass
alarm the next one, so a stale id can only name its own place; the next time of the
GNSS alarm is the first one after it last ran or was created (`IdInv`), from which
`ScheduleKept` and `FiresOnce` follow by monotonicity of the calendar; what `serviceAlarms`
has passed is not overdue (`ServedInv`), so that `scheduler_tick` has nothing to
remove; and the register is as `WakeTime` computed it when the loop is suspended
(`SleepInv`), where `UnsignedDifference` settles the 32-bit subtraction.

For the main states, `MainInv` is `TypeOK`, `StateInv` (which points of a turn belong to which
state, and that the receiver is not shut down when it is configured), `PowerInv` (a receiver with
power and without a state is in the middle of a wake-up of one of the tasks, also when
the other shuts it down in between), `SessionInv` (how long a session may have lasted
at each point: what the last check left, the turn, the sleep or the LED sequence
since) and `ErrorOnlyByFault`. `NeverLeftPowered` is not inductive because a wake-up of the BLE
task and a shutdown of the main loop overlap; `SessionBound` is not because the time allowed
depends on where in the turn the next check is.

For the commands, `CommandInv` adds: what the stream holds at each point of the
callback; every header still on its way, in the link, in the receive queue or just read, stands for a sending that has not
been acted on (`SentInv`), so stale bytes may complete a packet but never
repeat one; the acknowledgements sent and the one in the stream together are as many as the
packets acted on (`AckInv`); and the app's inbox ends with the answers to the request that
is being answered (`AnswerInv`).

For the link, `LinkInv` says that the line holds only frames the modem can have sent
(`Genuine`: their length is that of their register, an acknowledgement carries the id of its payload, an event has a
reaction), closed under losing a front and gaining a piece, so it holds with any faults.
`Paired` is inductive with it: an answer to the request, or an error, fits the buffer, and
reading the only frame leaves nothing. What the answer in the line still says of the modem is
`FrontInv`: satellites may acknowledge between the answer and its reading, which adds
acknowledgements behind the first one and takes payloads from the queue to the acknowledgements, so the
acknowledgement read is the one the clear removes, and a payload confirmed is still in use (`InUse`). `EnqueueConfirmed` needs this
because an id is used again and again: that it was taken once says nothing.
In `ImplementsExchange` the step that is not a plain copy is `AckRead`: reading the answer, telling its id and
sending the clear, which works or not, is one `Acknowledge`; a read that failed tells `Unset` and is
`Misread`, where `AckInv` supplies that an acknowledgement is waiting; and only
after a late answer can the id told be another one (`Confuse`).

For the clock, `PositionsKeepComing` is the other side of the finding `acquisition`: sessions keep
coming on the NRF52, where each wrap costs a reset, and on the SAMD21 as long as its counter
does not wrap (`NoWrap`). `Sizes` orders the times as the firmware has them (the default time of the clock is
before the first fix, a counter outlasts an interval, a time fits 32 bits). `AcqInv` says when the
alarm is due (`Due`: an interval after the last session began, or after a reset an interval after the default
time, while nothing has set the clock) and how late it can be at each stage of the turn
(`Late`). `EveryInterval` alone is not inductive: a wrap before the alarm of the last reset was
due would add a third interval, and it is `Late` that excludes it, as the counter is then
no further than that alarm. `Due` and `Late` have the counter as an argument: `TakesKeeps` uses
them of the value the counter would have had without the wrap.

The invariants were checked with TLC as well.

Only model-checked: the liveness properties with fairness (`EveryMessageDelivered`,
`TickEnds`, `ErrorResets`, `ConfigServed`).

## 6. Not modelled

* Vendored code, which is most of the lines under `src/`: the SparkFun GNSS library and
  the u-blox headers (23,000 lines), Adafruit NeoPixel, TemperatureZero, Time, CException and the calendar
  arithmetic of CronExpr (a constant of `Scheduler`). The firmware's own code is about a quarter
  of the implementation lines, and that is what the modules are about.
* Drawing and menu pages, LED colours, sensor readings, counters kept for the status
  reports, bytes and fields of packets and payloads, debug output.
* Code nothing calls: the states deactivate and log-full, the `_term` functions, the get
  and set functions of the configuration by tag, `disable` of an alarm, and the requests of `astronode.cpp`
  the driver does not send.
* The wrap of the time in milliseconds (49.7 days) under the finish times of LED and
  screen: `MainSM` keeps what is left of them.
* A fix that is stale: the result of `getPVT` is ignored (`syshal_gps.cpp:193`); which position a
  sample holds is not followed.
* `tools/`.

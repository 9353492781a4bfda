------------------------------- MODULE MainSM -------------------------------
(***************************************************************************)
(* The main state machine (core/sm) with the power of the GNSS receiver    *)
(* (syshal/gps), the LED and the screen as far as the states wait for      *)
(* them, the two watchdogs, and the BLE task, whose requests run beside    *)
(* the main loop and wake the receiver too.                                *)
(*                                                                         *)
(* A step of a task is one stretch of its code between two points where    *)
(* the other may come in.  Time is in seconds and is kept as it is         *)
(* compared: what has passed since, or what is left until.                 *)
(***************************************************************************)
EXTENDS Naturals

CONSTANTS
  PvtTimeout, RawTimeout,  \* pvt_timeout_s, raw_timeout_s
  Active,                  \* GPS_ACTIVE_WAKEUP_TIMEOUT_S
  Hard,                    \* HARD_WATCHDOG_TIMEOUT_S
  HwTimeout,               \* seconds asleep after which the hardware watchdog resets
  TickMax,                 \* seconds a turn may take: SOFT_WATCHDOG_TIMEOUT_S and its delays
  LedTime,                 \* LED_DURATION_MS in seconds
  MaxSession,              \* bound on the seconds the receiver stays powered
  Builds,                  \* what the firmware may be compiled with
  Faults                   \* "driver": a device fails; "hang": a turn does not end

ASSUME TimesAssumption ==
  /\ PvtTimeout \in Nat /\ RawTimeout \in 0 .. PvtTimeout /\ LedTime \in Nat
  /\ Active \in Nat \ {0} /\ Hard \in Nat /\ HwTimeout \in Nat
  /\ Active <= Hard /\ Hard < HwTimeout
  /\ TickMax \in Nat \ {0}

(* A session ends at the first check after PvtTimeout.  Until that check    *)
(* may pass the rest of a turn, a sleep or the LED sequence and the last    *)
(* turn of provisioning, and the beginning of the next turn.                *)
ASSUME SessionAssumption ==
  /\ MaxSession \in Nat
  /\ MaxSession >= PvtTimeout + Active + 2 * TickMax
  /\ MaxSession >= HwTimeout + 2 * TickMax
  /\ MaxSession >= LedTime + 3 * TickMax

ASSUME BuildsAssumption ==
  /\ Builds \subseteq [screen : BOOLEAN, battery_low : BOOLEAN]
  /\ Faults \subseteq {"driver", "hang"}

VARIABLES
  build,
  state, next, first,      \* current_state, next_state, first_time_running
  pc,                      \* where the main task is in its turn
  gps, pin,                \* state of the GNSS driver; is the receiver powered
  since, wrapped,          \* uptime - gps_start_time; has the uptime wrapped in between
  ble,                     \* where the BLE task is in syshal_gps_wake_up
  advertising,             \* has Bluefruit.Advertising been started since the reset
  led, led_left,           \* syshal_led_is_active; seconds until led_finish_time
  screen, request_screen,  \* state of the screen; request_screen_display_activation
  new_config_available,
  config,                  \* is the configuration the default one or one received
  unkicked,                \* seconds the turn has taken
  slept, wake_by,          \* seconds asleep; those after which the alarm wakes
  fault                    \* history: has a device failed since the reset

driver == <<gps, pin>>
timer  == <<since, wrapped>>
task   == <<ble, advertising>>
light  == <<led, led_left>>
panel  == <<screen, request_screen>>
conf   == <<new_config_available, config>>
sleep  == <<slept, wake_by>>
vars   == <<build, state, next, first, pc, driver, timer, task, light, panel, conf, unkicked, sleep, fault>>

States == {"BOOT", "PROVISIONING", "OPERATIONAL", "BATTERY_LEVEL_LOW", "ERROR"}

(* Where syshal_gps_wake_up waits for the receiver to start, and where      *)
(* syshal_gps_shutdown has taken its power and not yet noted it; and what   *)
(* the main task does next.                                                 *)
AfterWake == [wake_config |-> "config", wake_screen |-> "sched", wake_sched |-> "rest"]
AfterOff  == [off_config |-> "drivers", off_fixed |-> "timeout", off_timeout |-> "sat", off_leave |-> "left"]

Waking  == DOMAIN AfterWake
Turning == DOMAIN AfterOff
Turn    == {"start", "config", "drivers", "led", "tick", "fixed", "timeout", "sat", "screen_tick", "sched",
            "rest", "suspend", "asleep", "leave", "left"} \cup Waking \cup Turning

Awake == pc # "asleep"

-----------------------------------------------------------------------------
(* The state machine engine. *)

(* sm_tick: at the end of the turn the next state becomes the current one.  *)
EndTurn(n) ==
  /\ state' = n /\ next' = n
  /\ first' = (n # state)
  /\ pc' = "start"

(* An exception skips the rest of the turn. *)
Throw == EndTurn("ERROR")

SameState == UNCHANGED <<build, state, next, first>>

(* The turn goes on at p. *)
Continue(p) == SameState /\ pc' = p

-----------------------------------------------------------------------------
(* The GNSS driver, in the main task. *)

IsAwake == gps \in {"ACQUIRING", "FIXED"}

(* syshal_gps_wake_up up to its delay; p is where it waits. *)
MainWakes(p) ==
  IF IsAwake THEN Continue(AfterWake[p]) /\ UNCHANGED driver
  ELSE Continue(p) /\ pin' = "high" /\ UNCHANGED gps

(* syshal_gps_wake_up after its delay, with the event POWERED_ON. *)
WakeDone ==
  /\ pc \in Waking
  /\ gps' = "ACQUIRING" /\ UNCHANGED pin
  /\ since' = 0 /\ wrapped' = FALSE
  /\ Continue(AfterWake[pc])
  /\ UNCHANGED <<task, light, panel, conf, unkicked, sleep, fault>>

(* Variant: the power is taken when the receiver has a fix only. *)
ShutdownHalf(p) ==
  IF gps = "ASLEEP" THEN Continue(AfterOff[p]) /\ UNCHANGED driver
  ELSE Continue(p) /\ pin' = (IF gps = "FIXED" THEN "low" ELSE pin) /\ UNCHANGED gps

(* syshal_gps_shutdown up to its change of state; p is where it stands. *)
MainShutsDown(p) ==
  IF gps = "ASLEEP" THEN Continue(AfterOff[p]) /\ UNCHANGED driver
  ELSE Continue(p) /\ pin' = "low" /\ UNCHANGED gps

ShutdownDone ==
  /\ pc \in Turning
  /\ gps' = "ASLEEP" /\ UNCHANGED pin
  /\ Continue(AfterOff[pc])
  /\ UNCHANGED <<timer, task, light, panel, conf, unkicked, sleep, fault>>

(* What the difference of uptime and gps_start_time is compared with: after *)
(* the counter has wrapped it is a huge unsigned number.                    *)
Exceeds(t) == wrapped \/ since > t

-----------------------------------------------------------------------------
(* Reset and boot. *)

Init ==
  /\ build \in Builds
  /\ state = "BOOT" /\ next = "BOOT" /\ first = TRUE /\ pc = "start"
  /\ gps = "UNINIT" /\ pin = "low"
  /\ since = 0 /\ wrapped = FALSE
  /\ ble = "idle" /\ advertising = FALSE
  /\ led = TRUE /\ led_left = 0
  /\ screen = "UNINIT" /\ request_screen = FALSE
  /\ new_config_available = FALSE /\ config = "default"
  /\ unkicked = 0 /\ slept = 0 /\ wake_by = 0
  /\ fault = FALSE

(* A watchdog resets the tracker: RAM, pins and tasks start again. *)
Reset ==
  /\ state' = "BOOT" /\ next' = "BOOT" /\ first' = TRUE /\ pc' = "start"
  /\ gps' = "UNINIT" /\ pin' = "low"
  /\ since' = 0 /\ wrapped' = FALSE
  /\ ble' = "idle" /\ advertising' = FALSE
  /\ led' = TRUE /\ led_left' = 0
  /\ screen' = "UNINIT" /\ request_screen' = FALSE
  /\ new_config_available' = FALSE /\ config' = "default"
  /\ unkicked' = 0 /\ slept' = 0 /\ wake_by' = 0
  /\ fault' = FALSE
  /\ UNCHANGED build

(* The soft watchdog resets a tracker that has not kicked it for a turn:    *)
(* one that hangs, and one in the state ERROR, which does not kick it.      *)
WatchdogReset ==
  /\ Awake /\ unkicked = TickMax
  /\ state = "ERROR" \/ "hang" \in Faults
  /\ Reset

(* The hardware watchdog resets a tracker that does not wake up. *)
HwReset ==
  /\ pc = "asleep" /\ slept = HwTimeout
  /\ Reset

(* sm_main_boot.  The receiver is tried and left without power; the screen  *)
(* shows the logo.                                                          *)
Boot ==
  /\ state = "BOOT" /\ pc = "start"
  /\ gps' = "ASLEEP" /\ UNCHANGED pin
  /\ led' = FALSE
  /\ screen' = IF build.screen THEN "DISPLAYING" ELSE "UNINIT"
  /\ EndTurn("PROVISIONING") /\ UNCHANGED build
  /\ UNCHANGED <<timer, task, led_left, request_screen, conf, unkicked, sleep, fault>>

(* A device fails to start. *)
BootFails ==
  /\ state = "BOOT" /\ pc = "start" /\ "driver" \in Faults
  /\ fault' = TRUE
  /\ gps' \in {"UNINIT", "ASLEEP"} /\ UNCHANGED pin
  /\ screen' \in IF build.screen /\ gps' = "ASLEEP" THEN {"UNINIT", "DISPLAYING"} ELSE {"UNINIT"}
  /\ Throw /\ UNCHANGED build
  /\ UNCHANGED <<timer, task, light, request_screen, conf, unkicked, sleep>>

-----------------------------------------------------------------------------
(* sm_main_provisioning. *)

(* A configuration packet is stored and flagged. *)
Received == config' = "received" /\ new_config_available' = TRUE

(* Variant: the receiver is configured as it is found. *)
ProvisionAsleep ==
  /\ state = "PROVISIONING" /\ pc = "start" /\ first
  /\ unkicked' = 0
  /\ led' = TRUE /\ led_left' = LedTime
  /\ pc' = "config"
  /\ next' = IF build.battery_low THEN "BATTERY_LEVEL_LOW" ELSE next
  /\ UNCHANGED <<build, state, first, driver, timer, task, panel, conf, sleep, fault>>

(* The first entry: the LED, the battery, whose level reads 0, and the      *)
(* receiver's power.                                                        *)
Provision ==
  /\ state = "PROVISIONING" /\ pc = "start" /\ first
  /\ unkicked' = 0
  /\ led' = TRUE /\ led_left' = LedTime
  /\ IF IsAwake THEN pc' = "config" /\ UNCHANGED driver
     ELSE pc' = "wake_config" /\ pin' = "high" /\ UNCHANGED gps
  /\ next' = IF build.battery_low THEN "BATTERY_LEVEL_LOW" ELSE next
  /\ UNCHANGED <<build, state, first, timer, task, panel, conf, sleep, fault>>

(* syhsal_gps_update_config, which wants the receiver awake; its shutdown.  *)
ConfigureGps ==
  /\ pc = "config"
  /\ IF gps = "ASLEEP" THEN Throw /\ UNCHANGED <<build, driver>> ELSE MainShutsDown("off_config")
  /\ UNCHANGED <<timer, task, light, panel, conf, unkicked, sleep, fault>>

(* Satellite modem, BLE, screen and schedulers.  syshal_screen_update_config *)
(* refuses a screen that is shut down.  The modem may hold a configuration. *)
ConfigureDrivers ==
  /\ pc = "drivers"
  /\ advertising' = TRUE
  /\ Received \/ UNCHANGED conf
  /\ IF screen = "ASLEEP" THEN Throw /\ UNCHANGED build ELSE Continue("led")
  /\ UNCHANGED <<driver, timer, ble, light, panel, unkicked, sleep, fault>>

SatFails ==
  /\ pc = "drivers" /\ "driver" \in Faults
  /\ fault' = TRUE
  /\ Throw /\ UNCHANGED build
  /\ UNCHANGED <<driver, timer, task, light, panel, conf, unkicked, sleep>>

LaterEntry ==
  /\ state = "PROVISIONING" /\ pc = "start" /\ ~first
  /\ unkicked' = 0
  /\ Continue("led")
  /\ UNCHANGED <<driver, timer, task, light, panel, conf, sleep, fault>>

(* When the LED sequence is over the state is left for the operational one; *)
(* a low battery leaves it at once, unless the sequence is over by then.    *)
LeaveProvisioning ==
  /\ state = "PROVISIONING" /\ pc = "led"
  /\ LET n == IF led_left = 0 THEN "OPERATIONAL" ELSE next
     IN  /\ EndTurn(n)
         /\ led' = (led /\ n = state)
         /\ new_config_available' = (new_config_available /\ n = state)
  /\ UNCHANGED <<build, driver, timer, task, led_left, panel, config, unkicked, sleep, fault>>

-----------------------------------------------------------------------------
(* sm_main_operational. *)

(* Variant: every turn moves the time the LED is switched off. *)
BeginTurnLit ==
  /\ state = "OPERATIONAL" /\ pc = "start"
  /\ unkicked' = 0
  /\ led' = TRUE
  /\ led_left' = led_left + LedTime
  /\ Continue("tick")
  /\ UNCHANGED <<driver, timer, task, panel, conf, sleep, fault>>

(* The beginning of a turn.  The low battery is never seen: the last        *)
(* reading is 0 and no level is below it.                                   *)
BeginTurn ==
  /\ state = "OPERATIONAL" /\ pc = "start"
  /\ unkicked' = 0
  /\ led' = TRUE
  /\ led_left' = IF first THEN LedTime ELSE led_left
  /\ Continue("tick")
  /\ UNCHANGED <<driver, timer, task, panel, conf, sleep, fault>>

(* syshal_gps_tick with a raw sample, a fix, both or none. *)
GpsTick ==
  /\ pc = "tick"
  /\ gps' \in IF gps = "ASLEEP" THEN {gps} ELSE {gps, "FIXED_RAW", "FIXED"}
  /\ Continue("fixed")
  /\ UNCHANGED <<pin, timer, task, light, panel, conf, unkicked, sleep, fault>>

(* A raw sample in time and a fix end the session. *)
GpsFixed ==
  /\ pc = "fixed"
  /\ IF gps = "FIXED" \/ (gps = "FIXED_RAW" /\ ~Exceeds(RawTimeout))
     THEN MainShutsDown("off_fixed")
     ELSE Continue("timeout") /\ UNCHANGED driver
  /\ UNCHANGED <<timer, task, light, panel, conf, unkicked, sleep, fault>>

(* Variant: only a session without any sample is timed. *)
TimeoutAcquiring ==
  /\ pc = "timeout"
  /\ IF Exceeds(PvtTimeout) /\ gps = "ACQUIRING" THEN MainShutsDown("off_timeout")
     ELSE Continue("sat") /\ UNCHANGED driver
  /\ UNCHANGED <<timer, task, light, panel, conf, unkicked, sleep, fault>>

(* The timeout of the session. *)
GpsTimeout ==
  /\ pc = "timeout"
  /\ IF Exceeds(PvtTimeout) THEN MainShutsDown("off_timeout") ELSE Continue("sat") /\ UNCHANGED driver
  /\ UNCHANGED <<timer, task, light, panel, conf, unkicked, sleep, fault>>

(* syshal_sat_tick: a command from the satellite may be a configuration. *)
SatTick ==
  /\ pc = "sat"
  /\ Received \/ UNCHANGED conf
  /\ Continue("screen_tick")
  /\ UNCHANGED <<driver, timer, task, light, panel, unkicked, sleep, fault>>

(* syshal_screen_tick, twice: a button asks for the display; with the       *)
(* display on, a page of the menu may ask for a position.                   *)
ScreenTick ==
  /\ pc = "screen_tick"
  /\ request_screen' \in IF screen = "UNINIT" THEN {request_screen} ELSE {request_screen, TRUE}
  /\ \/ Continue("sched") /\ UNCHANGED driver
     \/ screen = "DISPLAYING" /\ MainWakes("wake_screen")
  /\ UNCHANGED <<timer, task, light, screen, conf, unkicked, sleep, fault>>

(* scheduler_tick: the GNSS alarm may be due. *)
SchedulerTick ==
  /\ pc = "sched"
  /\ \/ Continue("rest") /\ UNCHANGED driver
     \/ MainWakes("wake_sched")
  /\ UNCHANGED <<timer, task, light, panel, conf, unkicked, sleep, fault>>

(* The rest of the turn: the display is switched on if requested, and off   *)
(* when its time is over; so is the LED, and if it is off the tracker goes  *)
(* to sleep until the next alarm, at most Hard; one in the very second is   *)
(* missed.  With the receiver or the display on it sleeps shortly.          *)
Rest ==
  /\ pc = "rest"
  /\ request_screen' = FALSE
  /\ LET shown == IF request_screen /\ screen = "ASLEEP" THEN "DISPLAYING" ELSE screen
     IN  screen' \in IF shown = "DISPLAYING" THEN {"DISPLAYING", "ASLEEP"} ELSE {shown}
  /\ led' = (led_left > 0)
  /\ IF led_left > 0 THEN Continue("leave") /\ UNCHANGED wake_by
     ELSE /\ Continue("suspend")
          /\ wake_by' \in IF gps = "ASLEEP" /\ screen' # "DISPLAYING"
                          THEN {Hard, HwTimeout} ELSE {Active}
  /\ UNCHANGED <<driver, timer, task, led_left, conf, unkicked, slept, fault>>

(* syshal_pmu_sleep: kicks the hardware watchdog and suspends the loop.     *)
Suspend ==
  /\ pc = "suspend"
  /\ slept' = 0
  /\ Continue("asleep")
  /\ UNCHANGED <<driver, timer, task, light, panel, conf, unkicked, wake_by, fault>>

(* Resuming a loop that is not suspended does nothing. *)
Resumed ==
  /\ pc' = CASE pc # "asleep" -> pc
             [] pc = "asleep" /\ state = "OPERATIONAL" -> "leave"
             [] OTHER -> "start"
  /\ IF pc = "asleep" THEN slept' = 0 /\ wake_by' = 0 ELSE UNCHANGED sleep

(* The alarm, a button or the modem resumes the loop. *)
AlarmWake ==
  /\ pc = "asleep" /\ slept = wake_by /\ wake_by # HwTimeout
  /\ Resumed /\ SameState
  /\ UNCHANGED <<driver, timer, task, light, panel, conf, unkicked, fault>>

OtherWake ==
  /\ pc = "asleep" /\ slept # HwTimeout
  /\ Resumed /\ SameState
  /\ UNCHANGED <<driver, timer, task, light, panel, conf, unkicked, fault>>

(* Variant: the flag is reset where it is read. *)
LeaveForgets ==
  /\ pc = "leave"
  /\ new_config_available' = FALSE
  /\ EndTurn(state)
  /\ UNCHANGED <<build, driver, timer, task, light, panel, config, unkicked, sleep, fault>>

(* The end of the turn: a new configuration ends the state, and with it a   *)
(* session.                                                                 *)
Leave ==
  /\ pc = "leave"
  /\ IF new_config_available THEN MainShutsDown("off_leave")
     ELSE EndTurn(state) /\ UNCHANGED <<build, driver>>
  /\ UNCHANGED <<timer, task, light, panel, conf, unkicked, sleep, fault>>

Left ==
  /\ pc = "left"
  /\ led' = FALSE
  /\ EndTurn("PROVISIONING")
  /\ UNCHANGED <<build, driver, timer, task, led_left, panel, conf, unkicked, sleep, fault>>

-----------------------------------------------------------------------------
(* The states without a way out. *)

(* sm_main_battery_level_low sleeps without an alarm. *)
BatteryTurn ==
  /\ state = "BATTERY_LEVEL_LOW" /\ pc = "start"
  /\ unkicked' = 0
  /\ slept' = 0 /\ wake_by' = HwTimeout
  /\ first' = FALSE /\ pc' = "asleep"
  /\ UNCHANGED <<build, state, next, driver, timer, task, light, panel, conf, fault>>

(* Variant: the watchdog is kicked as in the other states. *)
ErrorTurnKicks ==
  /\ state = "ERROR" /\ pc = "start"
  /\ unkicked' = 0
  /\ led' = TRUE
  /\ EndTurn("ERROR")
  /\ UNCHANGED <<build, driver, timer, task, led_left, panel, conf, sleep, fault>>

(* sm_main_error blinks and does not kick the watchdog. *)
ErrorTurn ==
  /\ state = "ERROR" /\ pc = "start"
  /\ led' = TRUE
  /\ EndTurn("ERROR")
  /\ UNCHANGED <<build, driver, timer, task, led_left, panel, conf, unkicked, sleep, fault>>

-----------------------------------------------------------------------------
(* The BLE task, a request at a time. *)

(* syshal_gps_wake_up up to its delay. *)
BleWakes ==
  /\ advertising /\ ble = "idle"
  /\ IF IsAwake THEN UNCHANGED <<pin, ble>> ELSE pin' = "high" /\ ble' = "delay"
  /\ IF IsAwake THEN Resumed ELSE UNCHANGED <<pc, sleep>>
  /\ SameState
  /\ UNCHANGED <<gps, timer, advertising, light, panel, conf, unkicked, fault>>

(* After the delay, which is longer than the shutdown takes. *)
BleStarts ==
  /\ ble = "delay" /\ pc \notin Turning
  /\ gps' = "ACQUIRING" /\ ble' = "started"
  /\ SameState
  /\ UNCHANGED <<pc, pin, timer, advertising, light, panel, conf, unkicked, sleep, fault>>

(* The event POWERED_ON, and the end of the callback. *)
BleResumes ==
  /\ ble = "started"
  /\ since' = 0 /\ wrapped' = FALSE
  /\ ble' = "idle"
  /\ Resumed /\ SameState
  /\ UNCHANGED <<driver, advertising, light, panel, conf, unkicked, fault>>

BleConfig ==
  /\ advertising /\ ble = "idle"
  /\ Received
  /\ Resumed /\ SameState
  /\ UNCHANGED <<driver, timer, task, light, panel, unkicked, fault>>

-----------------------------------------------------------------------------
(* Time. *)

Later(s) == IF s < MaxSession + 1 THEN s + 1 ELSE s

(* A second passes: in a turn, or asleep until the alarm. *)
Pass ==
  /\ IF Awake THEN unkicked < TickMax /\ unkicked' = unkicked + 1 /\ UNCHANGED slept
     ELSE slept < wake_by /\ slept' = slept + 1 /\ UNCHANGED unkicked
  /\ since' = Later(since)
  /\ led_left' = IF led_left > 0 THEN led_left - 1 ELSE 0
  /\ SameState
  /\ UNCHANGED <<pc, driver, wrapped, task, led, panel, conf, wake_by, fault>>

(* The uptime counter wraps. *)
Wrap ==
  /\ gps # "ASLEEP" /\ ~wrapped
  /\ wrapped' = TRUE
  /\ SameState
  /\ UNCHANGED <<pc, driver, since, task, light, panel, conf, unkicked, sleep, fault>>

(* The steps of the main task. *)
Main ==
  \/ Boot \/ BootFails
  \/ Provision \/ ConfigureGps \/ ConfigureDrivers \/ SatFails \/ LaterEntry \/ LeaveProvisioning
  \/ BeginTurn \/ GpsTick \/ GpsFixed \/ GpsTimeout \/ SatTick \/ ScreenTick \/ SchedulerTick \/ Rest
  \/ Suspend \/ AlarmWake \/ Leave \/ Left
  \/ WakeDone \/ ShutdownDone
  \/ BatteryTurn \/ ErrorTurn

Resets == WatchdogReset \/ HwReset

Ble == BleWakes \/ BleStarts \/ BleResumes \/ BleConfig

Next == Main \/ Resets \/ OtherWake \/ Ble \/ Pass \/ Wrap

(* The main task runs whenever it is not suspended, time passes, and the    *)
(* watchdogs act when their time is over.                                   *)
Fairness == WF_vars(Main) /\ WF_vars(Pass) /\ WF_vars(Resets)

Spec == Init /\ [][Next]_vars /\ Fairness

-----------------------------------------------------------------------------
(* Properties. *)

(* The type invariant. *)
TypeOK ==
  /\ build \in Builds
  /\ state \in States /\ next \in States /\ first \in BOOLEAN /\ pc \in Turn
  /\ gps \in {"UNINIT", "ASLEEP", "ACQUIRING", "FIXED_RAW", "FIXED"}
  /\ pin \in {"low", "high"}
  /\ since \in 0 .. MaxSession + 1 /\ wrapped \in BOOLEAN
  /\ ble \in {"idle", "delay", "started"} /\ advertising \in BOOLEAN
  /\ led \in BOOLEAN /\ led_left \in 0 .. LedTime
  /\ screen \in {"UNINIT", "DISPLAYING", "ASLEEP"} /\ request_screen \in BOOLEAN
  /\ new_config_available \in BOOLEAN /\ config \in {"default", "received"}
  /\ unkicked \in 0 .. TickMax
  /\ slept \in 0 .. HwTimeout /\ wake_by \in {0, Active, Hard, HwTimeout}
  /\ fault \in BOOLEAN

(* The receiver is never left powered with the driver taking it for shut    *)
(* down (syshal_gps.cpp:146 would then never take its power), although two  *)
(* tasks wake it and one shuts it down, each in several steps.              *)
NeverLeftPowered ==
  pin = "high" /\ ble = "idle" /\ pc \notin Waking => gps \notin {"UNINIT", "ASLEEP"}

(* The battery is never drained by a session: once awake the receiver is    *)
(* shut down within the timeout and the turns and sleep that may come       *)
(* before the check, whatever the other task does, also when the counter    *)
(* wraps, the session is restarted, or the tracker fell asleep over it.     *)
(* Only in the low battery state, where nobody looks, it may stay on.       *)
SessionBound ==
  pin = "high" /\ ble = "idle" /\ pc \notin Waking /\ state # "BATTERY_LEVEL_LOW" => since <= MaxSession

(* The tracker gives up only when a device has failed, or when it configures *)
(* a screen it has shut down itself: in particular the receiver is awake     *)
(* when it is configured, whatever the BLE task does.                        *)
ErrorOnlyByFault == state = "ERROR" => fault \/ screen = "ASLEEP"

(* The state ERROR is no end: the soft watchdog resets the tracker. *)
ErrorResets == state = "ERROR" ~> state = "BOOT"

(* A configuration that arrives in the operational state ends the state,    *)
(* also when it arrives while the tracker is about to fall asleep.          *)
ConfigServed == state = "OPERATIONAL" /\ new_config_available ~> state # "OPERATIONAL"

(* "Remotely configurable thanks to satellite downlink (user can set the    *)
(* tracker configuration such as acquisition rates)" (README.md:64): no     *)
(* device having failed, a received configuration does not end in the state *)
(* ERROR, which resets the tracker to its default configuration.            *)
Reconfigured == config = "received" => state # "ERROR"
=============================================================================

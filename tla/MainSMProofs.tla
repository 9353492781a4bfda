---------------------------- MODULE MainSMProofs ----------------------------
(***************************************************************************)
(* Proofs about MainSM, for any timeouts and any build: the receiver is    *)
(* not left powered, a session is bounded, and the tracker gives up only   *)
(* for a reason.                                                           *)
(***************************************************************************)
EXTENDS MainSM, TLAPS

(* Which state each point of a turn belongs to. *)
Provisioning == {"wake_config", "config", "off_config", "drivers", "led"}

StateInv ==
  /\ state = "BOOT" => pc = "start" /\ pin = "low" /\ ble = "idle" /\ ~advertising
  /\ state = "ERROR" => pc = "start"
  /\ pc \in Provisioning => state = "PROVISIONING"
  /\ pc \notin Provisioning \cup {"start", "asleep"} => state = "OPERATIONAL"
  /\ pc = "asleep" => state \in {"OPERATIONAL", "BATTERY_LEVEL_LOW"} /\ slept <= wake_by
  /\ next \in {state, "BATTERY_LEVEL_LOW"}
  /\ pc = "config" => gps # "ASLEEP"

(* A receiver that has power while the driver takes it for shut down is     *)
(* being woken up, and so is one that gets it back while it is shut down.   *)
PowerInv ==
  /\ pin = "high" /\ gps \in {"UNINIT", "ASLEEP"} => ble = "delay" \/ pc \in Waking
  /\ pin = "high" /\ pc \in Turning => ble = "delay"

(* How long a session may have lasted at each point. *)
InSession == pin = "high" /\ ble = "idle" /\ pc \notin Waking /\ state # "BATTERY_LEVEL_LOW"

Limit == MaxSession - 2 * TickMax

TurnInv ==
  /\ pc \in {"start", "leave", "left"} => since <= Limit + unkicked
  /\ pc \in {"tick", "fixed", "timeout"} => since <= Limit + TickMax + unkicked
  /\ pc \in {"sat", "screen_tick", "sched", "rest"} => since <= PvtTimeout + unkicked
  /\ pc \in {"suspend", "asleep"} =>
       since <= (IF wake_by = Active THEN PvtTimeout ELSE 0) + unkicked + (IF pc = "asleep" THEN slept ELSE 0)

ProvisioningInv ==
  /\ pc = "start" /\ first => since <= Limit + unkicked
  /\ pc = "config" => since <= Limit + TickMax + unkicked
  /\ pc \in {"drivers", "led"} \/ (pc = "start" /\ ~first) =>
       IF led_left > 0 THEN since <= LedTime - led_left
       ELSE since <= LedTime + unkicked + (IF pc = "led" THEN TickMax ELSE 0)

SessionInv ==
  InSession =>
    /\ state = "OPERATIONAL" => TurnInv
    /\ state = "PROVISIONING" => ProvisioningInv
    /\ state \notin {"OPERATIONAL", "PROVISIONING"} => since <= Limit + TickMax + unkicked

MainInv == TypeOK /\ StateInv /\ PowerInv /\ SessionInv /\ ErrorOnlyByFault

-----------------------------------------------------------------------------
LEMMA After ==
  /\ Waking = {"wake_config", "wake_screen", "wake_sched"}
  /\ Turning = {"off_config", "off_fixed", "off_timeout", "off_leave"}
  /\ AfterWake["wake_config"] = "config" /\ AfterWake["wake_screen"] = "sched"
  /\ AfterWake["wake_sched"] = "rest"
  /\ AfterOff["off_config"] = "drivers" /\ AfterOff["off_fixed"] = "timeout"
  /\ AfterOff["off_timeout"] = "sat" /\ AfterOff["off_leave"] = "left"
BY DEF Waking, Turning, AfterWake, AfterOff

(* The type invariant in two parts, which different provers settle. *)
Flags ==
  /\ first \in BOOLEAN /\ wrapped \in BOOLEAN /\ advertising \in BOOLEAN /\ led \in BOOLEAN
  /\ request_screen \in BOOLEAN /\ new_config_available \in BOOLEAN /\ fault \in BOOLEAN

Ranges ==
  /\ build \in Builds
  /\ state \in States /\ next \in States /\ pc \in Turn
  /\ gps \in {"UNINIT", "ASLEEP", "ACQUIRING", "FIXED_RAW", "FIXED"}
  /\ pin \in {"low", "high"}
  /\ since \in 0 .. MaxSession + 1
  /\ ble \in {"idle", "delay", "started"}
  /\ led_left \in 0 .. LedTime
  /\ screen \in {"UNINIT", "DISPLAYING", "ASLEEP"}
  /\ config \in {"default", "received"}
  /\ unkicked \in 0 .. TickMax
  /\ slept \in 0 .. HwTimeout /\ wake_by \in {0, Active, Hard, HwTimeout}

LEMMA TypeParts == /\ TypeOK <=> Flags /\ Ranges
                   /\ TypeOK' <=> Flags' /\ Ranges'
BY DEF TypeOK, Flags, Ranges

LEMMA InitInv == Init => MainInv
<1> SUFFICES ASSUME Init PROVE MainInv
  OBVIOUS
<1>1. Flags
  BY Zenon DEF Init, Flags
<1>2. Ranges
  BY TimesAssumption, SessionAssumption DEF Init, Ranges, States, Turn
<1>3. StateInv /\ PowerInv /\ ErrorOnlyByFault
  BY DEF Init, StateInv, Provisioning, PowerInv, ErrorOnlyByFault
<1>4. SessionInv
  BY DEF Init, SessionInv, InSession
<1> QED
  BY <1>1, <1>2, <1>3, <1>4, TypeParts DEF MainInv

LEMMA FlagsStep ==
  ASSUME Flags, [Next]_vars
  PROVE  Flags'
<1> USE DEF Flags, driver, timer, task, light, panel, conf, sleep, SameState, Continue, EndTurn, Throw
<1>1. CASE Boot \/ BootFails
  BY <1>1, Zenon DEF Boot, BootFails
<1>2. CASE Provision \/ LaterEntry \/ LeaveProvisioning
  BY <1>2, Zenon DEF Provision, LaterEntry, LeaveProvisioning, IsAwake
<1>3. CASE ConfigureGps
  BY <1>3, Zenon DEF ConfigureGps, MainShutsDown
<1>4. CASE ConfigureDrivers \/ SatFails
  BY <1>4, Zenon DEF ConfigureDrivers, SatFails, Received
<1>5. CASE BeginTurn \/ GpsTick
  BY <1>5, Zenon DEF BeginTurn, GpsTick
<1>6. CASE GpsFixed \/ GpsTimeout
  BY <1>6, Zenon DEF GpsFixed, GpsTimeout, MainShutsDown
<1>7. CASE SatTick
  BY <1>7, Zenon DEF SatTick, Received
<1>8. CASE ScreenTick \/ SchedulerTick
  BY <1>8, Zenon DEF ScreenTick, SchedulerTick, MainWakes
<1>9. CASE Rest
  <2>1. led' = TRUE \/ led' = FALSE
    BY <1>9 DEF Rest
  <2> QED
    BY <1>9, <2>1, Zenon DEF Rest
<1>10. CASE Suspend \/ AlarmWake \/ OtherWake
  BY <1>10, Zenon DEF Suspend, AlarmWake, OtherWake, Resumed
<1>11. CASE Leave \/ Left
  BY <1>11, Zenon DEF Leave, Left, MainShutsDown
<1>12. CASE WakeDone \/ ShutdownDone
  BY <1>12, Zenon DEF WakeDone, ShutdownDone
<1>13. CASE BatteryTurn \/ ErrorTurn
  BY <1>13, Zenon DEF BatteryTurn, ErrorTurn
<1>14. CASE Resets
  BY <1>14, Zenon DEF Resets, WatchdogReset, HwReset, Reset
<1>15. CASE Ble
  BY <1>15, Zenon DEF Ble, BleWakes, BleStarts, BleResumes, BleConfig, Resumed, Received
<1>16. CASE Pass
  BY <1>16, Zenon DEF Pass, Later, Awake
<1>17. CASE Wrap
  BY <1>17, Zenon DEF Wrap
<1>18. CASE UNCHANGED vars
  BY <1>18, Zenon DEF vars
<1> QED
  BY <1>1, <1>2, <1>3, <1>4, <1>5, <1>6, <1>7, <1>8, <1>9, <1>10, <1>11, <1>12, <1>13, <1>14, <1>15, <1>16, <1>17, <1>18
  DEF Next, Main


LEMMA RangesStep ==
  ASSUME Ranges, [Next]_vars
  PROVE  Ranges'
<1> USE TimesAssumption, SessionAssumption, After
    DEF Ranges, driver, timer, task, light, panel, conf, sleep, SameState, Continue, EndTurn, Throw, States, Turn
<1>1. CASE Boot \/ BootFails
  BY <1>1 DEF Boot, BootFails
<1>2. CASE Provision \/ LaterEntry \/ LeaveProvisioning
  BY <1>2 DEF Provision, LaterEntry, LeaveProvisioning, IsAwake
<1>3. CASE ConfigureGps
  BY <1>3 DEF ConfigureGps, MainShutsDown
<1>4. CASE ConfigureDrivers \/ SatFails
  BY <1>4 DEF ConfigureDrivers, SatFails, Received
<1>5. CASE BeginTurn \/ GpsTick
  BY <1>5 DEF BeginTurn, GpsTick
<1>6. CASE GpsFixed \/ GpsTimeout
  BY <1>6 DEF GpsFixed, GpsTimeout, MainShutsDown
<1>7. CASE SatTick
  BY <1>7 DEF SatTick, Received
<1>8. CASE ScreenTick \/ SchedulerTick
  BY <1>8 DEF ScreenTick, SchedulerTick, MainWakes
<1>9. CASE Rest
  BY <1>9 DEF Rest
<1>10. CASE Suspend \/ AlarmWake \/ OtherWake
  BY <1>10 DEF Suspend, AlarmWake, OtherWake, Resumed
<1>11. CASE Leave \/ Left
  BY <1>11 DEF Leave, Left, MainShutsDown
<1>12. CASE WakeDone \/ ShutdownDone
  BY <1>12 DEF WakeDone, ShutdownDone
<1>13. CASE BatteryTurn \/ ErrorTurn
  BY <1>13 DEF BatteryTurn, ErrorTurn
<1>14. CASE Resets
  BY <1>14 DEF Resets, WatchdogReset, HwReset, Reset
<1>15. CASE Ble
  BY <1>15 DEF Ble, BleWakes, BleStarts, BleResumes, BleConfig, Resumed, Received
<1>16. CASE Pass
  BY <1>16 DEF Pass, Later, Awake
<1>17. CASE Wrap
  BY <1>17 DEF Wrap
<1>18. CASE UNCHANGED vars
  BY <1>18 DEF vars
<1> QED
  BY <1>1, <1>2, <1>3, <1>4, <1>5, <1>6, <1>7, <1>8, <1>9, <1>10, <1>11, <1>12, <1>13, <1>14, <1>15, <1>16, <1>17, <1>18
  DEF Next, Main

LEMMA StateStep ==
  ASSUME TypeOK, StateInv, [Next]_vars
  PROVE  StateInv'
<1> USE TimesAssumption, After
    DEF TypeOK, StateInv, Provisioning, driver, timer, task, light, panel, conf, sleep,
        SameState, Continue, EndTurn, Throw, States, Turn
<1>1. CASE Boot \/ BootFails
  BY <1>1 DEF Boot, BootFails
<1>2. CASE Provision \/ LaterEntry \/ LeaveProvisioning
  BY <1>2 DEF Provision, LaterEntry, LeaveProvisioning, IsAwake
<1>3. CASE ConfigureGps
  BY <1>3 DEF ConfigureGps, MainShutsDown
<1>4. CASE ConfigureDrivers \/ SatFails
  BY <1>4 DEF ConfigureDrivers, SatFails, Received
<1>5. CASE BeginTurn \/ GpsTick
  BY <1>5 DEF BeginTurn, GpsTick
<1>6. CASE GpsFixed \/ GpsTimeout
  BY <1>6 DEF GpsFixed, GpsTimeout, MainShutsDown
<1>7. CASE SatTick
  BY <1>7 DEF SatTick, Received
<1>8. CASE ScreenTick \/ SchedulerTick
  BY <1>8 DEF ScreenTick, SchedulerTick, MainWakes
<1>9. CASE Rest
  BY <1>9 DEF Rest
<1>10. CASE Suspend \/ AlarmWake \/ OtherWake
  BY <1>10 DEF Suspend, AlarmWake, OtherWake, Resumed
<1>11. CASE Leave \/ Left
  BY <1>11 DEF Leave, Left, MainShutsDown
<1>12. CASE WakeDone \/ ShutdownDone
  BY <1>12 DEF WakeDone, ShutdownDone
<1>13. CASE BatteryTurn \/ ErrorTurn
  BY <1>13 DEF BatteryTurn, ErrorTurn
<1>14. CASE Resets
  BY <1>14 DEF Resets, WatchdogReset, HwReset, Reset
<1>15. CASE Ble
  BY <1>15 DEF Ble, BleWakes, BleStarts, BleResumes, BleConfig, Resumed, Received
<1>16. CASE Pass
  BY <1>16 DEF Pass, Later, Awake
<1>17. CASE Wrap
  BY <1>17 DEF Wrap
<1>18. CASE UNCHANGED vars
  BY <1>18 DEF vars
<1> QED
  BY <1>1, <1>2, <1>3, <1>4, <1>5, <1>6, <1>7, <1>8, <1>9, <1>10, <1>11, <1>12, <1>13, <1>14, <1>15, <1>16, <1>17, <1>18
  DEF Next, Main

LEMMA TypeStep ==
  ASSUME TypeOK, [Next]_vars
  PROVE  TypeOK'
BY FlagsStep, RangesStep, TypeParts

LEMMA PowerStep ==
  ASSUME TypeOK, StateInv, PowerInv, [Next]_vars
  PROVE  PowerInv'
<1> USE After DEF Ranges, StateInv, PowerInv, Provisioning, driver, timer, task, light, panel, conf, sleep,
                  SameState, Continue, EndTurn, Throw
<1>0. Ranges
  BY TypeParts
<1>1. CASE Boot \/ BootFails
  BY <1>0, <1>1 DEF Boot, BootFails
<1>2. CASE Provision \/ LaterEntry \/ LeaveProvisioning
  BY <1>0, <1>2 DEF Provision, LaterEntry, LeaveProvisioning, IsAwake
<1>3. CASE ConfigureGps
  BY <1>0, <1>3 DEF ConfigureGps, MainShutsDown
<1>4. CASE ConfigureDrivers \/ SatFails
  BY <1>0, <1>4 DEF ConfigureDrivers, SatFails, Received
<1>5. CASE BeginTurn \/ GpsTick
  BY <1>0, <1>5 DEF BeginTurn, GpsTick
<1>6. CASE GpsFixed \/ GpsTimeout
  BY <1>0, <1>6 DEF GpsFixed, GpsTimeout, MainShutsDown
<1>7. CASE SatTick
  BY <1>0, <1>7 DEF SatTick, Received
<1>8. CASE ScreenTick \/ SchedulerTick
  BY <1>0, <1>8 DEF ScreenTick, SchedulerTick, MainWakes
<1>9. CASE Rest
  BY <1>0, <1>9 DEF Rest
<1>10. CASE Suspend \/ AlarmWake \/ OtherWake
  BY <1>0, <1>10 DEF Suspend, AlarmWake, OtherWake, Resumed
<1>11. CASE Leave \/ Left
  BY <1>0, <1>11 DEF Leave, Left, MainShutsDown
<1>12. CASE WakeDone \/ ShutdownDone
  BY <1>0, <1>12 DEF WakeDone, ShutdownDone
<1>13. CASE BatteryTurn \/ ErrorTurn
  BY <1>0, <1>13 DEF BatteryTurn, ErrorTurn
<1>14. CASE Resets
  BY <1>0, <1>14 DEF Resets, WatchdogReset, HwReset, Reset
<1>15. CASE Ble
  BY <1>0, <1>15 DEF Ble, BleWakes, BleStarts, BleResumes, BleConfig, Resumed, Received
<1>16. CASE Pass
  BY <1>0, <1>16 DEF Pass, Later, Awake
<1>17. CASE Wrap
  BY <1>0, <1>17 DEF Wrap
<1>18. CASE UNCHANGED vars
  BY <1>0, <1>18 DEF vars
<1> QED
  BY <1>1, <1>2, <1>3, <1>4, <1>5, <1>6, <1>7, <1>8, <1>9, <1>10, <1>11, <1>12, <1>13, <1>14, <1>15, <1>16, <1>17, <1>18
  DEF Next, Main


LEMMA ErrorStep ==
  ASSUME TypeOK, StateInv, ErrorOnlyByFault, [Next]_vars
  PROVE  ErrorOnlyByFault'
<1> USE After DEF StateInv, Provisioning, ErrorOnlyByFault, driver, timer, task, light, panel, conf, sleep,
                  SameState, Continue, EndTurn, Throw
<1>1. CASE Boot \/ BootFails
  BY <1>1 DEF Boot, BootFails
<1>2. CASE Provision \/ LaterEntry \/ LeaveProvisioning
  BY <1>2 DEF Provision, LaterEntry, LeaveProvisioning, IsAwake
<1>3. CASE ConfigureGps
  BY <1>3 DEF ConfigureGps, MainShutsDown
<1>4. CASE ConfigureDrivers \/ SatFails
  BY <1>4 DEF ConfigureDrivers, SatFails, Received
<1>5. CASE BeginTurn \/ GpsTick
  BY <1>5 DEF BeginTurn, GpsTick
<1>6. CASE GpsFixed \/ GpsTimeout
  BY <1>6 DEF GpsFixed, GpsTimeout, MainShutsDown
<1>7. CASE SatTick
  BY <1>7 DEF SatTick, Received
<1>8. CASE ScreenTick \/ SchedulerTick
  BY <1>8 DEF ScreenTick, SchedulerTick, MainWakes
<1>9. CASE Rest
  BY <1>9 DEF Rest
<1>10. CASE Suspend \/ AlarmWake \/ OtherWake
  BY <1>10 DEF Suspend, AlarmWake, OtherWake, Resumed
<1>11. CASE Leave \/ Left
  BY <1>11 DEF Leave, Left, MainShutsDown
<1>12. CASE WakeDone \/ ShutdownDone
  BY <1>12 DEF WakeDone, ShutdownDone
<1>13. CASE BatteryTurn \/ ErrorTurn
  BY <1>13 DEF BatteryTurn, ErrorTurn
<1>14. CASE Resets
  BY <1>14 DEF Resets, WatchdogReset, HwReset, Reset
<1>15. CASE Ble
  BY <1>15 DEF Ble, BleWakes, BleStarts, BleResumes, BleConfig, Resumed, Received
<1>16. CASE Pass
  BY <1>16 DEF Pass, Later, Awake
<1>17. CASE Wrap
  BY <1>17 DEF Wrap
<1>18. CASE UNCHANGED vars
  BY <1>18 DEF vars
<1> QED
  BY <1>1, <1>2, <1>3, <1>4, <1>5, <1>6, <1>7, <1>8, <1>9, <1>10, <1>11, <1>12, <1>13, <1>14, <1>15, <1>16, <1>17, <1>18
  DEF Next, Main

(* Seconds are natural numbers, and MaxSession has room for each way a      *)
(* session can last.                                                        *)
LEMMA Limits ==
  ASSUME Ranges
  PROVE  /\ {since, led_left, unkicked, slept, wake_by, PvtTimeout, Active, TickMax, LedTime, MaxSession, Limit} \subseteq Nat
         /\ unkicked <= TickMax /\ slept <= HwTimeout /\ led_left <= LedTime
         /\ HwTimeout \in Nat /\ Hard \in Nat
         /\ Limit + 2 * TickMax = MaxSession
         /\ PvtTimeout + Active <= Limit /\ HwTimeout <= Limit /\ LedTime + TickMax <= Limit
         /\ wake_by \in {0, Active, Hard, HwTimeout} /\ wake_by <= HwTimeout
BY TimesAssumption, SessionAssumption DEF Ranges, Limit

LEMMA SessionStep ==
  ASSUME TypeOK, StateInv, PowerInv, SessionInv, [Next]_vars
  PROVE  SessionInv'
<1> USE After DEF StateInv, PowerInv, SessionInv, InSession, TurnInv, ProvisioningInv, Provisioning,
                  driver, timer, task, light, panel, conf, sleep, SameState, Continue, EndTurn, Throw
<1>0. Ranges /\ Ranges'
  BY TypeStep, TypeParts
<1>l. /\ {since, led_left, unkicked, slept, wake_by, PvtTimeout, Active, TickMax, LedTime, MaxSession, Limit} \subseteq Nat
      /\ unkicked <= TickMax /\ slept <= HwTimeout /\ led_left <= LedTime
      /\ HwTimeout \in Nat /\ Hard \in Nat
      /\ Limit + 2 * TickMax = MaxSession
      /\ PvtTimeout + Active <= Limit /\ HwTimeout <= Limit /\ LedTime + TickMax <= Limit
      /\ wake_by \in {0, Active, Hard, HwTimeout} /\ wake_by <= HwTimeout
  BY <1>0, Limits
<1>m. Limit' = Limit
  BY DEF Limit
<1>1. CASE Boot \/ BootFails
  BY <1>0, <1>l, <1>m, <1>1 DEF Ranges, Boot, BootFails
<1>2. CASE Provision \/ LaterEntry \/ LeaveProvisioning
  <2>1. CASE Provision
    BY <1>0, <1>l, <1>m, <2>1 DEF Ranges, Provision, IsAwake
  <2>2. CASE LaterEntry
    BY <1>0, <1>l, <1>m, <2>2 DEF Ranges, LaterEntry
  <2>3. CASE LeaveProvisioning
    BY <1>0, <1>l, <1>m, <2>3 DEF Ranges, LeaveProvisioning
  <2> QED
    BY <1>2, <2>1, <2>2, <2>3
<1>3. CASE ConfigureGps
  BY <1>0, <1>l, <1>m, <1>3 DEF Ranges, ConfigureGps, MainShutsDown
<1>4. CASE ConfigureDrivers \/ SatFails
  BY <1>0, <1>l, <1>m, <1>4 DEF Ranges, ConfigureDrivers, SatFails, Received
<1>5. CASE BeginTurn \/ GpsTick
  BY <1>0, <1>l, <1>m, <1>5 DEF Ranges, BeginTurn, GpsTick
<1>6. CASE GpsFixed \/ GpsTimeout
  <2>1. CASE GpsFixed
    BY <1>0, <1>l, <1>m, <2>1 DEF Ranges, GpsFixed, MainShutsDown
  <2>2. CASE GpsTimeout
    BY <1>0, <1>l, <1>m, <2>2 DEF Ranges, GpsTimeout, Exceeds, MainShutsDown
  <2> QED
    BY <1>6, <2>1, <2>2
<1>7. CASE SatTick
  BY <1>0, <1>l, <1>m, <1>7 DEF Ranges, SatTick, Received
<1>8. CASE ScreenTick \/ SchedulerTick
  BY <1>0, <1>l, <1>m, <1>8 DEF Ranges, ScreenTick, SchedulerTick, MainWakes
<1>9. CASE Rest
  BY <1>0, <1>l, <1>m, <1>9 DEF Ranges, Rest
<1>10. CASE Suspend \/ AlarmWake \/ OtherWake
  BY <1>0, <1>l, <1>m, <1>10 DEF Ranges, Suspend, AlarmWake, OtherWake, Resumed
<1>11. CASE Leave \/ Left
  <2>1. CASE Leave
    BY <1>0, <1>l, <1>m, <2>1 DEF Ranges, Leave, MainShutsDown
  <2>2. CASE Left
    BY <1>0, <1>l, <1>m, <2>2 DEF Ranges, Left
  <2> QED
    BY <1>11, <2>1, <2>2
<1>12. CASE WakeDone \/ ShutdownDone
  BY <1>0, <1>l, <1>m, <1>12 DEF Ranges, WakeDone, ShutdownDone
<1>13. CASE BatteryTurn \/ ErrorTurn
  BY <1>0, <1>l, <1>m, <1>13 DEF Ranges, BatteryTurn, ErrorTurn
<1>14. CASE Resets
  BY <1>0, <1>l, <1>m, <1>14 DEF Ranges, Resets, WatchdogReset, HwReset, Reset
<1>15. CASE Ble
  BY <1>0, <1>l, <1>m, <1>15 DEF Ranges, Ble, BleWakes, BleStarts, BleResumes, BleConfig, Resumed, Received
<1>16. CASE Pass
  <2>1. since' \in Nat /\ since' <= since + 1
    BY <1>l, <1>16 DEF Pass, Later
  <2>2. UNCHANGED <<state, first, pc, pin, gps, ble, wake_by>> /\ (InSession' => InSession)
    BY <1>16 DEF Pass
  <2>3. CASE Awake
    <3>1. unkicked' = unkicked + 1 /\ slept' = slept
      BY <1>16, <2>3 DEF Pass
    <3>2. IF led_left > 0 THEN led_left' = led_left - 1 ELSE led_left' = 0 /\ led_left = 0
      BY <1>l, <1>16 DEF Pass, Ranges
    <3>3. pc # "asleep"
      BY <2>3 DEF Awake
    <3> QED
      BY <1>0, <1>l, <1>m, <2>1, <2>2, <3>1, <3>2, <3>3 DEF Ranges
  <2>4. CASE ~Awake
    <3>1. slept' = slept + 1 /\ unkicked' = unkicked /\ pc = "asleep"
      BY <1>16, <2>4 DEF Pass, Awake
    <3> QED
      BY <1>0, <1>l, <1>m, <2>1, <2>2, <3>1 DEF Ranges
  <2> QED
    BY <2>3, <2>4
<1>17. CASE Wrap
  BY <1>0, <1>l, <1>m, <1>17 DEF Ranges, Wrap
<1>18. CASE UNCHANGED vars
  BY <1>0, <1>l, <1>m, <1>18 DEF Ranges, vars
<1> QED
  BY <1>1, <1>2, <1>3, <1>4, <1>5, <1>6, <1>7, <1>8, <1>9, <1>10, <1>11, <1>12, <1>13, <1>14, <1>15, <1>16, <1>17, <1>18
  DEF Next, Main

-----------------------------------------------------------------------------
LEMMA MainInductive == Spec => []MainInv
<1>1. MainInv /\ [Next]_vars => MainInv'
  BY TypeStep, StateStep, PowerStep, SessionStep, ErrorStep DEF MainInv
<1> QED
  BY <1>1, InitInv, PTL DEF Spec

(* Type correctness of the main state machine (sm_main.cpp:954-1399).       *)
THEOREM TypeCorrect == Spec => []TypeOK
<1>1. MainInv => TypeOK
  BY DEF MainInv
<1> QED
  BY <1>1, MainInductive, PTL

(* However the two tasks interleave in syshal_gps_wake_up and               *)
(* syshal_gps_shutdown (syshal_gps.cpp:144-179), the receiver is not left   *)
(* powered behind the back of its driver.                                   *)
THEOREM ReceiverNotLeftPowered == Spec => []NeverLeftPowered
<1>1. MainInv => NeverLeftPowered
  BY DEF MainInv, PowerInv, NeverLeftPowered
<1> QED
  BY <1>1, MainInductive, PTL

(* Whatever the timeouts, and however often the session is restarted, the   *)
(* receiver is not powered longer than MaxSession (sm_main.cpp:1131-1145).  *)
THEOREM SessionsAreBounded == Spec => []SessionBound
<1>1. MainInv => SessionBound
  <2>1. SUFFICES ASSUME MainInv, InSession PROVE since <= MaxSession
    BY DEF SessionBound, InSession
  <2>2. /\ {since, led_left, unkicked, slept, wake_by, PvtTimeout, Active, TickMax, LedTime, MaxSession, Limit} \subseteq Nat
        /\ unkicked <= TickMax /\ slept <= HwTimeout /\ led_left <= LedTime /\ HwTimeout \in Nat
        /\ Limit + 2 * TickMax = MaxSession
        /\ PvtTimeout + Active <= Limit /\ HwTimeout <= Limit /\ LedTime + TickMax <= Limit
    BY <2>1, TypeParts, Limits DEF MainInv
  <2>3. pc \in Turn /\ pc \notin Waking \cup Turning
    BY <2>1, TypeParts DEF MainInv, Ranges, PowerInv, InSession
  <2>4. CASE state = "OPERATIONAL"
    <3>1. TurnInv /\ (pc = "asleep" => slept <= wake_by) /\ pc \notin Provisioning
      BY <2>1, <2>4 DEF MainInv, SessionInv, StateInv
    <3>2. CASE pc \in {"start", "leave", "left", "tick", "fixed", "timeout", "sat", "screen_tick", "sched", "rest"}
      BY <2>2, <3>1, <3>2 DEF TurnInv
    <3>3. CASE pc \in {"suspend", "asleep"}
      BY <2>2, <3>1, <3>3 DEF TurnInv
    <3>4. pc \in {"start", "leave", "left", "tick", "fixed", "timeout", "sat", "screen_tick", "sched", "rest"}
                  \cup {"suspend", "asleep"}
      BY <2>3, <3>1 DEF Turn, Provisioning
    <3> QED
      BY <3>2, <3>3, <3>4
  <2>5. CASE state = "PROVISIONING"
    <3>1. ProvisioningInv /\ pc \in Provisioning \cup {"start"}
      BY <2>1, <2>3, <2>5 DEF MainInv, SessionInv, StateInv
    <3> QED
      BY <2>2, <2>3, <3>1, After DEF ProvisioningInv, Provisioning
  <2>6. CASE state \notin {"OPERATIONAL", "PROVISIONING"}
    BY <2>1, <2>2, <2>6 DEF MainInv, SessionInv
  <2> QED
    BY <2>4, <2>5, <2>6
<1> QED
  BY <1>1, MainInductive, PTL

(* Unless a device fails, only a screen that is configured while it is shut *)
(* down (sm_main.cpp:1012) leads to the state ERROR; the receiver is awake  *)
(* when it is configured (sm_main.cpp:985).                                 *)
THEOREM ErrorsHaveReasons == Spec => []ErrorOnlyByFault
<1>1. MainInv => ErrorOnlyByFault
  BY DEF MainInv
<1> QED
  BY <1>1, MainInductive, PTL

=============================================================================

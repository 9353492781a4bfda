----------------------------- MODULE Scheduler -----------------------------
(***************************************************************************)
(* The scheduler (core/scheduler: the table of cron alarms and the two     *)
(* alarm ids), the clock it reads, and the main loop of the operational    *)
(* state as far as it starts, serves and stops the alarms, sleeps until    *)
(* the next one, and goes back to provisioning for a new configuration.    *)
(*                                                                         *)
(* Time is in whole seconds, those of the RTC.  It passes while the loop   *)
(* is busy and while the tracker sleeps, and jumps when a GNSS fix sets    *)
(* the clock.                                                              *)
(***************************************************************************)
EXTENDS Integers

CONSTANTS
  NbAlarms,         \* dtNBR_ALARMS
  EveryNext(_, _),  \* cron_next for "0 0 */h * * *" after a time
  DateNext(_, _),   \* cron_next for the date of a satellite pass after a time
  Start,            \* RTC_DEFAULT_TIMESTAMP_S
  Timeout,          \* SCHEDULER_ALARM_TIMEOUT_S
  Hard,             \* HARD_WATCHDOG_TIMEOUT_S
  HwTimeout,        \* seconds without a kick after which the hardware watchdog resets
  Active,           \* GPS_ACTIVE_WAKEUP_TIMEOUT_S
  Word,             \* 2^32, the range of the uint32_t the sleep time is computed in
  BusyMax,          \* bound on the seconds an iteration of the loop takes
  MaxTime,          \* bound on the clock
  FixTimes,         \* the times a first fix may set
  Drift,            \* bound on how far a fix sets the clock back
  Intervals,        \* the values of interval_h a user sends
  Builds,           \* the values sm_main_boot may be compiled with
  LateConfig        \* may a configuration arrive at the end of provisioning

ASSUME LimitsAssumption ==
  /\ NbAlarms \in Nat /\ NbAlarms >= 2
  /\ Timeout \in Nat /\ Start \in Nat /\ MaxTime \in Nat /\ BusyMax \in Nat /\ Drift \in Nat
  /\ 0 < Timeout /\ Timeout < Start /\ Start <= MaxTime
  /\ Hard \in Nat \ {0} /\ HwTimeout \in Nat /\ HwTimeout > Hard
  /\ Active \in 1 .. Hard
  /\ Word \in Nat /\ Word > MaxTime + Hard

ASSUME InputsAssumption ==
  /\ FixTimes \subseteq Start .. MaxTime
  /\ Intervals \subseteq Nat
  /\ Builds \subseteq [gps_log : BOOLEAN, predictor : BOOLEAN, pass_time : Nat]
  /\ LateConfig \in BOOLEAN

(* cron_next returns a later time, within the range of time; a later time   *)
(* has a later or the same next one.                                        *)
ASSUME CronAssumption ==
  /\ \A h \in 1 .. 24, t \in 0 .. MaxTime : EveryNext(h, t) \in t + 1 .. Word - 1
  /\ \A h \in 1 .. 24, t \in 0 .. MaxTime, u \in 0 .. MaxTime :
       t <= u => EveryNext(h, t) <= EveryNext(h, u)
  /\ \A b \in Builds, t \in 0 .. MaxTime : DateNext(b.pass_time, t) \in t + 1 .. Word - 1

VARIABLES
  now,                       \* syshal_rtc_return_timestamp
  Alarm,                     \* the alarms of the CronClass
  gps_start_id, satpass_start_id,      \* scheduler_alarm_*_start_id
  gps_start_expr, satpass_start_expr,  \* scheduler_alarm_*_start_cron_expr, 0 if empty
  servicedCronId,            \* the loop of serviceAlarms
  build,                     \* gps_log_position_enable, satpass_predictor_enable, pass time at boot
  interval_h,                \* gps_scheduler_settings, written when a configuration arrives
  new_config_available,
  predictor,                 \* satpass_predictor_enable
  gps_awake,                 \* is the GNSS receiver powered
  pc,                        \* stage of the state machine and of its loop
  wake_at, armed,            \* the compare register; will the RTC still match it
  slept,                     \* seconds since the hardware watchdog was kicked for sleep
  screen,                    \* did the screen display when the loop went to rest
  last_gps,                  \* history: when the GNSS alarm was last created or served
  peak                       \* history: the latest time the clock has shown

clock   == <<now, peak>>
table   == <<Alarm, gps_start_id, satpass_start_id, last_gps>>
exprs   == <<gps_start_expr, satpass_start_expr>>
config  == <<interval_h, new_config_available>>
sleep   == <<wake_at, armed, slept, screen>>
vars    == <<clock, table, exprs, servicedCronId, build, config, predictor, gps_awake, pc, sleep>>

Provisioning == {"provisioning", "provisioned"}
Loop   == {"gps", "service", "reap", "busy", "rest", "suspend", "asleep", "woken"}
Stages == Provisioning \cup {"entry"} \cup Loop

-----------------------------------------------------------------------------
(* The table of alarms. *)

AlarmIds == 0 .. NbAlarms - 1
Invalid  == NbAlarms      \* dtINVALID_ALARM_ID: any id outside the table

(* isEnabled is set by create and cleared by free, and so is left out.      *)
FreeAlarm == [handler |-> "none", next |-> 0, oneShot |-> FALSE, expr |-> 0]

Allocated(a, id) == id \in AlarmIds /\ a[id].handler # "none"

Freed(a, id) == [k \in AlarmIds |-> IF k = id THEN FreeAlarm ELSE a[k]]

CronNext(handler, expr, t) ==
  IF handler = "gps" THEN EveryNext(expr, t) ELSE DateNext(expr, t)

(* Variant: a time that is just now counts as not yet past. *)
NextTriggerKept(al, t) ==
  IF al.next < t THEN [al EXCEPT !.next = CronNext(al.handler, al.expr, t)] ELSE al

(* Variant: the next time is computed from a next time. *)
NextTriggerTwice(al, t) ==
  IF al.next <= t
  THEN [al EXCEPT !.next = CronNext(al.handler, al.expr, CronNext(al.handler, al.expr, t))] ELSE al

(* updateNextTrigger: a time that is not yet past is kept. *)
NextTriggerUpdated(al, t) ==
  IF al.next <= t THEN [al EXCEPT !.next = CronNext(al.handler, al.expr, t)] ELSE al

(* CronClass::create: the id it returns for a table, and the table with the *)
(* alarm in it.  An empty expression is refused.                            *)
CreateId(a, expr) ==
  LET free == {k \in AlarmIds : ~Allocated(a, k)}
  IN  IF free = {} \/ expr = 0 THEN Invalid
      ELSE CHOOSE k \in free : \A j \in free : k <= j

Created(a, id, handler, expr, oneShot) ==
  [k \in AlarmIds |->
     IF k = id THEN [handler |-> handler, next |-> CronNext(handler, expr, now),
                     oneShot |-> oneShot, expr |-> expr]
               ELSE a[k]]

(* getNextTrigger: the earliest alarm, the first of those at the same time. *)
IsNextTrigger(a, id) ==
  /\ Allocated(a, id)
  /\ \A j \in AlarmIds : Allocated(a, j) =>
        \/ a[id].next < a[j].next
        \/ a[id].next = a[j].next /\ id <= j

(* scheduler_get_timestamp_next_alarm: 0 if there is none. *)
NextAlarm(t) ==
  \/ t = 0 /\ \A id \in AlarmIds : ~Allocated(Alarm, id)
  \/ \E id \in AlarmIds : IsNextTrigger(Alarm, id) /\ t = Alarm[id].next

-----------------------------------------------------------------------------
Init ==
  /\ build \in Builds
  /\ now = Start /\ peak = Start
  /\ Alarm = [id \in AlarmIds |-> FreeAlarm]
  /\ gps_start_id = Invalid /\ satpass_start_id = Invalid
  /\ gps_start_expr = 0 /\ satpass_start_expr = 0
  /\ servicedCronId = 0
  /\ interval_h = 24 /\ new_config_available = FALSE
  /\ predictor = build.predictor
  /\ gps_awake = FALSE
  /\ pc = "provisioning"
  /\ wake_at = 0 /\ armed = FALSE /\ slept = 0 /\ screen = FALSE
  /\ last_gps = Start

(* The iteration, or the code between two stages, takes some seconds. *)
Takes(s) ==
  /\ now' \in now .. now + s /\ now' <= MaxTime
  /\ peak' = IF now' > peak THEN now' ELSE peak

(* Variant: the configuration is stored and not flagged. *)
ReceiveConfigQuietly ==
  /\ LateConfig \/ pc # "provisioned"
  /\ \E h \in Intervals : interval_h' = h
  /\ UNCHANGED <<clock, table, exprs, servicedCronId, build, new_config_available, predictor, gps_awake,
                 pc, sleep>>

(* A configuration packet, in the BLE task or in the tick of the satellite  *)
(* modem.                                                                   *)
ReceiveConfig ==
  /\ LateConfig \/ pc # "provisioned"
  /\ \E h \in Intervals : interval_h' = h
  /\ new_config_available' = TRUE
  /\ UNCHANGED <<clock, table, exprs, servicedCronId, build, predictor, gps_awake, pc, sleep>>

(* sm_main_provisioning, first entry: both update_config.  No alarm exists, *)
(* so there is none to restart and scheduler_tick finds nothing to do.  A   *)
(* value out of range is refused and the last expression stays.             *)
Provision ==
  /\ pc = "provisioning"
  /\ gps_start_expr' = IF interval_h \in 1 .. 24 THEN interval_h ELSE gps_start_expr
  /\ satpass_start_expr' = IF build.pass_time > now THEN build.pass_time ELSE satpass_start_expr
  /\ Takes(BusyMax)
  /\ pc' = "provisioned"
  /\ UNCHANGED <<table, servicedCronId, build, config, predictor, gps_awake, sleep>>

(* sm_main_provisioning, last entry, when the LED sequence is over. *)
LeaveProvisioning ==
  /\ pc = "provisioned"
  /\ new_config_available' = FALSE
  /\ pc' = "entry"
  /\ UNCHANGED <<clock, table, exprs, servicedCronId, build, interval_h, predictor, gps_awake, sleep>>

(* scheduler_gps_start: an id that names an allocated alarm is kept. *)
GpsStarted ==
  IF ~build.gps_log \/ Allocated(Alarm, gps_start_id)
  THEN [alarms |-> Alarm, id |-> gps_start_id]
  ELSE LET k == CreateId(Alarm, gps_start_expr)
       IN  [alarms |-> Created(Alarm, k, "gps", gps_start_expr, FALSE), id |-> k]

(* scheduler_satpass_start, or scheduler_satpass_stop without the predictor. *)
SatpassStarted(a) ==
  LET k == CreateId(a, satpass_start_expr)
  IN  CASE Allocated(a, satpass_start_id) /\ ~predictor ->
             [alarms |-> Freed(a, satpass_start_id), id |-> Invalid]
        [] ~Allocated(a, satpass_start_id) /\ predictor ->
             [alarms |-> Created(a, k, "satpass", satpass_start_expr, TRUE), id |-> k]
        [] OTHER -> [alarms |-> a, id |-> satpass_start_id]

(* sm_main_operational, first entry. *)
Enter ==
  /\ pc = "entry"
  /\ LET g == GpsStarted
         s == SatpassStarted(g.alarms)
     IN  /\ Alarm' = s.alarms
         /\ gps_start_id' = g.id
         /\ satpass_start_id' = s.id
  /\ last_gps' = IF Allocated(Alarm, gps_start_id) THEN last_gps ELSE now
  /\ gps_awake' = (gps_awake /\ build.gps_log)
  /\ pc' = "gps"
  /\ UNCHANGED <<clock, exprs, servicedCronId, build, config, predictor, sleep>>

-----------------------------------------------------------------------------
(* The loop of the operational state. *)

(* A 3D fix sets the clock: for the first time, or by what it has drifted.  *)
(* The receiver is shut down.                                               *)
Fix ==
  /\ pc = "gps" /\ build.gps_log /\ gps_awake
  /\ \/ now' \in FixTimes /\ now' > now
     \/ now' \in now - Drift .. now /\ now' >= Start
  /\ peak' = IF now' > peak THEN now' ELSE peak
  /\ gps_awake' = FALSE
  /\ pc' = "service" /\ servicedCronId' = 0
  /\ UNCHANGED <<table, exprs, build, config, predictor, sleep>>

(* No fix yet; or a raw sample or the timeout ends the session. *)
NoFix ==
  /\ pc = "gps"
  /\ gps_awake' \in IF build.gps_log /\ gps_awake THEN BOOLEAN ELSE {gps_awake}
  /\ pc' = "service" /\ servicedCronId' = 0
  /\ UNCHANGED <<clock, table, exprs, build, config, predictor, sleep>>

Due(al) == al.handler # "none" /\ now >= al.next

(* Variant: the loop runs one alarm too far. *)
SkipAlarmTooFar ==
  /\ pc = "service"
  /\ servicedCronId \in AlarmIds => ~Due(Alarm[servicedCronId])
  /\ servicedCronId' = servicedCronId + 1
  /\ UNCHANGED <<clock, table, exprs, build, config, predictor, gps_awake, pc, sleep>>

(* serviceAlarms at an alarm that is not due. *)
SkipAlarm ==
  /\ pc = "service" /\ servicedCronId \in AlarmIds
  /\ ~Due(Alarm[servicedCronId])
  /\ servicedCronId' = servicedCronId + 1
  /\ UNCHANGED <<clock, table, exprs, build, config, predictor, gps_awake, pc, sleep>>

(* serviceAlarms at the GNSS alarm when it is due: it is moved to its next  *)
(* time, then the handler powers the receiver up, which takes a while.      *)
ServiceGps ==
  /\ pc = "service" /\ servicedCronId \in AlarmIds
  /\ Due(Alarm[servicedCronId]) /\ Alarm[servicedCronId].handler = "gps"
  /\ Alarm' = [Alarm EXCEPT ![servicedCronId] = NextTriggerUpdated(@, now)]
  /\ last_gps' = now
  /\ gps_awake' = TRUE
  /\ Takes(1)
  /\ servicedCronId' = servicedCronId + 1
  /\ UNCHANGED <<gps_start_id, satpass_start_id, exprs, build, config, predictor, pc, sleep>>

(* serviceAlarms at the satellite pass alarm when it is due: being one shot *)
(* it is freed first; then the handler frees the alarm its id names, if     *)
(* that is allocated, which after the first free it is not.                 *)
ServiceSatpass ==
  /\ pc = "service" /\ servicedCronId \in AlarmIds
  /\ Due(Alarm[servicedCronId]) /\ Alarm[servicedCronId].handler = "satpass"
  /\ LET a == Freed(Alarm, servicedCronId)
     IN  IF Allocated(a, satpass_start_id)
         THEN Alarm' = Freed(a, satpass_start_id) /\ satpass_start_id' = Invalid
         ELSE Alarm' = a /\ UNCHANGED satpass_start_id
  /\ servicedCronId' = servicedCronId + 1
  /\ UNCHANGED <<clock, gps_start_id, last_gps, exprs, build, config, predictor, gps_awake, pc, sleep>>

(* Cron.delay: serviceAlarms again within the same millisecond, or done. *)
ServiceDone ==
  /\ pc = "service" /\ servicedCronId = NbAlarms
  /\ servicedCronId' = 0
  /\ pc' \in {"service", "reap"}
  /\ UNCHANGED <<clock, table, exprs, build, config, predictor, gps_awake, sleep>>

(* Variant: an alarm counts as too late when it is due soon. *)
TooSoon(al) == al.next # 0 /\ al.next < now + Timeout

(* The end of scheduler_tick: the next alarm is freed if it is overdue by   *)
(* more than SCHEDULER_ALARM_TIMEOUT_S.  Its id keeps its value.            *)
TooLate(al) == al.next # 0 /\ al.next < now - Timeout

Reap ==
  /\ pc = "reap"
  /\ Alarm' = [id \in AlarmIds |->
                 IF IsNextTrigger(Alarm, id) /\ TooLate(Alarm[id]) THEN FreeAlarm ELSE Alarm[id]]
  /\ pc' = "busy"
  /\ UNCHANGED <<clock, gps_start_id, satpass_start_id, last_gps, exprs, servicedCronId, build, config,
                 predictor, gps_awake, sleep>>

(* The rest of the iteration: the modem, the fallback of the pass predictor, *)
(* the logger, the screen and BLE, where a user may ask for a position.      *)
Busy ==
  /\ pc = "busy"
  /\ Takes(BusyMax)
  /\ predictor' \in {predictor, FALSE}
  /\ gps_awake' \in {gps_awake, TRUE}
  /\ pc' = "rest"
  /\ UNCHANGED <<table, exprs, servicedCronId, build, config, sleep>>

(* The tracker does not sleep while its LED blinks. *)
StayAwake ==
  /\ pc = "rest"
  /\ pc' = "woken"
  /\ UNCHANGED <<clock, table, exprs, servicedCronId, build, config, predictor, gps_awake, sleep>>

(* Variant: the difference is signed. *)
WakeTimeSigned(next, displaying) ==
  IF gps_awake \/ displaying THEN now + Active
  ELSE IF next - now > Hard THEN now + Hard ELSE next

(* The time the RTC is asked to wake the tracker at: with the receiver or   *)
(* the screen on a fixed time from now, whatever the alarms, else the next  *)
(* alarm.  The difference is unsigned: of an alarm in the past, and of      *)
(* none, it is huge.                                                        *)
WakeTime(next, displaying) ==
  IF gps_awake \/ displaying THEN now + Active
  ELSE IF (next - now) % Word > Hard THEN now + Hard ELSE next

(* syshal_rtc_set_alarm.  The RTC signals the moment its counter reaches    *)
(* the compare register, so a register set to the present never matches.    *)
(* A button turns the screen on and the loop turns it off when its time is  *)
(* over: it may display or not.                                             *)
Rest ==
  /\ pc = "rest"
  /\ screen' \in BOOLEAN
  /\ \E next \in {Alarm[id].next : id \in AlarmIds} :
        NextAlarm(next) /\ wake_at' = WakeTime(next, screen')
  /\ armed' = (wake_at' > now)
  /\ pc' = "suspend"
  /\ UNCHANGED <<clock, table, exprs, servicedCronId, build, config, predictor, gps_awake, slept>>

(* syshal_pmu_sleep kicks the hardware watchdog, stops the peripherals and  *)
(* suspends the loop.  An interrupt before the suspension resumes nothing.  *)
Suspend ==
  /\ pc = "suspend"
  /\ Takes(1)
  /\ armed' = (armed /\ now' < wake_at)
  /\ slept' = 0
  /\ pc' = "asleep"
  /\ UNCHANGED <<table, exprs, servicedCronId, build, config, predictor, gps_awake, wake_at, screen>>

-----------------------------------------------------------------------------
(* Asleep. *)

AlarmMatches == armed /\ now = wake_at

SleepOn ==
  /\ pc = "asleep" /\ ~AlarmMatches
  /\ slept < HwTimeout /\ now < MaxTime
  /\ now' = now + 1 /\ peak' = IF now' > peak THEN now' ELSE peak
  /\ slept' = slept + 1
  /\ UNCHANGED <<table, exprs, servicedCronId, build, config, predictor, gps_awake, pc, wake_at, armed, screen>>

(* What is kept of the sleep when the tracker is awake: nothing that matters *)
(* before the compare register is set and the watchdog kicked again.         *)
AwakeAgain == wake_at' = 0 /\ armed' = FALSE /\ slept' = 0 /\ screen' = FALSE

(* RTC2_IRQHandler resumes the loop. *)
AlarmWake ==
  /\ pc = "asleep" /\ AlarmMatches
  /\ AwakeAgain
  /\ pc' = "woken"
  /\ UNCHANGED <<clock, table, exprs, servicedCronId, build, config, predictor, gps_awake>>

(* A button, the modem's event pin or a BLE event resumes the loop. *)
OtherWake ==
  /\ pc = "asleep"
  /\ AwakeAgain
  /\ pc' = "woken"
  /\ UNCHANGED <<clock, table, exprs, servicedCronId, build, config, predictor, gps_awake>>

(* The hardware watchdog resets the tracker: it boots as in Init. *)
HwReset ==
  /\ pc = "asleep" /\ slept = HwTimeout
  /\ now' = Start /\ peak' = Start
  /\ Alarm' = [id \in AlarmIds |-> FreeAlarm]
  /\ gps_start_id' = Invalid /\ satpass_start_id' = Invalid
  /\ gps_start_expr' = 0 /\ satpass_start_expr' = 0
  /\ servicedCronId' = 0
  /\ interval_h' = 24 /\ new_config_available' = FALSE
  /\ predictor' = build.predictor
  /\ gps_awake' = FALSE
  /\ pc' = "provisioning"
  /\ AwakeAgain
  /\ last_gps' = Start
  /\ UNCHANGED build

(* The end of the iteration without a new configuration. *)
Iterate ==
  /\ pc = "woken" /\ ~new_config_available
  /\ pc' = "gps"
  /\ UNCHANGED <<clock, table, exprs, servicedCronId, build, config, predictor, gps_awake, sleep>>

(* Variant: the id is dropped and the alarm is not freed. *)
NotStopped(a, id) == a

(* The last entry: scheduler_gps_stop, scheduler_satpass_stop and the       *)
(* shutdown of the receiver.  An id of a free alarm keeps its value.        *)
Stopped(a, id) == IF Allocated(a, id) THEN Freed(a, id) ELSE a

Leave ==
  /\ pc = "woken" /\ new_config_available
  /\ Alarm' = Stopped(Stopped(Alarm, gps_start_id), satpass_start_id)
  /\ gps_start_id' = IF Allocated(Alarm, gps_start_id) THEN Invalid ELSE gps_start_id
  /\ satpass_start_id' = IF Allocated(Stopped(Alarm, gps_start_id), satpass_start_id)
                         THEN Invalid ELSE satpass_start_id
  /\ gps_awake' = FALSE
  /\ pc' = "provisioning"
  /\ UNCHANGED <<clock, last_gps, exprs, servicedCronId, build, config, predictor, sleep>>

Next ==
  \/ ReceiveConfig \/ Provision \/ LeaveProvisioning \/ Enter
  \/ Fix \/ NoFix
  \/ SkipAlarm \/ ServiceGps \/ ServiceSatpass \/ ServiceDone \/ Reap
  \/ Busy \/ StayAwake \/ Rest \/ Suspend
  \/ SleepOn \/ AlarmWake \/ OtherWake \/ HwReset
  \/ Iterate \/ Leave

Spec == Init /\ [][Next]_vars

-----------------------------------------------------------------------------
(* Properties. *)

AlarmType == [handler : {"none", "gps", "satpass"}, next : Nat, oneShot : BOOLEAN, expr : Nat]

(* The type invariant of the scheduler and of the loop around it. *)
TypeOK ==
  /\ now \in Start .. MaxTime /\ peak \in Start .. MaxTime /\ now <= peak
  /\ Alarm \in [AlarmIds -> AlarmType]
  /\ gps_start_id \in 0 .. Invalid /\ satpass_start_id \in 0 .. Invalid
  /\ gps_start_expr \in 0 .. 24 /\ satpass_start_expr \in Nat
  /\ servicedCronId \in 0 .. NbAlarms
  /\ build \in Builds
  /\ interval_h \in Nat /\ new_config_available \in BOOLEAN
  /\ predictor \in BOOLEAN /\ gps_awake \in BOOLEAN
  /\ pc \in Stages
  /\ wake_at \in Nat /\ armed \in BOOLEAN /\ slept \in 0 .. HwTimeout /\ screen \in BOOLEAN
  /\ last_gps \in Start .. MaxTime

(* No alarm is orphaned or shared: an allocated alarm is named by the id of *)
(* its own kind and by no other, and none is left when the operational      *)
(* state is left.  The ids are not cleared by a one-shot alarm that fires   *)
(* (scheduler.cpp:238, CronAlarms.cpp:168) nor by scheduler_tick's free, so  *)
(* a stale id could name an alarm created later for the other kind.         *)
IdsMatchAlarms ==
  /\ \A id \in AlarmIds :
       /\ Alarm[id].handler = "gps" => gps_start_id = id /\ satpass_start_id # id
       /\ Alarm[id].handler = "satpass" => satpass_start_id = id /\ gps_start_id # id
  /\ pc \in Provisioning \cup {"entry"} => \A id \in AlarmIds : Alarm[id].handler = "none"

(* Positions are scheduled as long as the tracker operates: with             *)
(* gps_log_position_enable the GNSS alarm exists at every moment of the      *)
(* loop, whatever the clock does; in particular scheduler_tick, which        *)
(* removes alarms in the past, never removes it.  It needs valid intervals:  *)
(* if the first one applied is out of range there is no expression to create *)
(* the alarm from.                                                           *)
GpsAlarmAlive ==
  pc \in Loop /\ build.gps_log =>
    Allocated(Alarm, gps_start_id) /\ Alarm[gps_start_id].handler = "gps"

(* The GNSS alarm never skips a time: its next time is at most the first    *)
(* due time after the latest time the clock has shown, also across the      *)
(* jumps a fix makes.                                                       *)
OnSchedule ==
  \A id \in AlarmIds : Alarm[id].handler = "gps" =>
    Alarm[id].next <= EveryNext(Alarm[id].expr, peak)

(* A due time is served once, however often serviceAlarms runs, the loop    *)
(* iterates and the clock is set back: the handler of the GNSS alarm runs   *)
(* only when a due time has passed since it last ran or was created.        *)
OneFirePerDue ==
  [][\A id \in AlarmIds :
       ServiceGps /\ servicedCronId = id => EveryNext(Alarm[id].expr, last_gps) <= now]_vars

(* A sleep the RTC is armed to end does end within the time the hardware    *)
(* watchdog allows.  With the receiver and the screen off it also ends      *)
(* before any alarm comes due during it, unless one was overdue already:    *)
(* then all wait for that time, and no longer.  With either of them on the  *)
(* alarms are not consulted, and one that comes due waits for the end of    *)
(* the fixed sleep.  Only a wake-up for the very second of the suspension   *)
(* is missed.  The time is computed with an unsigned difference, and 0      *)
(* stands for no alarm (sm_main.cpp:1219-1238).                             *)
SleepIsSafe ==
  pc = "asleep" =>
    LET suspended == now - slept
        enabled   == {id \in AlarmIds : Alarm[id].handler # "none"}
    IN  IF ~armed THEN wake_at \in suspended - 1 .. suspended
        ELSE /\ now <= wake_at
             /\ IF gps_awake \/ screen THEN wake_at <= suspended + Active
                ELSE /\ wake_at <= suspended + Hard
                     /\ \/ \A id \in enabled : wake_at <= Alarm[id].next
                        \/ \E id \in enabled : Alarm[id].next < suspended

(* The configuration in force is the one last received: in the loop, unless *)
(* a new one is flagged, the GNSS alarm runs at the interval received.      *)
AppliedConfig ==
  pc \in Loop /\ build.gps_log /\ ~new_config_available /\ interval_h \in 1 .. 24 =>
    \A id \in AlarmIds : Alarm[id].handler = "gps" => Alarm[id].expr = interval_h

=============================================================================

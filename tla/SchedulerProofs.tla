-------------------------- MODULE SchedulerProofs --------------------------
(***************************************************************************)
(* Proofs about Scheduler, for any calendar that cron_next can follow, any *)
(* number of alarms, any time limits and any build, when every interval    *)
(* received is valid: the ids of the alarms, that the GNSS alarm stays,    *)
(* runs on schedule and fires once, that a sleep ends in time, and that    *)
(* the configuration in force is the one received.                         *)
(***************************************************************************)
EXTENDS Scheduler, TLAPS

ValidIntervals == Intervals \subseteq 1 .. 24

(* The place of the satellite pass alarm: the GNSS alarm, where there is    *)
(* one, is created first.                                                   *)
SatSlot == IF build.gps_log THEN 1 ELSE 0

Configured == Loop \cup {"provisioned", "entry"}

(* What an allocated alarm is. *)
AlarmInv(id) ==
  /\ Alarm[id].handler = "gps" =>
       /\ id = 0 /\ gps_start_id = 0 /\ build.gps_log
       /\ Alarm[id].expr = gps_start_expr /\ gps_start_expr \in 1 .. 24
       /\ Alarm[id].next = EveryNext(Alarm[id].expr, last_gps)
  /\ Alarm[id].handler = "satpass" =>
       id = SatSlot /\ satpass_start_id = SatSlot /\ Alarm[id].expr = build.pass_time
  /\ Alarm[id].next < Word

IdInv ==
  /\ gps_start_id \in IF build.gps_log THEN {0, Invalid} ELSE {Invalid}
  /\ satpass_start_id \in {SatSlot, Invalid}
  /\ last_gps <= peak
  /\ \A id \in AlarmIds : AlarmInv(id)
  /\ pc \notin Loop => \A id \in AlarmIds : Alarm[id].handler = "none"
  /\ pc \in Loop /\ build.gps_log => Alarm[0].handler = "gps"

ExprInv ==
  /\ interval_h \in 1 .. 24
  /\ pc \in Configured => gps_start_expr \in 1 .. 24
  /\ satpass_start_expr \in {0, build.pass_time}
  /\ ~LateConfig /\ (pc = "provisioned" \/ (pc \in Configured /\ ~new_config_available))
       => gps_start_expr = interval_h

(* What serviceAlarms has passed is not overdue. *)
ServedInv ==
  /\ pc = "service" => \A id \in AlarmIds :
       id < servicedCronId /\ Alarm[id].handler # "none" => Alarm[id].next >= now
  /\ pc = "reap" => \A id \in AlarmIds : Alarm[id].handler # "none" => Alarm[id].next >= now

(* The wake-up an armed register stands for. *)
WakeInv(t) ==
  /\ now <= wake_at /\ wake_at <= t + Hard
  /\ gps_awake \/ screen => wake_at <= t + Active
  /\ ~gps_awake /\ ~screen =>
       \/ \A id \in AlarmIds : Alarm[id].handler # "none" => wake_at <= Alarm[id].next
       \/ \E id \in AlarmIds : Alarm[id].handler # "none" /\ Alarm[id].next < t

SleepInv ==
  /\ pc = "suspend" => IF armed THEN now < wake_at /\ WakeInv(now) ELSE wake_at = now
  /\ pc = "asleep" => IF armed THEN WakeInv(now - slept)
                      ELSE wake_at \in now - slept - 1 .. now - slept

SchedulerInv == TypeOK /\ IdInv /\ ExprInv /\ ServedInv /\ SleepInv

-----------------------------------------------------------------------------
(* What EveryNext and DateNext return for the alarms of the table. *)
LEMMA CronNextType ==
  ASSUME TypeOK, NEW t \in Start .. MaxTime
  PROVE  /\ \A h \in 1 .. 24 : EveryNext(h, t) \in t + 1 .. Word - 1
         /\ DateNext(build.pass_time, t) \in t + 1 .. Word - 1
BY LimitsAssumption, InputsAssumption, CronAssumption DEF TypeOK

(* Building the configuration of the first entry: with an empty table the   *)
(* GNSS alarm takes place 0, and the satellite pass alarm the next one.     *)
LEMMA CreateFirst ==
  ASSUME NEW a, NEW expr \in Nat, \A k \in AlarmIds : ~Allocated(a, k)
  PROVE  CreateId(a, expr) = IF expr = 0 THEN Invalid ELSE 0
<1> DEFINE free == {k \in AlarmIds : ~Allocated(a, k)}
<1>1. 0 \in free /\ \A j \in free : j \in Nat
  BY LimitsAssumption DEF AlarmIds
<1>2. \A k \in free : (\A j \in free : k <= j) <=> k = 0
  BY <1>1
<1>3. (CHOOSE k \in free : \A j \in free : k <= j) = 0
  BY <1>1, <1>2
<1> QED
  BY <1>1, <1>3 DEF CreateId

LEMMA CreateSecond ==
  ASSUME NEW a, NEW expr \in Nat, Allocated(a, 0),
         \A k \in AlarmIds : k # 0 => ~Allocated(a, k)
  PROVE  CreateId(a, expr) = IF expr = 0 THEN Invalid ELSE 1
<1> DEFINE free == {k \in AlarmIds : ~Allocated(a, k)}
<1>1. 1 \in free /\ \A j \in free : j \in Nat /\ j >= 1
  BY LimitsAssumption DEF AlarmIds
<1>2. \A k \in free : (\A j \in free : k <= j) <=> k = 1
  BY <1>1
<1>3. (CHOOSE k \in free : \A j \in free : k <= j) = 1
  BY <1>1, <1>2
<1> QED
  BY <1>1, <1>3 DEF CreateId

LEMMA InitInv == ASSUME ValidIntervals, Init PROVE SchedulerInv
<1> USE LimitsAssumption
<1>1. TypeOK
  <2>1. predictor \in BOOLEAN
    <3>1. build \in [gps_log : BOOLEAN, predictor : BOOLEAN, pass_time : Nat]
      BY InputsAssumption DEF Init
    <3> QED
      BY <3>1, Zenon DEF Init
  <2>2. Alarm \in [AlarmIds -> AlarmType]
    BY DEF Init, AlarmType, FreeAlarm
  <2>3. /\ now \in Start .. MaxTime /\ peak \in Start .. MaxTime /\ now <= peak
        /\ gps_start_id \in 0 .. Invalid /\ satpass_start_id \in 0 .. Invalid
        /\ gps_start_expr \in 0 .. 24 /\ satpass_start_expr \in Nat
        /\ servicedCronId \in 0 .. NbAlarms /\ interval_h \in Nat
        /\ wake_at \in Nat /\ slept \in 0 .. HwTimeout /\ last_gps \in Start .. MaxTime
    BY DEF Init, Invalid
  <2>4. /\ build \in Builds /\ new_config_available \in BOOLEAN /\ gps_awake \in BOOLEAN
        /\ pc \in Stages /\ armed \in BOOLEAN /\ screen \in BOOLEAN
    BY Zenon DEF Init, Stages, Provisioning
  <2> QED
    BY <2>1, <2>2, <2>3, <2>4, Zenon DEF TypeOK
<1>2. IdInv
  BY InputsAssumption DEF Init, IdInv, AlarmInv, FreeAlarm, Loop
<1>3. ExprInv
  BY InputsAssumption DEF Init, ExprInv, Configured, Loop
<1>4. ServedInv /\ SleepInv
  BY DEF Init, ServedInv, SleepInv
<1> QED
  BY <1>1, <1>2, <1>3, <1>4 DEF SchedulerInv

(* A step that leaves the table and the expressions alone, and does not     *)
(* enter or leave the loop, keeps the ids in order.                         *)
LEMMA TableUnchanged ==
  ASSUME TypeOK, IdInv, UNCHANGED <<table, build>>,
         gps_start_expr' = gps_start_expr \/ \A id \in AlarmIds : Alarm[id].handler = "none",
         peak' \in Nat, peak <= peak',
         pc' \in Loop <=> pc \in Loop
  PROVE  IdInv'
<1>1. ASSUME NEW id \in AlarmIds PROVE AlarmInv(id)'
  BY <1>1 DEF IdInv, AlarmInv, table, SatSlot
<1> QED
  BY <1>1, LimitsAssumption DEF IdInv, SatSlot, table, TypeOK

(* A configuration is stored: valid, and flagged. *)
LEMMA ReceiveConfigStep == ASSUME ValidIntervals, SchedulerInv, ReceiveConfig PROVE SchedulerInv'
<1> USE LimitsAssumption DEF SchedulerInv, clock, table, exprs, config, sleep
<1>1. TypeOK'
  <2>1. new_config_available' \in BOOLEAN
    BY Zenon DEF ReceiveConfig
  <2>2. interval_h' \in Nat
    BY DEF ReceiveConfig, ValidIntervals
  <2> QED
    BY <2>1, <2>2 DEF ReceiveConfig, TypeOK, Stages, Provisioning, Loop
<1>2. IdInv'
  BY TableUnchanged DEF ReceiveConfig, TypeOK, IdInv, Loop
<1>3. ExprInv'
  BY DEF ReceiveConfig, ExprInv, Configured, Loop, TypeOK, ValidIntervals
<1>4. ServedInv'
  BY DEF ReceiveConfig, ServedInv, TypeOK, AlarmIds
<1>5. SleepInv'
  BY DEF ReceiveConfig, SleepInv, WakeInv, TypeOK
<1> QED
  BY <1>1, <1>2, <1>3, <1>4, <1>5

(* The interval received is the one the alarm will be created with. *)
LEMMA ProvisionStep == ASSUME ValidIntervals, SchedulerInv, Provision PROVE SchedulerInv'
<1> USE LimitsAssumption DEF SchedulerInv, clock, table, exprs, config, sleep
<1>1. TypeOK'
  <2>1. build.pass_time \in Nat
    BY InputsAssumption DEF TypeOK
  <2>2. gps_start_expr' \in 0 .. 24 /\ satpass_start_expr' \in Nat
    BY <2>1 DEF Provision, TypeOK
  <2> QED
    BY <2>2 DEF Provision, TypeOK, Stages, Provisioning, Loop, Takes
<1>2. IdInv'
  BY TableUnchanged DEF Provision, TypeOK, IdInv, Loop, Takes
<1>3. ExprInv'
  BY DEF Provision, ExprInv, Configured, Loop, TypeOK, ValidIntervals
<1>4. ServedInv'
  BY DEF Provision, ServedInv, TypeOK, AlarmIds
<1>5. SleepInv'
  BY DEF Provision, SleepInv, WakeInv, TypeOK, Takes
<1> QED
  BY <1>1, <1>2, <1>3, <1>4, <1>5

(* The flag is reset: nothing came since the configuration was applied. *)
LEMMA LeaveProvisioningStep == ASSUME ValidIntervals, SchedulerInv, LeaveProvisioning PROVE SchedulerInv'
<1> USE LimitsAssumption DEF SchedulerInv, clock, table, exprs, config, sleep
<1>1. TypeOK'
  BY DEF LeaveProvisioning, TypeOK, Stages, Provisioning, Loop
<1>2. IdInv'
  BY TableUnchanged DEF LeaveProvisioning, TypeOK, IdInv, Loop
<1>3. ExprInv'
  BY DEF LeaveProvisioning, ExprInv, Configured, Loop, TypeOK, ValidIntervals
<1>4. ServedInv'
  BY DEF LeaveProvisioning, ServedInv, TypeOK, AlarmIds
<1>5. SleepInv'
  BY DEF LeaveProvisioning, SleepInv, WakeInv, TypeOK
<1> QED
  BY <1>1, <1>2, <1>3, <1>4, <1>5

(* The clock moves, and nothing is computed from it yet. *)
LEMMA FixStep == ASSUME ValidIntervals, SchedulerInv, Fix PROVE SchedulerInv'
<1> USE LimitsAssumption DEF SchedulerInv, clock, table, exprs, config, sleep
<1>0. /\ now' \in Start .. MaxTime /\ peak' \in Start .. MaxTime
      /\ now' <= peak' /\ peak <= peak'
  <2>1. /\ now' \in FixTimes \/ (now' \in now - Drift .. now /\ now' >= Start)
        /\ peak' = IF now' > peak THEN now' ELSE peak
    BY Zenon DEF Fix
  <2>2. now' \in Start .. MaxTime
    <3>1. now \in Start .. MaxTime
      BY DEF TypeOK
    <3>2. CASE now' \in FixTimes
      BY <3>2, InputsAssumption
    <3>3. CASE now' \in now - Drift .. now /\ now' >= Start
      BY <3>1, <3>3
    <3> QED
      BY <2>1, <3>2, <3>3
  <2> QED
    BY <2>1, <2>2 DEF TypeOK
<1>1. TypeOK'
  <2>1. UNCHANGED <<table, exprs, build, config, predictor, sleep>>
    BY DEF Fix
  <2>2. pc' = "service" /\ servicedCronId' = 0
    BY DEF Fix
  <2>3. gps_awake' \in BOOLEAN
    BY Zenon DEF Fix
  <2> QED
    BY <1>0, <2>1, <2>2, <2>3 DEF TypeOK, Stages, Provisioning, Loop
<1>2. IdInv'
  BY <1>0, TableUnchanged DEF Fix, TypeOK, IdInv, Loop
<1>3. ExprInv'
  BY DEF Fix, ExprInv, Configured, Loop, TypeOK, ValidIntervals
<1>4. ServedInv'
  BY DEF Fix, ServedInv, TypeOK, AlarmIds
<1>5. SleepInv'
  BY DEF Fix, SleepInv, WakeInv, TypeOK
<1> QED
  BY <1>1, <1>2, <1>3, <1>4, <1>5

(* The end of a session changes the receiver only. *)
LEMMA NoFixStep == ASSUME ValidIntervals, SchedulerInv, NoFix PROVE SchedulerInv'
<1> USE LimitsAssumption DEF SchedulerInv, clock, table, exprs, config, sleep
<1>1. TypeOK'
  BY DEF NoFix, TypeOK, Stages, Provisioning, Loop
<1>2. IdInv'
  BY TableUnchanged DEF NoFix, TypeOK, IdInv, Loop
<1>3. ExprInv'
  BY DEF NoFix, ExprInv, Configured, Loop, TypeOK, ValidIntervals
<1>4. ServedInv'
  BY DEF NoFix, ServedInv, TypeOK, AlarmIds
<1>5. SleepInv'
  BY DEF NoFix, SleepInv, WakeInv, TypeOK
<1> QED
  BY <1>1, <1>2, <1>3, <1>4, <1>5

(* An alarm that is passed over is not due. *)
LEMMA SkipAlarmStep == ASSUME ValidIntervals, SchedulerInv, SkipAlarm PROVE SchedulerInv'
<1> USE LimitsAssumption DEF SchedulerInv, clock, table, exprs, config, sleep
<1>1. TypeOK'
  BY DEF SkipAlarm, TypeOK, AlarmIds, Stages, Provisioning, Loop
<1>2. IdInv'
  BY TableUnchanged DEF SkipAlarm, TypeOK, IdInv, Loop
<1>3. ExprInv'
  BY DEF SkipAlarm, ExprInv, Configured, Loop, TypeOK, ValidIntervals
<1>4. ServedInv'
  <2>1. pc' = "service" /\ servicedCronId' = servicedCronId + 1 /\ servicedCronId \in Nat
    BY DEF SkipAlarm, AlarmIds
  <2>2. ASSUME NEW id \in AlarmIds, id < servicedCronId', Alarm[id].handler # "none"
        PROVE  Alarm[id].next >= now
    <3>1. CASE id < servicedCronId
      BY <2>2, <3>1 DEF SkipAlarm, ServedInv
    <3>2. CASE id = servicedCronId
      BY <2>2, <3>2 DEF SkipAlarm, Due, TypeOK, AlarmType
    <3> QED
      BY <2>1, <2>2, <3>1, <3>2 DEF AlarmIds
  <2> QED
    BY <2>1, <2>2 DEF SkipAlarm, ServedInv
<1>5. SleepInv'
  BY DEF SkipAlarm, SleepInv, WakeInv, TypeOK
<1> QED
  BY <1>1, <1>2, <1>3, <1>4, <1>5

(* All alarms are passed. *)
LEMMA ServiceDoneStep == ASSUME ValidIntervals, SchedulerInv, ServiceDone PROVE SchedulerInv'
<1> USE LimitsAssumption DEF SchedulerInv, clock, table, exprs, config, sleep
<1>1. TypeOK'
  BY DEF ServiceDone, TypeOK, Stages, Provisioning, Loop
<1>2. IdInv'
  BY TableUnchanged DEF ServiceDone, TypeOK, IdInv, Loop
<1>3. ExprInv'
  BY DEF ServiceDone, ExprInv, Configured, Loop, TypeOK, ValidIntervals
<1>4. ServedInv'
  BY DEF ServiceDone, ServedInv, TypeOK, AlarmIds, Due
<1>5. SleepInv'
  BY DEF ServiceDone, SleepInv, WakeInv, TypeOK
<1> QED
  BY <1>1, <1>2, <1>3, <1>4, <1>5

(* The clock moves on. *)
LEMMA BusyStep == ASSUME ValidIntervals, SchedulerInv, Busy PROVE SchedulerInv'
<1> USE LimitsAssumption DEF SchedulerInv, clock, table, exprs, config, sleep
<1>0. predictor' \in BOOLEAN /\ gps_awake' \in BOOLEAN
  BY Zenon DEF Busy, TypeOK
<1>1. TypeOK'
  BY <1>0 DEF Busy, TypeOK, Stages, Provisioning, Loop, Takes
<1>2. IdInv'
  BY TableUnchanged DEF Busy, TypeOK, IdInv, Loop, Takes
<1>3. ExprInv'
  BY DEF Busy, ExprInv, Configured, Loop, TypeOK, ValidIntervals
<1>4. ServedInv'
  BY DEF Busy, ServedInv, TypeOK, AlarmIds
<1>5. SleepInv'
  BY DEF Busy, SleepInv, WakeInv, TypeOK, Takes
<1> QED
  BY <1>1, <1>2, <1>3, <1>4, <1>5

(* Nothing is armed. *)
LEMMA StayAwakeStep == ASSUME ValidIntervals, SchedulerInv, StayAwake PROVE SchedulerInv'
<1> USE LimitsAssumption DEF SchedulerInv, clock, table, exprs, config, sleep
<1>1. TypeOK'
  BY DEF StayAwake, TypeOK, Stages, Provisioning, Loop
<1>2. IdInv'
  BY TableUnchanged DEF StayAwake, TypeOK, IdInv, Loop
<1>3. ExprInv'
  BY DEF StayAwake, ExprInv, Configured, Loop, TypeOK, ValidIntervals
<1>4. ServedInv'
  BY DEF StayAwake, ServedInv, TypeOK, AlarmIds
<1>5. SleepInv'
  BY DEF StayAwake, SleepInv, WakeInv, TypeOK
<1> QED
  BY <1>1, <1>2, <1>3, <1>4, <1>5

(* The tracker is awake. *)
LEMMA AlarmWakeStep == ASSUME ValidIntervals, SchedulerInv, AlarmWake PROVE SchedulerInv'
<1> USE LimitsAssumption DEF SchedulerInv, clock, table, exprs, config, sleep
<1>0. armed' \in BOOLEAN /\ screen' \in BOOLEAN
  BY Zenon DEF AlarmWake, AwakeAgain
<1>1. TypeOK'
  BY <1>0 DEF AlarmWake, TypeOK, Stages, Provisioning, Loop, AwakeAgain
<1>2. IdInv'
  BY TableUnchanged DEF AlarmWake, TypeOK, IdInv, Loop, AwakeAgain
<1>3. ExprInv'
  BY DEF AlarmWake, ExprInv, Configured, Loop, TypeOK, ValidIntervals
<1>4. ServedInv'
  BY DEF AlarmWake, ServedInv, TypeOK, AlarmIds
<1>5. SleepInv'
  BY DEF AlarmWake, SleepInv, WakeInv, TypeOK, AwakeAgain
<1> QED
  BY <1>1, <1>2, <1>3, <1>4, <1>5

(* The tracker is awake. *)
LEMMA OtherWakeStep == ASSUME ValidIntervals, SchedulerInv, OtherWake PROVE SchedulerInv'
<1> USE LimitsAssumption DEF SchedulerInv, clock, table, exprs, config, sleep
<1>0. armed' \in BOOLEAN /\ screen' \in BOOLEAN
  BY Zenon DEF OtherWake, AwakeAgain
<1>1. TypeOK'
  BY <1>0 DEF OtherWake, TypeOK, Stages, Provisioning, Loop, AwakeAgain
<1>2. IdInv'
  BY TableUnchanged DEF OtherWake, TypeOK, IdInv, Loop, AwakeAgain
<1>3. ExprInv'
  BY DEF OtherWake, ExprInv, Configured, Loop, TypeOK, ValidIntervals
<1>4. ServedInv'
  BY DEF OtherWake, ServedInv, TypeOK, AlarmIds
<1>5. SleepInv'
  BY DEF OtherWake, SleepInv, WakeInv, TypeOK, AwakeAgain
<1> QED
  BY <1>1, <1>2, <1>3, <1>4, <1>5

(* Another turn of the loop. *)
LEMMA IterateStep == ASSUME ValidIntervals, SchedulerInv, Iterate PROVE SchedulerInv'
<1> USE LimitsAssumption DEF SchedulerInv, clock, table, exprs, config, sleep
<1>1. TypeOK'
  BY DEF Iterate, TypeOK, Stages, Provisioning, Loop
<1>2. IdInv'
  BY TableUnchanged DEF Iterate, TypeOK, IdInv, Loop
<1>3. ExprInv'
  BY DEF Iterate, ExprInv, Configured, Loop, TypeOK, ValidIntervals
<1>4. ServedInv'
  BY DEF Iterate, ServedInv, TypeOK, AlarmIds
<1>5. SleepInv'
  BY DEF Iterate, SleepInv, WakeInv, TypeOK
<1> QED
  BY <1>1, <1>2, <1>3, <1>4, <1>5

(* A time between two readings of the clock a second apart. *)
LEMMA WithinASecond ==
  ASSUME NEW n \in Nat, NEW m \in n .. n + 1, NEW w \in Nat, n <= w, w <= m
  PROVE  w \in m - 0 - 1 .. m - 0
OBVIOUS

LEMMA ASecondLater ==
  ASSUME NEW n \in Nat, NEW m \in n .. n + 1, NEW w \in Nat, NEW d \in Nat, w <= n + d
  PROVE  w <= m - 0 + d
OBVIOUS

(* A second may pass before the loop is suspended. *)
LEMMA SuspendStep == ASSUME ValidIntervals, SchedulerInv, Suspend PROVE SchedulerInv'
<1> USE LimitsAssumption DEF SchedulerInv, clock, table, exprs, config, sleep
<1>1. TypeOK'
  BY DEF Suspend, TypeOK, Stages, Provisioning, Loop, Takes
<1>2. IdInv'
  BY TableUnchanged DEF Suspend, TypeOK, IdInv, Loop, Takes
<1>3. ExprInv'
  BY DEF Suspend, ExprInv, Configured, Loop, TypeOK, ValidIntervals
<1>4. ServedInv'
  BY DEF Suspend, ServedInv, TypeOK, AlarmIds
<1>5. SleepInv'
  <2>0. /\ pc' = "asleep" /\ gps_awake' = gps_awake /\ screen' = screen
        /\ armed' <=> armed /\ now' < wake_at
    BY DEF Suspend
  <2>1. /\ now \in Nat /\ now' \in now .. now + 1 /\ slept' = 0
        /\ wake_at \in Nat /\ wake_at' = wake_at /\ Alarm' = Alarm
    BY DEF Suspend, Takes, TypeOK
  <2>2. CASE armed /\ now' < wake_at
    <3>1. WakeInv(now)
      BY <2>2 DEF Suspend, SleepInv
    <3>b. /\ now <= wake_at /\ wake_at <= now + Hard
          /\ gps_awake \/ screen => wake_at <= now + Active
      BY <3>1, Zenon DEF WakeInv
    <3>d. Hard \in Nat /\ Active \in Nat
      OBVIOUS
    <3>e. now' <= wake_at'
      BY <2>1, <2>2
    <3>f. wake_at' <= now' - slept' + Hard
      BY <2>1, <3>b, <3>d, ASecondLater
    <3>2. now' <= wake_at' /\ wake_at' <= now' - slept' + Hard
      BY <3>e, <3>f
    <3>c. wake_at <= now + Active => wake_at' <= now' - slept' + Active
      BY <2>1, <3>d, ASecondLater
    <3>a. gps_awake \/ screen => wake_at' <= now' - slept' + Active
      BY <3>b, <3>c, Zenon
    <3>3. ASSUME ~gps_awake, ~screen,
                 NEW id \in AlarmIds, Alarm[id].handler # "none", Alarm[id].next < now
          PROVE  Alarm[id].next < now' - slept'
      <4>1. Alarm[id].next \in Nat
        BY DEF TypeOK, AlarmType
      <4> QED
        BY <2>1, <3>3, <4>1
    <3>4. ~gps_awake /\ ~screen =>
            \/ \A id \in AlarmIds : Alarm[id].handler # "none" => wake_at <= Alarm[id].next
            \/ \E id \in AlarmIds : Alarm[id].handler # "none" /\ Alarm[id].next < now' - slept'
      BY <3>1, <3>3, Zenon DEF WakeInv
    <3>5. WakeInv(now - slept)'
      BY <2>0, <2>1, <3>2, <3>a, <3>4, Zenon DEF WakeInv
    <3> QED
      BY <2>0, <2>2, <3>5 DEF SleepInv
  <2>3. CASE ~(armed /\ now' < wake_at)
    <3>1. now <= wake_at /\ wake_at <= now'
      BY <2>1, <2>3 DEF Suspend, SleepInv
    <3>2. wake_at' \in now' - slept' - 1 .. now' - slept'
      BY <2>1, <3>1, WithinASecond
    <3> QED
      BY <2>0, <2>3, <3>2 DEF SleepInv
  <2> QED
    BY <2>2, <2>3
<1> QED
  BY <1>1, <1>2, <1>3, <1>4, <1>5

(* A second of sleep, before the moment the register is set to. *)
LEMMA SleepOnStep == ASSUME ValidIntervals, SchedulerInv, SleepOn PROVE SchedulerInv'
<1> USE LimitsAssumption DEF SchedulerInv, clock, table, exprs, config, sleep
<1>1. TypeOK'
  BY DEF SleepOn, TypeOK, Stages, Provisioning, Loop, AlarmMatches
<1>2. IdInv'
  BY TableUnchanged DEF SleepOn, TypeOK, IdInv, Loop, AlarmMatches
<1>3. ExprInv'
  BY DEF SleepOn, ExprInv, Configured, Loop, TypeOK, ValidIntervals
<1>4. ServedInv'
  BY DEF SleepOn, ServedInv, TypeOK, AlarmIds
<1>5. SleepInv'
  BY DEF SleepOn, SleepInv, WakeInv, TypeOK, AlarmMatches
<1> QED
  BY <1>1, <1>2, <1>3, <1>4, <1>5

(* The time the tracker is woken at, with the unsigned difference: an alarm *)
(* in the past, or none, makes it wait for as long as the watchdog allows.  *)
LEMMA UnsignedDifference ==
  ASSUME NEW n \in 0 .. MaxTime, NEW t \in 0 .. Word - 1
  PROVE  (t - n) % Word = IF t < n THEN t - n + Word ELSE t - n
<1>1. MaxTime \in Nat /\ Word \in Nat /\ Word > MaxTime
  BY LimitsAssumption
<1>2. CASE t < n
  <2>1. t - n + Word \in 0 .. Word - 1
    BY <1>1, <1>2
  <2>2. t - n = Word * (0 - 1) + (t - n + Word)
    BY <1>1
  <2>3. (t - n) % Word = t - n + Word
    BY <1>1, <2>1, <2>2
  <2> QED
    BY <1>2, <2>3
<1>3. CASE t >= n
  <2>1. t - n \in 0 .. Word - 1
    BY <1>1, <1>3
  <2> QED
    BY <1>1, <1>3, <2>1
<1> QED
  BY <1>2, <1>3

LEMMA WakeTimeBounds ==
  ASSUME TypeOK, NEW next \in 0 .. Word - 1, NEW displaying \in BOOLEAN
  PROVE  /\ WakeTime(next, displaying) \in now .. now + Hard
         /\ gps_awake \/ displaying => WakeTime(next, displaying) = now + Active
         /\ ~gps_awake /\ ~displaying /\ now <= next => WakeTime(next, displaying) <= next
         /\ ~gps_awake /\ ~displaying /\ next < now => WakeTime(next, displaying) = now + Hard
<1>1. now \in 0 .. MaxTime
  BY LimitsAssumption DEF TypeOK
<1>2. (next - now) % Word = IF next < now THEN next - now + Word ELSE next - now
  BY <1>1, UnsignedDifference
<1>3. next < now => next - now + Word > Hard
  BY <1>1, LimitsAssumption
<1>4. CASE gps_awake \/ displaying
  <2>1. WakeTime(next, displaying) = now + Active
    BY <1>4, Zenon DEF WakeTime
  <2> QED
    BY <1>1, <1>4, <2>1, LimitsAssumption
<1>5. CASE ~gps_awake /\ ~displaying /\ next < now
  BY <1>1, <1>2, <1>3, <1>5, LimitsAssumption DEF WakeTime
<1>6. CASE ~gps_awake /\ ~displaying /\ now <= next
  BY <1>1, <1>2, <1>6, LimitsAssumption DEF WakeTime
<1> QED
  BY <1>1, <1>4, <1>5, <1>6

(* The register is set for the earliest alarm, or as far as the watchdog    *)
(* allows.                                                                  *)
LEMMA RestStep == ASSUME ValidIntervals, SchedulerInv, Rest PROVE SchedulerInv'
<1> USE LimitsAssumption DEF SchedulerInv, clock, table, exprs, config, sleep
<1>0. PICK next \in {Alarm[id].next : id \in AlarmIds} :
        NextAlarm(next) /\ wake_at' = WakeTime(next, screen')
  BY Zenon DEF Rest
<1>a. next \in 0 .. Word - 1
  <2>1. PICK id \in AlarmIds : next = Alarm[id].next
    BY <1>0
  <2>2. Alarm[id].next \in Nat
    BY DEF TypeOK, AlarmType
  <2>3. Alarm[id].next < Word
    BY DEF IdInv, AlarmInv
  <2> QED
    BY <2>1, <2>2, <2>3
<1>s. screen' \in BOOLEAN
  BY Zenon DEF Rest
<1>b. wake_at' \in Nat /\ now \in Nat /\ WakeTime(next, screen') \in now .. now + Hard
  BY <1>0, <1>a, <1>s, WakeTimeBounds DEF TypeOK
<1>c. armed' \in BOOLEAN /\ (armed' <=> wake_at' > now)
  <2>1. armed' = (wake_at' > now)
    BY Zenon DEF Rest
  <2> HIDE DEF SchedulerInv
  <2>2. CASE wake_at' > now
    BY <2>1, <2>2
  <2>3. CASE ~(wake_at' > now)
    <3>1. (wake_at' > now) = FALSE
      BY <2>3
    <3>2. armed' = FALSE
      BY <2>1, <3>1, Zenon
    <3> QED
      BY <2>3, <3>2
  <2> QED
    BY <2>2, <2>3
<1>1. TypeOK'
  BY <1>b, <1>c, <1>s DEF Rest, TypeOK, Stages, Provisioning, Loop
<1>2. IdInv'
  BY TableUnchanged DEF Rest, TypeOK, IdInv, Loop
<1>3. ExprInv'
  BY DEF Rest, ExprInv, Configured, Loop, TypeOK, ValidIntervals
<1>4. ServedInv'
  BY DEF Rest, ServedInv, TypeOK, AlarmIds
<1>5. SleepInv'
  <2>1. pc' = "suspend" /\ now' = now /\ gps_awake' = gps_awake /\ Alarm' = Alarm
    BY DEF Rest
  <2>2. CASE wake_at' > now
    <3>1. now' <= wake_at' /\ wake_at' <= now' + Hard
      BY <1>0, <1>b, <2>1
    <3>a. gps_awake \/ screen' => wake_at' <= now' + Active
      BY <1>0, <1>a, <1>b, <1>s, <2>1, WakeTimeBounds, LimitsAssumption
    <3>2. ASSUME ~gps_awake, ~screen', next < now, ~ \A id \in AlarmIds : ~Allocated(Alarm, id)
          PROVE  \E id \in AlarmIds : Alarm[id].handler # "none" /\ Alarm[id].next < now
      BY <1>0, <3>2 DEF NextAlarm, IsNextTrigger, Allocated
    <3>3. ASSUME ~gps_awake, ~screen', now <= next, NEW id \in AlarmIds, Alarm[id].handler # "none"
          PROVE  wake_at' <= Alarm[id].next
      <4>1. wake_at' <= next
        BY <1>0, <1>a, <1>s, <3>3, WakeTimeBounds
      <4>2. next <= Alarm[id].next
        BY <1>0, <3>3 DEF NextAlarm, IsNextTrigger, Allocated, TypeOK, AlarmType
      <4> QED
        BY <1>a, <1>b, <4>1, <4>2, <3>3 DEF TypeOK, AlarmType
    <3>4. ~gps_awake /\ ~screen' =>
            \/ \A id \in AlarmIds : Alarm[id].handler # "none" => wake_at' <= Alarm[id].next
            \/ \E id \in AlarmIds : Alarm[id].handler # "none" /\ Alarm[id].next < now
      <4>1. now <= next \/ next < now
        BY <1>a, <1>b
      <4> QED
        BY <3>2, <3>3, <4>1 DEF Allocated
    <3>5. WakeInv(now)'
      BY <2>1, <3>1, <3>a, <3>4, Zenon DEF WakeInv
    <3> QED
      BY <1>c, <2>1, <2>2, <3>5 DEF SleepInv
  <2>3. CASE ~(wake_at' > now)
    <3>1. wake_at' = now
      BY <1>0, <1>b, <2>3
    <3> QED
      BY <1>c, <2>1, <2>3, <3>1 DEF SleepInv
  <2> QED
    BY <2>2, <2>3
<1> QED
  BY <1>1, <1>2, <1>3, <1>4, <1>5

(* Every alarm has been served a moment ago: none is too late. *)
LEMMA ReapStep == ASSUME ValidIntervals, SchedulerInv, Reap PROVE SchedulerInv'
<1> USE LimitsAssumption DEF SchedulerInv, clock, table, exprs, config, sleep
<1>0. Alarm' = Alarm
  <2>1. ASSUME NEW id \in AlarmIds, Allocated(Alarm, id) PROVE ~TooLate(Alarm[id])
    BY <2>1 DEF Reap, ServedInv, Allocated, TooLate, TypeOK, AlarmType
  <2>2. ASSUME NEW id \in AlarmIds, IsNextTrigger(Alarm, id) PROVE ~TooLate(Alarm[id])
    BY <2>1, <2>2 DEF IsNextTrigger
  <2>3. Alarm' = [id \in AlarmIds |-> Alarm[id]]
    BY <2>2 DEF Reap
  <2> QED
    BY <2>3 DEF TypeOK
<1>1. TypeOK'
  BY <1>0 DEF Reap, TypeOK, Stages, Provisioning, Loop
<1>2. IdInv'
  BY <1>0, TableUnchanged DEF Reap, TypeOK, IdInv, Loop
<1>3. ExprInv'
  BY DEF Reap, ExprInv, Configured, Loop, TypeOK, ValidIntervals
<1>4. ServedInv'
  BY DEF Reap, ServedInv, TypeOK, AlarmIds
<1>5. SleepInv'
  BY DEF Reap, SleepInv, WakeInv, TypeOK
<1> QED
  BY <1>1, <1>2, <1>3, <1>4, <1>5

(* The GNSS alarm is moved to its next time after the present. *)
LEMMA ServiceGpsStep == ASSUME ValidIntervals, SchedulerInv, ServiceGps PROVE SchedulerInv'
<1> USE LimitsAssumption DEF SchedulerInv, clock, table, exprs, config, sleep
<1> DEFINE k == servicedCronId
           al == Alarm[k]
<1>0. /\ k \in AlarmIds /\ al.handler = "gps" /\ now >= al.next /\ pc = "service"
      /\ Alarm' = [Alarm EXCEPT ![k] = NextTriggerUpdated(@, now)]
      /\ last_gps' = now /\ pc' = pc /\ servicedCronId' = k + 1
  BY DEF ServiceGps, Due
<1>a. /\ k = 0 /\ al.expr = gps_start_expr /\ gps_start_expr \in 1 .. 24
      /\ gps_start_id = 0 /\ build.gps_log
  BY <1>0 DEF IdInv, AlarmInv
<1>b. al \in AlarmType /\ Alarm \in [AlarmIds -> AlarmType]
  BY <1>0 DEF TypeOK
<1>c. EveryNext(gps_start_expr, now) \in now + 1 .. Word - 1 /\ now \in Nat
  BY <1>a, CronNextType DEF TypeOK
<1>d. /\ Alarm'[k] = [al EXCEPT !.next = EveryNext(gps_start_expr, now)]
      /\ \A id \in AlarmIds : id # k => Alarm'[id] = Alarm[id]
  BY <1>0, <1>a, <1>b DEF NextTriggerUpdated, CronNext, AlarmType
<1>e. /\ Alarm'[k].handler = "gps" /\ Alarm'[k].expr = gps_start_expr
      /\ Alarm'[k].next = EveryNext(gps_start_expr, now)
  BY <1>0, <1>a, <1>b, <1>d DEF AlarmType
<1>f. gps_awake' \in BOOLEAN
  BY Zenon DEF ServiceGps
<1>g. /\ now' \in Nat /\ now' >= now /\ now' <= now + 1 /\ now' <= MaxTime
      /\ peak' = IF now' > peak THEN now' ELSE peak
  BY <1>c DEF ServiceGps, Takes
<1>1. TypeOK'
  <2>1. Alarm' \in [AlarmIds -> AlarmType]
    <3>1. Alarm'[k] \in AlarmType
      BY <1>b, <1>c, <1>d DEF AlarmType
    <3>2. Alarm' = [id \in AlarmIds |-> Alarm'[id]]
      BY <1>0, <1>b
    <3> QED
      BY <1>b, <1>d, <3>1, <3>2
  <2>2. k + 1 \in 0 .. NbAlarms
    BY <1>0 DEF AlarmIds
  <2> QED
    BY <1>0, <1>f, <1>g, <2>1, <2>2 DEF ServiceGps, TypeOK
<1>2. IdInv'
  <2>1. ASSUME NEW id \in AlarmIds PROVE AlarmInv(id)'
    <3>1. CASE id = k
      BY <1>0, <1>a, <1>c, <1>e, <3>1 DEF ServiceGps, AlarmInv
    <3>2. CASE id # k
      BY <1>a, <1>d, <3>2 DEF ServiceGps, IdInv, AlarmInv, SatSlot
    <3> QED
      BY <3>1, <3>2
  <2>2. last_gps' <= peak'
    BY <1>0, <1>g DEF TypeOK
  <2> QED
    BY <1>0, <1>a, <1>e, <2>1, <2>2 DEF ServiceGps, IdInv, SatSlot, Loop
<1>3. ExprInv'
  BY DEF ServiceGps, ExprInv, Configured, Loop, TypeOK, ValidIntervals
<1>4. ServedInv'
  <2>1. ASSUME NEW id \in AlarmIds, id < servicedCronId'
        PROVE  Alarm'[id].next >= now'
    <3>1. id = k
      BY <1>0, <1>a, <2>1 DEF AlarmIds
    <3> QED
      BY <1>c, <1>e, <1>g, <3>1
  <2> QED
    BY <1>0, <2>1 DEF ServedInv
<1>5. SleepInv'
  BY <1>0 DEF SleepInv
<1> QED
  BY <1>1, <1>2, <1>3, <1>4, <1>5

(* The satellite pass alarm is freed.  Its id stays: the handler no longer  *)
(* finds it allocated.                                                      *)
LEMMA ServiceSatpassStep == ASSUME ValidIntervals, SchedulerInv, ServiceSatpass PROVE SchedulerInv'
<1> USE LimitsAssumption DEF SchedulerInv, clock, table, exprs, config, sleep
<1> DEFINE k == servicedCronId
<1>0. k \in AlarmIds /\ Alarm[k].handler = "satpass" /\ pc = "service" /\ pc' = pc
  BY DEF ServiceSatpass
<1>a. satpass_start_id = k
  BY <1>0 DEF IdInv, AlarmInv
<1>b. ~Allocated(Freed(Alarm, k), satpass_start_id)
  BY <1>0, <1>a DEF Allocated, Freed, FreeAlarm
<1>c. /\ Alarm' = [id \in AlarmIds |-> IF id = k THEN FreeAlarm ELSE Alarm[id]]
      /\ satpass_start_id' = satpass_start_id /\ servicedCronId' = k + 1
  BY <1>b DEF ServiceSatpass, Freed
<1>1. TypeOK'
  <2>1. Alarm' \in [AlarmIds -> AlarmType]
    BY <1>c DEF TypeOK, AlarmType, FreeAlarm
  <2>2. k + 1 \in 0 .. NbAlarms
    BY <1>0 DEF AlarmIds
  <2> QED
    BY <1>0, <1>c, <2>1, <2>2 DEF ServiceSatpass, TypeOK
<1>2. IdInv'
  <2>1. ASSUME NEW id \in AlarmIds PROVE AlarmInv(id)'
    BY <1>c DEF ServiceSatpass, IdInv, AlarmInv, SatSlot, FreeAlarm
  <2>2. build.gps_log => k # 0
    BY <1>0 DEF IdInv, Loop
  <2> QED
    BY <1>0, <1>c, <2>1, <2>2 DEF ServiceSatpass, IdInv, SatSlot, Loop, AlarmIds
<1>3. ExprInv'
  BY DEF ServiceSatpass, ExprInv, Configured, Loop, TypeOK, ValidIntervals
<1>4. ServedInv'
  <2>1. now' = now
    BY DEF ServiceSatpass
  <2>2. ASSUME NEW id \in AlarmIds, id < k + 1, Alarm'[id].handler # "none"
        PROVE  Alarm'[id].next >= now
    <3>1. id # k
      BY <1>c, <2>2 DEF FreeAlarm
    <3>2. id < k
      BY <1>0, <2>2, <3>1 DEF AlarmIds
    <3> QED
      BY <1>0, <1>c, <2>2, <3>1, <3>2 DEF ServedInv
  <2> QED
    BY <1>0, <1>c, <2>1, <2>2 DEF ServedInv
<1>5. SleepInv'
  BY <1>0 DEF SleepInv
<1> QED
  BY <1>1, <1>2, <1>3, <1>4, <1>5

(* Both alarms are freed: no id is left without its alarm, nor an alarm     *)
(* without its id.                                                          *)
LEMMA LeaveStep == ASSUME ValidIntervals, SchedulerInv, Leave PROVE SchedulerInv'
<1> USE LimitsAssumption DEF SchedulerInv, clock, table, exprs, config, sleep
<1> DEFINE a == Stopped(Alarm, gps_start_id)
           b == Stopped(a, satpass_start_id)
<1>0. pc = "woken" /\ pc' = "provisioning" /\ Alarm' = b
  BY DEF Leave
<1>a. /\ \A id \in AlarmIds : a[id] = IF id = gps_start_id /\ Alarm[id].handler # "none"
                                      THEN FreeAlarm ELSE Alarm[id]
      /\ a \in [AlarmIds -> AlarmType]
  BY DEF Stopped, Freed, Allocated, FreeAlarm, TypeOK, AlarmType
<1>b. /\ \A id \in AlarmIds : b[id] = IF id = satpass_start_id /\ a[id].handler # "none"
                                      THEN FreeAlarm ELSE a[id]
      /\ b \in [AlarmIds -> AlarmType]
  BY <1>a DEF Stopped, Freed, Allocated, FreeAlarm, AlarmType
<1>c. ASSUME NEW id \in AlarmIds PROVE b[id].handler = "none"
  <2>1. Alarm[id].handler \in {"none", "gps", "satpass"}
    BY DEF TypeOK, AlarmType
  <2>2. /\ Alarm[id].handler = "gps" => gps_start_id = id
        /\ Alarm[id].handler = "satpass" => satpass_start_id = id
    BY DEF IdInv, AlarmInv
  <2> QED
    BY <1>a, <1>b, <2>1, <2>2 DEF FreeAlarm
<1>d. gps_awake' \in BOOLEAN
  BY Zenon DEF Leave
<1>e. /\ gps_start_id' \in IF build.gps_log THEN {0, Invalid} ELSE {Invalid}
      /\ satpass_start_id' \in {SatSlot, Invalid}
  BY Zenon DEF Leave, IdInv, SatSlot
<1>1. TypeOK'
  <2>1. gps_start_id' \in 0 .. Invalid /\ satpass_start_id' \in 0 .. Invalid
    BY <1>e DEF SatSlot, Invalid
  <2> QED
    BY <1>0, <1>b, <1>d, <2>1 DEF Leave, TypeOK, Stages, Provisioning
<1>2. IdInv'
  <2>1. ASSUME NEW id \in AlarmIds PROVE AlarmInv(id)'
    <3>1. b[id].next < Word
      BY <1>a, <1>b DEF FreeAlarm, IdInv, AlarmInv
    <3> QED
      BY <1>0, <1>c, <3>1 DEF AlarmInv
  <2> QED
    BY <1>0, <1>c, <1>e, <2>1 DEF Leave, IdInv, SatSlot, Loop
<1>3. ExprInv'
  BY DEF Leave, ExprInv, Configured, Loop, TypeOK, ValidIntervals
<1>4. ServedInv'
  BY <1>0 DEF ServedInv
<1>5. SleepInv'
  BY <1>0 DEF SleepInv
<1> QED
  BY <1>1, <1>2, <1>3, <1>4, <1>5

(* A reset is a boot. *)
LEMMA HwResetStep == ASSUME ValidIntervals, SchedulerInv, HwReset PROVE SchedulerInv'
<1> USE LimitsAssumption DEF SchedulerInv, clock, table, exprs, config, sleep
<1>0. build' \in Builds
  BY DEF HwReset, TypeOK
<1>1. TypeOK'
  <2>1. predictor' \in BOOLEAN
    <3>1. build \in [gps_log : BOOLEAN, predictor : BOOLEAN, pass_time : Nat]
      BY InputsAssumption DEF TypeOK
    <3> QED
      BY <3>1, Zenon DEF HwReset
  <2>2. Alarm' \in [AlarmIds -> AlarmType]
    BY DEF HwReset, AlarmType, FreeAlarm
  <2>3. /\ new_config_available' \in BOOLEAN /\ gps_awake' \in BOOLEAN
        /\ armed' \in BOOLEAN /\ screen' \in BOOLEAN /\ pc' = "provisioning"
    BY Zenon DEF HwReset, AwakeAgain
  <2> QED
    BY <1>0, <2>1, <2>2, <2>3 DEF HwReset, AwakeAgain, TypeOK, Invalid, Stages, Provisioning
<1>2. IdInv'
  BY DEF HwReset, IdInv, AlarmInv, FreeAlarm, Loop, SatSlot
<1>3. ExprInv'
  BY DEF HwReset, ExprInv, Configured, Loop
<1>4. ServedInv' /\ SleepInv'
  BY DEF HwReset, ServedInv, SleepInv
<1> QED
  BY <1>1, <1>2, <1>3, <1>4

(* The alarms that scheduler_gps_start and then scheduler_satpass_start     *)
(* leave, when there were none.                                             *)
GpsAlarm == [handler |-> "gps", next |-> EveryNext(gps_start_expr, now),
             oneShot |-> FALSE, expr |-> gps_start_expr]
SatAlarm == [handler |-> "satpass", next |-> DateNext(build.pass_time, now),
             oneShot |-> TRUE, expr |-> build.pass_time]

Empty == \A id \in AlarmIds : Alarm[id].handler = "none"

LEMMA GpsStartedFirst ==
  ASSUME TypeOK, IdInv, Empty, gps_start_expr \in 1 .. 24
  PROVE  /\ GpsStarted.id = IF build.gps_log THEN 0 ELSE Invalid
         /\ GpsStarted.alarms \in [AlarmIds -> AlarmType]
         /\ \A id \in AlarmIds :
              GpsStarted.alarms[id] = IF build.gps_log /\ id = 0 THEN GpsAlarm ELSE Alarm[id]
<1> USE LimitsAssumption
<1>1. \A id \in AlarmIds : ~Allocated(Alarm, id)
  BY DEF Empty, Allocated
<1>2. ~Allocated(Alarm, gps_start_id)
  BY <1>1 DEF Allocated
<1>3. CASE ~build.gps_log
  <2>1. GpsStarted = [alarms |-> Alarm, id |-> gps_start_id]
    BY <1>3 DEF GpsStarted
  <2> QED
    BY <1>3, <2>1 DEF IdInv, TypeOK
<1>4. CASE build.gps_log
  <2>1. CreateId(Alarm, gps_start_expr) = 0
    BY <1>1, CreateFirst
  <2>2. GpsStarted = [alarms |-> Created(Alarm, 0, "gps", gps_start_expr, FALSE), id |-> 0]
    BY <1>2, <1>4, <2>1 DEF GpsStarted
  <2>3. Created(Alarm, 0, "gps", gps_start_expr, FALSE)
          = [id \in AlarmIds |-> IF id = 0 THEN GpsAlarm ELSE Alarm[id]]
    BY DEF Created, GpsAlarm, CronNext
  <2>4. GpsAlarm \in AlarmType
    <3>1. EveryNext(gps_start_expr, now) \in Nat
      BY CronNextType DEF TypeOK
    <3> QED
      BY <3>1 DEF GpsAlarm, AlarmType
  <2> QED
    BY <1>4, <2>2, <2>3, <2>4 DEF TypeOK
<1> QED
  BY <1>3, <1>4

LEMMA SatpassStartedSecond ==
  ASSUME TypeOK, IdInv, ExprInv, Empty, gps_start_expr \in 1 .. 24
  PROVE  LET s == SatpassStarted(GpsStarted.alarms)
         IN  /\ s.id \in {SatSlot, Invalid}
             /\ s.alarms \in [AlarmIds -> AlarmType]
             /\ \A id \in AlarmIds :
                  \/ s.alarms[id] = GpsStarted.alarms[id]
                  \/ s.alarms[id] = SatAlarm /\ id = SatSlot /\ s.id = SatSlot
<1> USE LimitsAssumption
<1> DEFINE a == GpsStarted.alarms
           s == SatpassStarted(a)
           k == CreateId(a, satpass_start_expr)
<1>1. /\ a \in [AlarmIds -> AlarmType]
      /\ \A id \in AlarmIds : a[id] = IF build.gps_log /\ id = 0 THEN GpsAlarm ELSE Alarm[id]
  BY GpsStartedFirst
<1>2. \A id \in AlarmIds : Allocated(a, id) <=> build.gps_log /\ id = 0
  BY <1>1 DEF Empty, Allocated, GpsAlarm
<1>3. ~Allocated(a, satpass_start_id)
  <2>1. satpass_start_id \in {SatSlot, Invalid}
    BY DEF IdInv
  <2> QED
    BY <1>2, <2>1 DEF SatSlot, Invalid, Allocated, AlarmIds
<1>4. build.pass_time \in Nat /\ satpass_start_expr \in {0, build.pass_time}
  BY InputsAssumption DEF TypeOK, ExprInv
<1>5. k = IF satpass_start_expr = 0 THEN Invalid ELSE SatSlot
  <2>1. CASE build.gps_log
    <3>1. Allocated(a, 0) /\ \A id \in AlarmIds : id # 0 => ~Allocated(a, id)
      BY <1>2, <2>1 DEF AlarmIds
    <3> QED
      BY <1>4, <2>1, <3>1, CreateSecond DEF SatSlot
  <2>2. CASE ~build.gps_log
    <3>1. \A id \in AlarmIds : ~Allocated(a, id)
      BY <1>2, <2>2
    <3> QED
      BY <1>4, <2>2, <3>1, CreateFirst DEF SatSlot
  <2> QED
    BY <2>1, <2>2
<1>6. CASE ~predictor
  <2>1. s = [alarms |-> a, id |-> satpass_start_id]
    BY <1>3, <1>6 DEF SatpassStarted
  <2> QED
    BY <1>1, <2>1 DEF IdInv
<1>7. CASE predictor
  <2>0. s = [alarms |-> Created(a, k, "satpass", satpass_start_expr, TRUE), id |-> k]
    BY <1>3, <1>7 DEF SatpassStarted
  <2>1. s.id = k /\ s.alarms = Created(a, k, "satpass", satpass_start_expr, TRUE)
    BY <2>0
  <2>2. CASE satpass_start_expr = 0
    <3>1. \A id \in AlarmIds : id # k
      BY <1>5, <2>2 DEF AlarmIds, Invalid
    <3>2. Created(a, k, "satpass", satpass_start_expr, TRUE) = a
      BY <1>1, <3>1 DEF Created
    <3>3. s.id = Invalid /\ s.alarms = a
      BY <1>5, <2>1, <2>2, <3>2
    <3> QED
      BY <1>1, <3>3
  <2>3. CASE satpass_start_expr # 0
    <3>1. satpass_start_expr = build.pass_time /\ k = SatSlot
      BY <1>4, <1>5, <2>3
    <3>2. Created(a, k, "satpass", satpass_start_expr, TRUE)
            = [id \in AlarmIds |-> IF id = SatSlot THEN SatAlarm ELSE a[id]]
      BY <3>1 DEF Created, SatAlarm, CronNext
    <3>3. SatAlarm \in AlarmType
      <4>1. DateNext(build.pass_time, now) \in Nat
        BY CronNextType DEF TypeOK
      <4> QED
        BY <1>4, <4>1 DEF SatAlarm, AlarmType
    <3>4. s.id = SatSlot /\ s.alarms = [id \in AlarmIds |-> IF id = SatSlot THEN SatAlarm ELSE a[id]]
      BY <2>1, <3>1, <3>2
    <3> QED
      BY <1>1, <3>3, <3>4
  <2> QED
    BY <2>2, <2>3
<1> QED
  BY <1>6, <1>7

(* The first entry of the operational state creates the alarms. *)
LEMMA EnterStep == ASSUME ValidIntervals, SchedulerInv, Enter PROVE SchedulerInv'
<1> USE LimitsAssumption DEF SchedulerInv, clock, table, exprs, config, sleep
<1> DEFINE g == GpsStarted
           s == SatpassStarted(g.alarms)
<1>0. /\ pc = "entry" /\ pc' = "gps"
      /\ Alarm' = s.alarms /\ gps_start_id' = g.id /\ satpass_start_id' = s.id
      /\ UNCHANGED <<clock, exprs, servicedCronId, build, config, predictor, sleep>>
  BY DEF Enter
<1>a. Empty /\ gps_start_expr \in 1 .. 24
  BY <1>0 DEF IdInv, ExprInv, Empty, Loop, Configured
<1>b. last_gps' = now
  BY <1>a DEF Enter, Empty, Allocated
<1>c. /\ g.id = IF build.gps_log THEN 0 ELSE Invalid
      /\ \A id \in AlarmIds :
           g.alarms[id] = IF build.gps_log /\ id = 0 THEN GpsAlarm ELSE Alarm[id]
  BY <1>a, GpsStartedFirst
<1>d. /\ s.id \in {SatSlot, Invalid}
      /\ s.alarms \in [AlarmIds -> AlarmType]
      /\ \A id \in AlarmIds :
           \/ s.alarms[id] = g.alarms[id]
           \/ s.alarms[id] = SatAlarm /\ id = SatSlot /\ s.id = SatSlot
  BY <1>a, SatpassStartedSecond
<1> HIDE DEF g, s
<1>1. TypeOK'
  <2>1. gps_awake' \in BOOLEAN
    BY Zenon DEF Enter, TypeOK
  <2>2. gps_start_id' \in 0 .. Invalid /\ satpass_start_id' \in 0 .. Invalid
    BY <1>0, <1>c, <1>d DEF SatSlot, Invalid
  <2> QED
    BY <1>0, <1>b, <1>d, <2>1, <2>2 DEF TypeOK, Stages, Loop
<1>2. IdInv'
  <2>1. ASSUME NEW id \in AlarmIds PROVE AlarmInv(id)'
    <3>1. /\ EveryNext(gps_start_expr, now) < Word
          /\ DateNext(build.pass_time, now) < Word
      BY <1>a, CronNextType DEF TypeOK
    <3>2. CASE s.alarms[id] = SatAlarm /\ id = SatSlot /\ s.id = SatSlot
      BY <1>0, <3>1, <3>2 DEF AlarmInv, SatAlarm, SatSlot
    <3>3. CASE s.alarms[id] = g.alarms[id] /\ build.gps_log /\ id = 0
      BY <1>0, <1>a, <1>b, <1>c, <3>1, <3>3 DEF AlarmInv, GpsAlarm
    <3>4. CASE s.alarms[id] = g.alarms[id] /\ ~(build.gps_log /\ id = 0)
      BY <1>0, <1>a, <1>c, <3>4 DEF AlarmInv, Empty, IdInv
    <3> QED
      BY <1>d, <3>2, <3>3, <3>4
  <2>2. build.gps_log => s.alarms[0].handler = "gps"
    BY <1>c, <1>d DEF AlarmIds, SatSlot, GpsAlarm
  <2>3. last_gps' <= peak'
    BY <1>0, <1>b DEF TypeOK
  <2> QED
    BY <1>0, <1>c, <1>d, <2>1, <2>2, <2>3 DEF IdInv, SatSlot, Loop
<1>3. ExprInv'
  BY <1>0 DEF ExprInv, Configured, Loop
<1>4. ServedInv'
  BY <1>0 DEF ServedInv
<1>5. SleepInv'
  BY <1>0 DEF SleepInv
<1> QED
  BY <1>1, <1>2, <1>3, <1>4, <1>5

-----------------------------------------------------------------------------
LEMMA SchedulerInvStep == ASSUME ValidIntervals, SchedulerInv, [Next]_vars PROVE SchedulerInv'
<1>1. CASE ReceiveConfig
  BY <1>1, ReceiveConfigStep
<1>2. CASE Provision
  BY <1>2, ProvisionStep
<1>3. CASE LeaveProvisioning
  BY <1>3, LeaveProvisioningStep
<1>4. CASE Enter
  BY <1>4, EnterStep
<1>5. CASE Fix
  BY <1>5, FixStep
<1>6. CASE NoFix
  BY <1>6, NoFixStep
<1>7. CASE SkipAlarm
  BY <1>7, SkipAlarmStep
<1>8. CASE ServiceGps
  BY <1>8, ServiceGpsStep
<1>9. CASE ServiceSatpass
  BY <1>9, ServiceSatpassStep
<1>10. CASE ServiceDone
  BY <1>10, ServiceDoneStep
<1>11. CASE Reap
  BY <1>11, ReapStep
<1>12. CASE Busy
  BY <1>12, BusyStep
<1>13. CASE StayAwake
  BY <1>13, StayAwakeStep
<1>14. CASE Rest
  BY <1>14, RestStep
<1>15. CASE Suspend
  BY <1>15, SuspendStep
<1>16. CASE SleepOn
  BY <1>16, SleepOnStep
<1>17. CASE AlarmWake
  BY <1>17, AlarmWakeStep
<1>18. CASE OtherWake
  BY <1>18, OtherWakeStep
<1>19. CASE HwReset
  BY <1>19, HwResetStep
<1>20. CASE Iterate
  BY <1>20, IterateStep
<1>21. CASE Leave
  BY <1>21, LeaveStep
<1>22. CASE UNCHANGED vars
  BY <1>22 DEF vars, clock, table, exprs, config, sleep, SchedulerInv, TypeOK, IdInv, AlarmInv,
            SatSlot, ExprInv, ServedInv, SleepInv, WakeInv
<1> QED
  BY <1>1, <1>2, <1>3, <1>4, <1>5, <1>6, <1>7, <1>8, <1>9, <1>10, <1>11, <1>12, <1>13, <1>14, <1>15, <1>16, <1>17, <1>18, <1>19, <1>20, <1>21, <1>22, Zenon DEF Next

LEMMA SchedulerInvariant == ASSUME ValidIntervals PROVE Spec => []SchedulerInv
<1>1. Init => SchedulerInv
  BY InitInv
<1>2. SchedulerInv /\ [Next]_vars => SchedulerInv'
  BY SchedulerInvStep
<1> QED
  BY <1>1, <1>2, PTL DEF Spec

(* The variables of the scheduler keep their types. *)
THEOREM TypeCorrect == ASSUME ValidIntervals PROVE Spec => []TypeOK
<1>1. SchedulerInv => TypeOK
  BY DEF SchedulerInv
<1> QED
  BY <1>1, SchedulerInvariant, PTL

(* Every alarm is named by the id of its own kind, and by no other. *)
THEOREM IdsAlwaysMatch == ASSUME ValidIntervals PROVE Spec => []IdsMatchAlarms
<1>1. SchedulerInv => IdsMatchAlarms
  <2> SUFFICES ASSUME SchedulerInv PROVE IdsMatchAlarms
    OBVIOUS
  <2>1. ASSUME NEW id \in AlarmIds
        PROVE  /\ Alarm[id].handler = "gps" => gps_start_id = id /\ satpass_start_id # id
               /\ Alarm[id].handler = "satpass" => satpass_start_id = id /\ gps_start_id # id
    BY LimitsAssumption DEF SchedulerInv, IdInv, AlarmInv, SatSlot, Invalid
  <2>2. pc \in Provisioning \cup {"entry"} => pc \notin Loop
    BY DEF Provisioning, Loop
  <2> QED
    BY <2>1, <2>2 DEF SchedulerInv, IdInv, IdsMatchAlarms
<1> QED
  BY <1>1, SchedulerInvariant, PTL

(* The GNSS alarm exists as long as the tracker operates: whatever a fix    *)
(* does to the clock, scheduler_tick never removes it.                      *)
THEOREM GpsAlarmLives == ASSUME ValidIntervals PROVE Spec => []GpsAlarmAlive
<1>1. SchedulerInv => GpsAlarmAlive
  BY LimitsAssumption DEF SchedulerInv, IdInv, AlarmInv, GpsAlarmAlive, Allocated, AlarmIds
<1> QED
  BY <1>1, SchedulerInvariant, PTL

(* The GNSS alarm skips no time, across the jumps of the clock. *)
THEOREM ScheduleKept == ASSUME ValidIntervals PROVE Spec => []OnSchedule
<1>1. SchedulerInv => OnSchedule
  <2> SUFFICES ASSUME SchedulerInv, NEW id \in AlarmIds, Alarm[id].handler = "gps"
               PROVE  Alarm[id].next <= EveryNext(Alarm[id].expr, peak)
    BY DEF OnSchedule
  <2>1. /\ Alarm[id].expr \in 1 .. 24 /\ last_gps <= peak
        /\ Alarm[id].next = EveryNext(Alarm[id].expr, last_gps)
    BY DEF SchedulerInv, IdInv, AlarmInv
  <2>2. last_gps \in 0 .. MaxTime /\ peak \in 0 .. MaxTime
    BY LimitsAssumption DEF SchedulerInv, TypeOK
  <2> QED
    BY <2>1, <2>2, CronAssumption
<1> QED
  BY <1>1, SchedulerInvariant, PTL

(* The handler of the GNSS alarm runs once for a due time. *)
THEOREM FiresOnce == ASSUME ValidIntervals PROVE Spec => OneFirePerDue
<1>1. SchedulerInv /\ [Next]_vars =>
        [\A id \in AlarmIds :
           ServiceGps /\ servicedCronId = id => EveryNext(Alarm[id].expr, last_gps) <= now]_vars
  <2> SUFFICES ASSUME SchedulerInv, NEW id \in AlarmIds, ServiceGps, servicedCronId = id
               PROVE  EveryNext(Alarm[id].expr, last_gps) <= now
    OBVIOUS
  <2>1. Alarm[id].handler = "gps" /\ now >= Alarm[id].next
    BY DEF ServiceGps, Due
  <2>2. Alarm[id].next = EveryNext(Alarm[id].expr, last_gps)
    BY <2>1 DEF SchedulerInv, IdInv, AlarmInv
  <2>3. now \in Nat /\ Alarm[id].next \in Nat
    BY LimitsAssumption DEF SchedulerInv, TypeOK, AlarmType
  <2> QED
    BY <2>1, <2>2, <2>3
<1> QED
  BY <1>1, SchedulerInvariant, PTL DEF Spec, OneFirePerDue

(* An armed sleep ends in time for the hardware watchdog; with the receiver *)
(* and the screen off, in time for the next alarm too, unless one was       *)
(* overdue; with either on, within the fixed time of that case.  A sleep    *)
(* that is not armed is one whose wake-up fell in the second of the         *)
(* suspension.                                                              *)
THEOREM SleepSafe == ASSUME ValidIntervals PROVE Spec => []SleepIsSafe
<1>1. SchedulerInv => SleepIsSafe
  BY DEF SchedulerInv, SleepInv, WakeInv, SleepIsSafe
<1> QED
  BY <1>1, SchedulerInvariant, PTL

(* When no configuration arrives at the end of provisioning, the alarm in   *)
(* force runs at the interval last received.                                *)
THEOREM ConfigApplied == ASSUME ValidIntervals, ~LateConfig PROVE Spec => []AppliedConfig
<1>1. SchedulerInv => AppliedConfig
  BY DEF SchedulerInv, ExprInv, IdInv, AlarmInv, AppliedConfig, Configured
<1> QED
  BY <1>1, SchedulerInvariant, PTL
=============================================================================

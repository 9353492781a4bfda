---------------------------- MODULE Acquisition ----------------------------
(***************************************************************************)
(* How often the tracker takes a position, over the life of the clock: the *)
(* main loop with its one GNSS alarm, every read of the clock it makes,    *)
(* and a sky in which every session finds a fix.                           *)
(***************************************************************************)
EXTENDS Rtc

CONSTANTS
  Interval,  \* interval_h in seconds
  Hard,      \* HARD_WATCHDOG_TIMEOUT_S
  HwTimeout, \* bound on the seconds until a tracker that hangs has been reset
  Active,    \* GPS_ACTIVE_WAKEUP_TIMEOUT_S
  TurnMax,   \* bound on the seconds between two stages of a turn
  Default,   \* RTC_DEFAULT_TIMESTAMP_S
  FirstFix,  \* the time of the first fix
  MaxTime    \* bound on the time

VARIABLES
  time,      \* the true time
  next,      \* nextTrigger of the GNSS alarm
  gps,       \* is the receiver acquiring
  pc,        \* stage of the turn
  idle       \* history: seconds since the last session began

vars == <<rtc, time, next, gps, pc, idle>>

(* cron_next for an interval. *)
NextHour(t) == (t \div Interval + 1) * Interval

(* The loop just after the first fix, some time after boot. *)
Init ==
  /\ counter \in 0 .. Interval /\ overflow = FALSE
  /\ timestamp_offset = FirstFix - counter
  /\ time = FirstFix
  /\ next = NextHour(FirstFix)
  /\ gps = "ASLEEP" /\ pc = "session" /\ idle = 0

(* The stage takes d seconds. *)
Takes(d) ==
  /\ ~Stuck
  /\ time + d <= MaxTime
  /\ time' = time + d
  /\ Elapse(d)

(* The receiver's part of the turn: with a fix the clock is set and the     *)
(* receiver shut down.  The checks of the session read the uptime, also     *)
(* when there is none.                                                      *)
Session ==
  /\ pc = "session"
  /\ IF gps = "ACQUIRING" THEN SetTimestamp(time) ELSE UNCHANGED timestamp_offset
  /\ gps' = "ASLEEP"
  /\ \E d \in 0 .. TurnMax : Takes(d) /\ idle' = idle + d
  /\ pc' = "service"
  /\ UNCHANGED next

(* serviceAlarms: the alarm is compared with one read, and moved on by the  *)
(* next.                                                                    *)
Service ==
  /\ pc = "service"
  /\ \E d \in 0 .. TurnMax :
       /\ Takes(d)
       /\ IF Timestamp >= next
          THEN /\ next' = IF next <= LaterTimestamp THEN NextHour(LaterTimestamp) ELSE next
               /\ gps' = "ACQUIRING" /\ idle' = d
          ELSE UNCHANGED <<next, gps>> /\ idle' = idle + d
  /\ pc' = "sleep"
  /\ UNCHANGED timestamp_offset

(* The end of the turn, and the sleep until the alarm of the RTC.  A missed *)
(* alarm, after which the hardware watchdog resets the tracker, is not      *)
(* followed here.                                                           *)
Sleep ==
  /\ pc = "sleep"
  /\ LET wake == IF gps = "ACQUIRING" THEN Timestamp + Active
                 ELSE IF (next - Timestamp) % Word > Hard THEN LaterTimestamp + Hard ELSE next
         d == AlarmIn(wake)
     IN  d <= Hard /\ Takes(d) /\ idle' = idle + d
  /\ pc' = "session"
  /\ UNCHANGED <<timestamp_offset, next, gps>>

(* The watchdog resets a tracker whose tasks do not run: the clock starts   *)
(* at its default, and the GNSS alarm is created from it.                   *)
WatchdogReset ==
  /\ Stuck
  /\ \E d \in 0 .. HwTimeout :
       time + d <= MaxTime /\ time' = time + d /\ idle' = idle + d
  /\ counter' = 0 /\ overflow' = FALSE /\ timestamp_offset' = Default
  /\ next' = NextHour(Default)
  /\ gps' = "ASLEEP" /\ pc' = "session"

Next == Session \/ Service \/ Sleep \/ WatchdogReset

Spec == Init /\ [][Next]_vars

(* "GPS acquisition scheduler trigger interval (in hour)" (README.md:398):  *)
(* no more than an interval, or two and the reset when one comes in         *)
(* between, and what the turns and a sleep add, passes between two sessions.*)
EveryInterval == idle <= 2 * (Interval + Hard + 2 * TurnMax) + HwTimeout

(* The sizes of the times as the firmware has them.                         *)
Sizes ==
  /\ {W, Interval, Hard, HwTimeout, Active, TurnMax, Default, FirstFix, MaxTime, Word} \subseteq Nat
  /\ Nrf \in BOOLEAN /\ Correction \in Int
  /\ Interval > 0 /\ Interval <= FirstFix /\ Default <= FirstFix
  /\ FirstFix <= MaxTime /\ MaxTime < Word
  /\ Interval + Hard + 2 * TurnMax < W

(* The time ends before the counter wraps. *)
NoWrap == MaxTime - FirstFix + Interval < W
=============================================================================

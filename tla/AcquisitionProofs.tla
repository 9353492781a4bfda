------------------------- MODULE AcquisitionProofs -------------------------
(***************************************************************************)
(* Positions keep coming: EveryInterval for every interval, watchdog time  *)
(* and counter, on the nRF52 over any number of wraps, and on the SAMD21   *)
(* until its first one.                                                    *)
(***************************************************************************)
EXTENDS Acquisition, TLAPS

-----------------------------------------------------------------------------
(* The inductive invariant.  Its parts take the counter c as an argument,   *)
(* so that they can be said of a counter that would not have wrapped.       *)

(* What the turns and a sleep can add to a due time. *)
Slack == Hard + 2 * TurnMax

Period == Interval + Slack

(* When the alarm is due, an interval has passed since the last session     *)
(* began, unless a reset came in between: then the alarm was created from   *)
(* the default time, and nothing has set the clock yet.                     *)
Due(c, offset, n, receiver, i) ==
  \/ i + n <= c + offset + Interval
  \/ /\ offset = Default /\ receiver = "ASLEEP"
     /\ n <= Default + Interval
     /\ i <= c + Period + HwTimeout

(* How late the alarm can be at each stage of the turn. *)
Late(c, offset, n, receiver, i, stage) ==
  /\ stage = "sleep" =>
       IF receiver = "ACQUIRING" THEN i <= TurnMax ELSE c + offset <= n + TurnMax
  /\ stage = "session" =>
       IF receiver = "ACQUIRING" THEN i <= TurnMax + Hard
       ELSE c + offset <= n + TurnMax + Hard
  /\ stage = "service" =>
       receiver = "ASLEEP" /\ (i <= Slack \/ c + offset <= n + Slack)

AcqTypes ==
  /\ {counter, timestamp_offset, time, next, idle} \subseteq Nat
  /\ overflow \in BOOLEAN
  /\ gps \in {"ASLEEP", "ACQUIRING"}
  /\ pc \in {"session", "service", "sleep"}

(* The clock is never ahead of the time, and the counter has run no longer  *)
(* than since the boot.                                                     *)
ClockInv ==
  /\ counter + timestamp_offset <= time
  /\ counter + FirstFix <= time + Interval
  /\ counter < W

AcqInv ==
  /\ AcqTypes
  /\ FirstFix <= time /\ time <= MaxTime
  /\ ~overflow => /\ ClockInv
                  /\ Due(counter, timestamp_offset, next, gps, idle)
                  /\ Late(counter, timestamp_offset, next, gps, idle, pc)
  /\ overflow => idle <= Period

-----------------------------------------------------------------------------
(* Arithmetic of the clock. *)

LEMMA SizesAreNat ==
  ASSUME Sizes
  PROVE  /\ W \in Nat /\ Interval \in Nat /\ Hard \in Nat /\ HwTimeout \in Nat /\ Active \in Nat /\ TurnMax \in Nat
         /\ Default \in Nat /\ FirstFix \in Nat /\ MaxTime \in Nat /\ Word \in Nat
         /\ Slack \in Nat /\ Period \in Nat
  BY DEF Sizes, Slack, Period

(* A sum below the range of uint32_t is itself. *)
LEMMA NoWrapAround ==
  ASSUME NEW m \in Nat, NEW a \in 0 .. m - 1 PROVE a % m = a
  OBVIOUS

LEMMA Division ==
  ASSUME NEW m \in Nat, m > 0, NEW a \in Nat
  PROVE  a \div m \in Nat /\ a - m * (a \div m) \in 0 .. m - 1
<1>1. a \div m \in Int
  OBVIOUS
<1>2. a - m * (a \div m) \in 0 .. m - 1
  BY SMTT(30)
<1>3. a \div m >= 0
  BY <1>1, <1>2
<1> QED
  BY <1>1, <1>2, <1>3

(* cron_next gives a later time, and no later than an interval from now. *)
LEMMA NextHourBounds ==
  ASSUME Sizes, NEW t \in Nat
  PROVE  NextHour(t) \in Nat /\ t < NextHour(t) /\ NextHour(t) <= t + Interval
<1> DEFINE q == t \div Interval
<1>1. Interval \in Nat /\ Interval > 0
  BY DEF Sizes
<1>2. q \in Nat /\ t - Interval * q \in 0 .. Interval - 1
  BY <1>1, Division
<1>3. Interval * q \in Nat /\ (q + 1) * Interval = Interval * q + Interval
  BY <1>1, <1>2
<1> QED
  BY <1>1, <1>2, <1>3 DEF NextHour

(* A read of the clock, while no event of an overflow waits. *)
LEMMA ReadOfClock ==
  ASSUME Sizes, AcqInv, ~overflow
  PROVE  /\ Timestamp = counter + timestamp_offset
         /\ LaterTimestamp = counter + timestamp_offset
<1>1. counter + timestamp_offset \in 0 .. Word - 1 /\ Uptime = counter
  BY SizesAreNat DEF Sizes, AcqInv, AcqTypes, ClockInv, Uptime
<1> QED
  BY <1>1, NoWrapAround, SizesAreNat DEF Timestamp, LaterTimestamp

(* The bounds on how late the alarm is bound the time between sessions, and *)
(* an alarm created in a reset is due before the counter can wrap again.    *)
LEMMA SessionsAreDue ==
  ASSUME Sizes, NEW c \in Nat, NEW offset \in Nat, NEW n \in Nat, NEW i \in Nat,
         NEW receiver \in {"ASLEEP", "ACQUIRING"}, NEW stage \in {"session", "service", "sleep"},
         Due(c, offset, n, receiver, i), Late(c, offset, n, receiver, i, stage)
  PROVE  i <= 2 * Period + HwTimeout /\ (i <= Period \/ c <= Period)
<1> USE SizesAreNat
<1>1. i <= Slack \/ c + offset <= n + Slack
  BY DEF Late, Slack
<1>2. CASE i <= Slack
  BY <1>2 DEF Period, Slack
<1>3. CASE c + offset <= n + Slack
  BY <1>3 DEF Due, Period, Slack
<1> QED
  BY <1>1, <1>2, <1>3

(* d seconds pass: with Due and Late for the counter as it would be, the    *)
(* invariant holds, whether or not the counter wraps.                       *)
LEMMA TakesKeeps ==
  ASSUME Sizes, Nrf \/ NoWrap, AcqInv, NEW d \in Nat, Takes(d),
         {timestamp_offset', next', idle'} \subseteq Nat,
         gps' \in {"ASLEEP", "ACQUIRING"}, pc' \in {"session", "service", "sleep"},
         counter + timestamp_offset' <= time,
         Due(counter + d, timestamp_offset', next', gps', idle'),
         Late(counter + d, timestamp_offset', next', gps', idle', pc')
  PROVE  AcqInv'
<1> USE SizesAreNat
<1>1. /\ ~overflow /\ time' = time + d /\ time' <= MaxTime
      /\ counter' = (counter + d) % W
      /\ overflow' = (Nrf /\ counter + d >= W)
  BY DEF Takes, Elapse, Stuck
<1>2. /\ counter \in Nat /\ time \in Nat /\ FirstFix <= time
      /\ counter + FirstFix <= time + Interval /\ W > Period
  BY <1>1 DEF AcqInv, AcqTypes, ClockInv, Sizes, Period, Slack
<1>3. idle' <= Period \/ counter + d <= Period
  <2> DEFINE c == counter + d
  <2>1. c \in Nat
    BY <1>2
  <2>2. Due(c, timestamp_offset', next', gps', idle')
        /\ Late(c, timestamp_offset', next', gps', idle', pc')
    OBVIOUS
  <2>0. /\ timestamp_offset' \in Nat /\ next' \in Nat /\ idle' \in Nat
        /\ gps' \in {"ASLEEP", "ACQUIRING"} /\ pc' \in {"session", "service", "sleep"}
    OBVIOUS
  <2> HIDE SizesAreNat DEF c
  <2>3. idle' <= Period \/ c <= Period
    BY <2>0, <2>1, <2>2, SessionsAreDue
  <2> QED
    BY <2>3 DEF c
<1>4. CASE counter + d < W
  <2>1. counter' = counter + d /\ overflow' = FALSE
    <3>1. counter + d \in 0 .. W - 1
      BY <1>2, <1>4
    <3>2. counter' = counter + d
      BY <1>1, <3>1, NoWrapAround
    <3>3. ~(counter + d >= W)
      BY <1>2, <1>4
    <3> QED
      BY <1>1, <3>2, <3>3
  <2>2. ClockInv'
    BY <1>1, <1>2, <1>4, <2>1 DEF ClockInv
  <2>3. Due(counter', timestamp_offset', next', gps', idle')
    BY <2>1
  <2>4. Late(counter', timestamp_offset', next', gps', idle', pc')
    BY <2>1
  <2> QED
    BY <1>1, <1>2, <2>1, <2>2, <2>3, <2>4 DEF AcqInv, AcqTypes
<1>5. CASE counter + d >= W
  <2>1. Nrf
    BY <1>1, <1>2, <1>5 DEF NoWrap
  <2>2. overflow' = TRUE /\ counter' \in Nat /\ idle' <= Period
    <3>1. idle' <= Period
      BY <1>2, <1>3, <1>5
    <3>2. (counter + d) % W \in Nat
      BY <1>2
    <3> QED
      BY <1>1, <1>5, <2>1, <3>1, <3>2
  <2> QED
    BY <1>1, <1>2, <2>2 DEF AcqInv, AcqTypes
<1> QED
  BY <1>2, <1>4, <1>5

-----------------------------------------------------------------------------
(* The actions. *)

LEMMA AcqInvInit == ASSUME Sizes, Init PROVE AcqInv
<1> USE SizesAreNat
<1>1. /\ counter \in 0 .. Interval /\ overflow = FALSE
      /\ timestamp_offset = FirstFix - counter /\ time = FirstFix
      /\ next = NextHour(FirstFix) /\ gps = "ASLEEP" /\ pc = "session" /\ idle = 0
  BY DEF Init
<1>2. /\ Interval <= FirstFix /\ FirstFix <= MaxTime
      /\ Interval + Hard + 2 * TurnMax < W
  BY DEF Sizes
<1>3. next \in Nat /\ FirstFix < next /\ next <= FirstFix + Interval
  BY <1>1, NextHourBounds
<1>4. AcqTypes
  <2>1. {counter, timestamp_offset, time, next, idle} \subseteq Nat
    BY <1>1, <1>2, <1>3
  <2>2. overflow \in BOOLEAN
    BY <1>1
  <2> QED
    BY <1>1, <2>1, <2>2 DEF AcqTypes
<1>5. ClockInv
  BY <1>1, <1>2 DEF ClockInv
<1>6. Due(counter, timestamp_offset, next, gps, idle)
  BY <1>1, <1>2, <1>3 DEF Due
<1>7. Late(counter, timestamp_offset, next, gps, idle, pc)
  BY <1>1, <1>2, <1>3 DEF Late
<1> QED
  BY <1>1, <1>2, <1>4, <1>5, <1>6, <1>7 DEF AcqInv

(* What holds at any action that reads the clock. *)
LEMMA Running ==
  ASSUME Sizes, AcqInv, ~overflow
  PROVE  /\ counter \in Nat /\ timestamp_offset \in Nat /\ time \in Nat
         /\ next \in Nat /\ idle \in Nat /\ gps \in {"ASLEEP", "ACQUIRING"}
         /\ counter + timestamp_offset <= time /\ time < Word
         /\ counter <= time /\ counter < W
         /\ Due(counter, timestamp_offset, next, gps, idle)
         /\ Late(counter, timestamp_offset, next, gps, idle, pc)
  BY SizesAreNat DEF AcqInv, AcqTypes, ClockInv, Sizes

(* Time passes alike for the clock and since the last session. *)
LEMMA DueLater ==
  ASSUME Sizes, AcqInv, ~overflow, NEW d \in Nat
  PROVE  Due(counter + d, timestamp_offset, next, gps, idle + d)
  BY Running, SizesAreNat DEF Due

LEMMA SessionStep == ASSUME Sizes, Nrf \/ NoWrap, AcqInv, Session PROVE AcqInv'
<1> USE SizesAreNat
<1>1. PICK d \in 0 .. TurnMax : Takes(d) /\ idle' = idle + d
  BY DEF Session
<1>2. /\ ~overflow /\ pc = "session" /\ pc' = "service"
      /\ gps' = "ASLEEP" /\ next' = next
  BY <1>1 DEF Session, Takes, Stuck
<1>3. CASE gps = "ACQUIRING"
  <2>1. timestamp_offset' = (time - counter) % Word
    BY <1>2, <1>3, Running DEF Session, SetTimestamp, Uptime
  <2>2. timestamp_offset' = time - counter
    BY <1>2, <2>1, Running, NoWrapAround
  <2>3. Due(counter + d, timestamp_offset', next', gps', idle')
    BY <1>1, <1>2, <1>3, <2>2, Running DEF Due
  <2>4. Late(counter + d, timestamp_offset', next', gps', idle', pc')
    BY <1>1, <1>2, <1>3, Running DEF Late, Slack
  <2>5. {timestamp_offset', next', idle'} \subseteq Nat /\ counter + timestamp_offset' <= time
    BY <1>1, <1>2, <2>2, Running
  <2> QED
    BY <1>1, <1>2, <2>3, <2>4, <2>5, TakesKeeps
<1>4. CASE gps = "ASLEEP"
  <2>1. timestamp_offset' = timestamp_offset
    BY <1>4 DEF Session
  <2>2. Due(counter + d, timestamp_offset', next', gps', idle')
    BY <1>1, <1>2, <1>4, <2>1, DueLater
  <2>3. Late(counter + d, timestamp_offset', next', gps', idle', pc')
    BY <1>1, <1>2, <1>4, <2>1, Running DEF Late, Slack
  <2>4. {timestamp_offset', next', idle'} \subseteq Nat /\ counter + timestamp_offset' <= time
    BY <1>1, <1>2, <2>1, Running
  <2> QED
    BY <1>1, <1>2, <2>2, <2>3, <2>4, TakesKeeps
<1> QED
  BY <1>2, <1>3, <1>4, Running

LEMMA ServiceStep == ASSUME Sizes, Nrf \/ NoWrap, AcqInv, Service PROVE AcqInv'
<1> USE SizesAreNat
<1>1. PICK d \in 0 .. TurnMax :
        /\ Takes(d)
        /\ IF Timestamp >= next
           THEN /\ next' = IF next <= LaterTimestamp THEN NextHour(LaterTimestamp) ELSE next
                /\ gps' = "ACQUIRING" /\ idle' = d
           ELSE UNCHANGED <<next, gps>> /\ idle' = idle + d
  BY DEF Service
<1>2. /\ ~overflow /\ pc = "service" /\ pc' = "sleep"
      /\ timestamp_offset' = timestamp_offset
  BY <1>1 DEF Service, Takes, Stuck
<1>3. /\ Timestamp = counter + timestamp_offset
      /\ LaterTimestamp = counter + timestamp_offset
  BY <1>2, ReadOfClock
<1>4. CASE Timestamp >= next
  <2>1. /\ next' = NextHour(counter + timestamp_offset)
        /\ gps' = "ACQUIRING" /\ idle' = d
    BY <1>1, <1>2, <1>3, <1>4, Running
  <2>2. next' \in Nat /\ next' <= counter + timestamp_offset + Interval
    BY <1>2, <2>1, NextHourBounds, Running
  <2>3. Due(counter + d, timestamp_offset', next', gps', idle')
    BY <1>2, <2>1, <2>2, Running DEF Due
  <2>4. Late(counter + d, timestamp_offset', next', gps', idle', pc')
    BY <1>2, <2>1 DEF Late
  <2>5. {timestamp_offset', next', idle'} \subseteq Nat /\ counter + timestamp_offset' <= time
    BY <1>2, <2>1, <2>2, Running
  <2> QED
    BY <1>1, <1>2, <2>1, <2>3, <2>4, <2>5, TakesKeeps
<1>5. CASE ~(Timestamp >= next)
  <2>1. next' = next /\ gps' = gps /\ idle' = idle + d /\ counter + timestamp_offset < next
    BY <1>1, <1>2, <1>3, <1>5, Running
  <2>2. gps = "ASLEEP"
    BY <1>2, Running DEF Late
  <2>3. Due(counter + d, timestamp_offset', next', gps', idle')
    BY <1>2, <2>1, DueLater
  <2>4. Late(counter + d, timestamp_offset', next', gps', idle', pc')
    BY <1>2, <2>1, <2>2, Running DEF Late
  <2>5. {timestamp_offset', next', idle'} \subseteq Nat /\ counter + timestamp_offset' <= time
    BY <1>2, <2>1, Running
  <2> QED
    BY <1>1, <1>2, <2>1, <2>2, <2>3, <2>4, <2>5, TakesKeeps
<1> QED
  BY <1>4, <1>5

(* The alarm of the RTC is set to a moment to come. *)
LEMMA AlarmIsAhead ==
  ASSUME Sizes, AcqInv, ~overflow, NEW t \in Int
  PROVE  AlarmIn(t) \in Nat
<1> DEFINE left == ((((t - LaterTimestamp) % Word) + counter) % W) - counter
<1>1. LaterTimestamp \in Nat /\ counter \in Nat /\ counter < W /\ W > 0 /\ Word > 0
      /\ W \in Nat /\ Word \in Nat
  BY ReadOfClock, Running, SizesAreNat
<1>2. (t - LaterTimestamp) % Word \in Nat
  BY <1>1
<1>3. (((t - LaterTimestamp) % Word) + counter) % W \in Nat
  BY <1>1, <1>2
<1>4. left \in Int /\ left + W > 0
  BY <1>1, <1>3
<1> HIDE DEF left
<1>5. (IF left > 0 THEN left ELSE left + W) \in Nat
  BY <1>1, <1>4
<1> QED
  BY <1>5 DEF AlarmIn, left

LEMMA SleepStep == ASSUME Sizes, Nrf \/ NoWrap, AcqInv, Sleep PROVE AcqInv'
<1> USE SizesAreNat
<1> DEFINE wake == IF gps = "ACQUIRING" THEN Timestamp + Active
                   ELSE IF (next - Timestamp) % Word > Hard THEN LaterTimestamp + Hard ELSE next
           d == AlarmIn(wake)
<1>1. d <= Hard /\ Takes(d) /\ idle' = idle + d
  BY DEF Sleep
<1>2. /\ ~overflow /\ pc = "sleep" /\ pc' = "session"
      /\ timestamp_offset' = timestamp_offset /\ next' = next /\ gps' = gps
  BY <1>1 DEF Sleep, Takes, Stuck
<1>3. wake \in Int
  BY <1>2, ReadOfClock, Running
<1> HIDE DEF wake
<1>4. d \in Nat
  BY <1>2, <1>3, AlarmIsAhead
<1> HIDE DEF d
<1>5. Due(counter + d, timestamp_offset', next', gps', idle')
  BY <1>1, <1>2, <1>4, DueLater
<1>6. Late(counter + d, timestamp_offset', next', gps', idle', pc')
  BY <1>1, <1>2, <1>4, Running DEF Late
<1>7. {timestamp_offset', next', idle'} \subseteq Nat /\ counter + timestamp_offset' <= time
  BY <1>1, <1>2, <1>4, Running
<1> QED
  BY <1>1, <1>2, <1>4, <1>5, <1>6, <1>7, Running, TakesKeeps

LEMMA ResetStep == ASSUME Sizes, AcqInv, WatchdogReset PROVE AcqInv'
<1> USE SizesAreNat
<1>1. /\ overflow /\ counter' = 0 /\ overflow' = FALSE /\ timestamp_offset' = Default
      /\ next' = NextHour(Default) /\ gps' = "ASLEEP" /\ pc' = "session"
  BY DEF WatchdogReset, Stuck
<1>2. PICK d \in 0 .. HwTimeout :
        time + d <= MaxTime /\ time' = time + d /\ idle' = idle + d
  BY DEF WatchdogReset
<1>3. /\ time \in Nat /\ idle \in Nat /\ idle <= Period
      /\ FirstFix <= time /\ Default <= FirstFix /\ 0 < W
  BY <1>1 DEF AcqInv, AcqTypes, Sizes
<1>4. next' \in Nat /\ Default < next' /\ next' <= Default + Interval
  BY <1>1, NextHourBounds
<1>5. AcqTypes'
  <2>1. {counter', timestamp_offset', time', next', idle'} \subseteq Nat
    BY <1>1, <1>2, <1>3, <1>4
  <2>2. overflow' \in BOOLEAN
    BY <1>1
  <2> QED
    BY <1>1, <2>1, <2>2 DEF AcqTypes
<1>6. ClockInv'
  BY <1>1, <1>2, <1>3 DEF ClockInv
<1>7. Due(counter', timestamp_offset', next', gps', idle')
  BY <1>1, <1>2, <1>3, <1>4 DEF Due
<1>8. Late(counter', timestamp_offset', next', gps', idle', pc')
  BY <1>1, <1>4 DEF Late
<1> QED
  BY <1>1, <1>2, <1>3, <1>5, <1>6, <1>7, <1>8 DEF AcqInv

-----------------------------------------------------------------------------
(* A position is taken once in an interval, or in two when a reset comes in *)
(* between, and what the turns and a sleep add: on the nRF52 for as long as *)
(* the tracker lives, although its counter wraps every 24 days and its      *)
(* clock with it, and on the SAMD21 until the counter wraps.                *)
THEOREM PositionsKeepComing == Sizes /\ (Nrf \/ NoWrap) /\ Spec => []EveryInterval
<1>1. CASE Sizes /\ (Nrf \/ NoWrap)
  <2>1. Init => AcqInv
    BY <1>1, AcqInvInit
  <2>2. AcqInv /\ [Next]_vars => AcqInv'
    <3> SUFFICES ASSUME AcqInv, [Next]_vars PROVE AcqInv'
      OBVIOUS
    <3>1. CASE UNCHANGED vars
      BY <3>1 DEF vars, rtc, AcqInv, AcqTypes, ClockInv, Due, Late
    <3> QED
      BY <1>1, <3>1, SessionStep, ServiceStep, SleepStep, ResetStep DEF Next
  <2>3. AcqInv => EveryInterval
    <3> SUFFICES ASSUME AcqInv PROVE EveryInterval
      OBVIOUS
    <3>1. CASE overflow
      BY <1>1, <3>1, SizesAreNat DEF AcqInv, AcqTypes, EveryInterval, Period, Slack
    <3>2. CASE ~overflow
      <4>1. pc \in {"session", "service", "sleep"}
        BY DEF AcqInv, AcqTypes
      <4>2. idle <= 2 * Period + HwTimeout
        BY <1>1, <3>2, <4>1, Running, SessionsAreDue
      <4> QED
        BY <1>1, <4>2, SizesAreNat DEF EveryInterval, Period, Slack
    <3> QED
      BY <3>1, <3>2
  <2> QED
    BY <2>1, <2>2, <2>3, PTL DEF Spec
<1> QED
  BY <1>1

=============================================================================

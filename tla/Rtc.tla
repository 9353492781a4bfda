-------------------------------- MODULE Rtc --------------------------------
(***************************************************************************)
(* The clock of syshal/rtc: a counter of seconds that wraps, the event it  *)
(* raises then, and the offset that makes a timestamp of it.               *)
(***************************************************************************)
EXTENDS Integers

CONSTANTS
  Nrf,         \* NRF52_SERIES, or else ARDUINO_ARCH_SAMD
  W,           \* range of the counter in seconds: 2^21 on the nRF52, 2^27 on the SAMD21
  Correction,  \* NRF_RTC_OVERFLOW_SEC
  Word         \* 2^32, the range of uint32_t

VARIABLES
  counter,          \* seconds of the counter of the RTC
  overflow,         \* NRF_RTC_EVENT_OVERFLOW
  timestamp_offset

rtc == <<counter, overflow, timestamp_offset>>

(* syshal_rtc_get_uptime: the value of a read that finds the event.  The    *)
(* read clears the event, so that the next one gives the bare counter.      *)
Uptime == counter + (IF overflow THEN Correction ELSE 0)

(* syshal_rtc_return_timestamp. *)
Timestamp == (Uptime + timestamp_offset) % Word

(* The timestamp of a second read. *)
LaterTimestamp == (counter + timestamp_offset) % Word

(* RTC2_IRQHandler clears the event of the compare register only.  The      *)
(* interrupt of the overflow is enabled too: its event stays, the handler   *)
(* is called again at once, and no task runs that would read the clock.     *)
Stuck == overflow

(* d seconds pass after the last read.  The SAMD21 looks at no overflow.    *)
Elapse(d) ==
  /\ counter' = (counter + d) % W
  /\ overflow' = (Nrf /\ counter + d >= W)

(* syshal_rtc_set_timestamp. *)
SetTimestamp(t) == timestamp_offset' = (t - Uptime) % Word

(* syshal_rtc_set_alarm: seconds until the counter reaches the compare      *)
(* register, which takes the low bits of the sum of the time left and the   *)
(* uptime; a register set to the present matches after a whole turn of the  *)
(* counter.                                                                 *)
AlarmIn(t) ==
  LET left == ((((t - LaterTimestamp) % Word) + counter) % W) - counter
  IN  IF left > 0 THEN left ELSE left + W
=============================================================================

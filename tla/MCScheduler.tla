---------------------------- MODULE MCScheduler ----------------------------
(***************************************************************************)
(* The scheduler on a short calendar: an hour of 3 seconds and a day of 6. *)
(***************************************************************************)
EXTENDS Scheduler

HourLength == 3
DayLength  == 6

(* The first time after t at the start of an hour that is a multiple of h. *)
MCEveryNext(h, t) ==
  CHOOSE u \in t + 1 .. t + DayLength :
    LET OnHour(v) == v % HourLength = 0 /\ ((v % DayLength) \div HourLength) % h = 0
    IN  OnHour(u) /\ \A v \in t + 1 .. u - 1 : ~OnHour(v)

(* The first time after t at the date of d, which has no year. *)
YearLength == 30

MCDateNext(d, t) ==
  CHOOSE u \in t + 1 .. t + YearLength : u % YearLength = d % YearLength

MCBuilds ==
  { [gps_log |-> TRUE,  predictor |-> FALSE, pass_time |-> 0],
    [gps_log |-> TRUE,  predictor |-> TRUE,  pass_time |-> 16],
    [gps_log |-> FALSE, predictor |-> TRUE,  pass_time |-> 16] }
=============================================================================

------------------------------ MODULE MCLogger ------------------------------
(* Instance of Logger for TLC: three slots and three dates, so that two and  *)
(* three slots share a date, a walk is as long as the table, and a slot in   *)
(* the middle of the table is free while its neighbours are taken.  Two tags *)
(* are enough to tell a slot that matches a tag from one that does not; the  *)
(* acknowledgement date is only copied.                                      *)
EXTENDS Logger

MCDates    == 1 .. 3
MCAckDates == {1}
MCApiTags  == {"PVT", "U_MSG"}

=============================================================================

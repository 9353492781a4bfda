---------------------------- MODULE LoggerTasks ----------------------------
(***************************************************************************)
(* The slot table between the main loop and the BLE task of the NRF52      *)
(* builds.  Neither takes a lock.  The callbacks of the Bluefruit library  *)
(* (external) run at a higher priority than the loop: a call of the BLE    *)
(* task runs in one stretch, at any point inside a call of the loop.  The  *)
(* loop's calls are therefore cut where the table is half changed, in the  *)
(* order the source writes it.                                             *)
(*                                                                         *)
(* Left out: what only the loop does to a slot that stays taken (status    *)
(* and dates of an acknowledged message), which the BLE task neither reads *)
(* to decide anything nor writes; calls that clear user messages, which    *)
(* can meet a slot half taken or half cleared in the same way; and the     *)
(* push to the satellite.                                                  *)
(***************************************************************************)
EXTENDS LoggerTable

VARIABLES
  logger_struct,  \* the slot table
  call,           \* the call of the main loop in progress
  inserted,       \* messages logger_insert_data has taken (LOGGER_NO_ERROR)
  cleared         \* messages cleared after their acknowledgement

vars == <<logger_struct, call, inserted, cleared>>

NoCall == [op |-> "none", slot |-> 0, tag |-> NoTag, date |-> 0, data |-> NoData]

Init ==
  /\ logger_struct = EmptyTable
  /\ call = NoCall
  /\ inserted = {}
  /\ cleared = {}

(* Each message is logged once. *)
Fresh(d) == d \notin inserted /\ d # call.data

(* The loop looks for a free slot. *)
InsertFinds(tag, date, d) ==
  /\ call = NoCall
  /\ Fresh(d)
  /\ \E i \in Slots :
        /\ FirstFree(logger_struct, i)
        /\ call' = [op |-> "found", slot |-> i, tag |-> tag, date |-> date, data |-> d]
  /\ UNCHANGED <<logger_struct, inserted, cleared>>

(* It takes the slot it found, free or not by now: id and tag ... *)
InsertTakes ==
  /\ call.op = "found"
  /\ logger_struct' = [logger_struct EXCEPT ![call.slot].id = call.slot,
                                            ![call.slot].tag = call.tag]
  /\ call' = [call EXCEPT !.op = "taken"]
  /\ UNCHANGED <<inserted, cleared>>

(* ... then date, buffer and status. *)
InsertFills ==
  /\ call.op = "taken"
  /\ logger_struct' = [logger_struct EXCEPT ![call.slot].createdDate = call.date,
                                            ![call.slot].data = call.data,
                                            ![call.slot].status = "WAITING_TRANSMIT"]
  /\ inserted' = inserted \cup {call.data}
  /\ call' = NoCall
  /\ UNCHANGED cleared

(* The handler of an acknowledgement clears the slot of a GNSS message: the *)
(* id first, which makes it a free slot ...                                 *)
ClearFrees(i) ==
  /\ call = NoCall
  /\ i \in Occupied(logger_struct)
  /\ logger_struct[i].tag \in {"PVT", "RAW"}
  /\ logger_struct' = [logger_struct EXCEPT ![i].id = 0]
  /\ call' = [NoCall EXCEPT !.op = "freed", !.slot = i]
  /\ cleared' = cleared \cup {logger_struct[i].data}
  /\ UNCHANGED inserted

(* ... then everything else, the buffer included, whatever it holds by now. *)
ClearEmpties ==
  /\ call.op = "freed"
  /\ logger_struct' =
       [logger_struct EXCEPT
          ![call.slot] = [Cleared(logger_struct[call.slot])
                            EXCEPT !.id = logger_struct[call.slot].id]]
  /\ call' = NoCall
  /\ UNCHANGED <<inserted, cleared>>

(* The BLE task logs a message of the app. *)
BleInsert(date, d) ==
  /\ Fresh(d)
  /\ \E i \in Slots :
        /\ FirstFree(logger_struct, i)
        /\ logger_struct' = InsertData(logger_struct, i, "U_MSG", date, d)
  /\ inserted' = inserted \cup {d}
  /\ UNCHANGED <<call, cleared>>

MainLoop ==
  \/ \E tag \in {"PVT", "RAW", "U_MSG"}, date \in Dates, d \in Data : InsertFinds(tag, date, d)
  \/ InsertTakes
  \/ InsertFills
  \/ \E i \in Slots : ClearFrees(i)
  \/ ClearEmpties

BleTask == \E date \in Dates, d \in Data : BleInsert(date, d)

Next == MainLoop \/ BleTask

Spec == Init /\ [][Next]_vars

-----------------------------------------------------------------------------
(* Each message the logger took has its entry until it is cleared (README,  *)
(* "A new log entry will be generated for each GNSS measurement, user       *)
(* uplink command").                                                        *)
EntryForEachMessage ==
  \A d \in inserted \ cleared :
    \E i \in Slots :
      /\ logger_struct[i].id = i
      /\ logger_struct[i].data = d
      /\ logger_struct[i].status # "EMPTY"

=============================================================================

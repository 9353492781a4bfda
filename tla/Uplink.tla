------------------------------- MODULE Uplink -------------------------------
(***************************************************************************)
(* The path of a logged message to the satellite: the logger, the main     *)
(* loop of the operational state as far as it feeds the satellite modem    *)
(* (logger_push_slots_to_sat) and empties its events (syshal_sat_tick,     *)
(* syshal_sat_callback), the interrupt of the modem's EVT pin, and the     *)
(* modem (Astronode S, external) with the satellite behind it.             *)
(*                                                                         *)
(* The main loop is one thread; pc says where it is.  An exchange with the *)
(* modem is one step, so the modem and the interrupt act between any two   *)
(* exchanges.  A handler of the main loop is one step too: nothing else    *)
(* here reads or writes the slot table.  The messages that the BLE task of *)
(* the NRF52 builds logs beside the loop are not in this module; what they *)
(* do to the table is in LoggerTasks.                                      *)
(***************************************************************************)
EXTENDS LoggerTable, Sequences, FiniteSets, Functions

CONSTANTS
  GpsTags,    \* the tags of the GNSS messages of this instance
  AckDates,   \* the dates acknowledgements are read at
  QueueSize,  \* capacity of the modem's payload queue
  MaxCmds,    \* bound on the commands the satellite sends
  AckHoldsId, \* an id counts as in use until its acknowledgement is cleared
  Hazards     \* what the environment may do beyond the regular case

AllHazards ==
  {"same_second",    \* two messages are dated with the same second
   "user_clear",     \* the user clears the user messages
   "link_fault",     \* an exchange with the modem fails
   "ack_read_fault", \* the read of an acknowledgement fails
   "late_answer",    \* an answer comes late and is taken for that of another request
   "no_mem",         \* calloc returns NULL
   "reboot"}         \* a watchdog resets the tracker

ASSUME UplinkAssumption ==
  /\ GpsTags \subseteq {"PVT", "RAW"}
  /\ AckDates \subseteq Dates
  /\ QueueSize \in Nat \ {0}
  /\ MaxCmds \in Nat
  /\ AckHoldsId \in BOOLEAN
  /\ Hazards \subseteq AllHazards

VARIABLES
  \* The tracker.
  logger_struct,              \* the slot table
  logger_new_data_available,  \* a message was logged since the last push
  new_event_pending,          \* the EVT pin changed since the last tick
  request_sat_status_update,  \* the modem's counters are to be read
  sat_state,                  \* is the modem taken to be awake
  pc,                         \* where the main loop is
  prv_slot_epoch, push_i,     \* the locals of the push loop
  \* The modem.
  queue,                      \* payloads waiting for a satellite
  acks,                       \* ids acknowledged by a satellite, not yet cleared
  cmd,                        \* the command waiting to be read
  reset_evt,                  \* its reset event
  \* History.
  logged,                     \* messages the logger accepted
  delivered,                  \* messages a satellite received
  duplicated,                 \* messages a satellite received twice
  dropped,                    \* messages cleared by the user or lost in a reboot
  unread,                     \* messages whose acknowledgement was cleared unread
  cmds                        \* number of commands sent so far

tracker == <<logger_struct, logger_new_data_available, request_sat_status_update,
             sat_state, pc, prv_slot_epoch, push_i>>
modem   == <<queue, acks, cmd, reset_evt>>
history == <<logged, delivered, duplicated, dropped, unread, cmds>>
vars    == <<tracker, new_event_pending, modem, history>>

(* pc: the stages of sm_main_operational; "event" and "drained" are inside  *)
(* syshal_sat_tick, before and after the loop over the events; "push" and   *)
(* "pushed" the same of logger_push_slots_to_sat.                           *)
Stages == {"gps", "sat", "event", "drained", "screen", "status", "logger", "push", "pushed"}

Payload == [id : Slots, data : Data \cup {NoData}]
Cmds    == {"none", "msg", "other"}

-----------------------------------------------------------------------------
(* The modem. *)

(* EVT pin.  The default masks (with_msg_ack_pin_en, with_cmd_event_pin_en) *)
(* show acknowledgements and commands on it, and nothing else.              *)
Pin(a, c) == a # <<>> \/ c # "none"
EvtPin    == Pin(acks, cmd)

(* The interrupt is on CHANGE: syshal_sat_int_pin_event_priv.               *)
Interrupt == new_event_pending' = (new_event_pending \/ EvtPin # Pin(acks', cmd'))

IdInUse(id) ==
  \/ \E p \in queue : p.id = id
  \/ AckHoldsId /\ id \in Range(acks)

QueueFull == Cardinality(queue) >= QueueSize

(* The messages of the logger that are still to be brought to a satellite. *)
Waiting(t) == {i \in Occupied(t) : t[i].status = "WAITING_TRANSMIT"}
Pending(t) == {t[i].data : i \in Waiting(t)} \ {NoData}

Init ==
  /\ logger_struct = EmptyTable
  /\ logger_new_data_available = FALSE
  /\ new_event_pending = FALSE
  /\ request_sat_status_update = FALSE
  /\ sat_state = "ASLEEP"
  /\ pc = "gps"
  /\ prv_slot_epoch = 0 /\ push_i = 0
  /\ queue = {}
  /\ acks = <<>>
  /\ cmd = "none"
  /\ reset_evt = TRUE      \* syshal_sat_init has just reset the modem
  /\ logged = {}
  /\ delivered = {} /\ duplicated = {} /\ dropped = {} /\ unread = {}
  /\ cmds = 0

(* A satellite passes, takes a payload and acknowledges it. *)
SatellitePass(p) ==
  /\ p \in queue
  /\ queue' = queue \ {p}
  /\ acks' = Append(acks, p.id)
  /\ delivered' = delivered \cup ({p.data} \ {NoData})
  /\ duplicated' = duplicated \cup ({p.data} \cap delivered)
  /\ UNCHANGED <<cmd, reset_evt, tracker, logged, dropped, unread, cmds>>
  /\ Interrupt

SatelliteCommand(c) ==
  /\ cmd = "none"
  /\ cmds < MaxCmds
  /\ cmd' = c
  /\ cmds' = cmds + 1
  /\ UNCHANGED <<queue, acks, reset_evt, tracker, logged, delivered, duplicated, dropped,
                 unread>>
  /\ Interrupt

-----------------------------------------------------------------------------
(* Messages that enter the logger. *)

FreshDate(date) ==
  "same_second" \in Hazards
    \/ \A i \in Occupied(logger_struct) : logger_struct[i].createdDate # date

(* logger_insert_data as the handlers call it: the result is ignored, and   *)
(* the flag is raised whether or not the table took the message.            *)
LogMessage(tag, date, d) ==
  /\ d \notin logged
  /\ \/ \E i \in Slots :
          /\ FreshDate(date)
          /\ FirstFree(logger_struct, i)
          /\ logger_struct' = InsertData(logger_struct, i, tag, date, d)
          /\ logged' = logged \cup {d}
     \/ \E i \in Slots :
          /\ "no_mem" \in Hazards
          /\ FreshDate(date)
          /\ FirstFree(logger_struct, i)
          /\ logger_struct' = InsertData(logger_struct, i, tag, date, NoData)
          /\ UNCHANGED logged
     \/ Full(logger_struct) /\ UNCHANGED <<logger_struct, logged>>
  /\ logger_new_data_available' = TRUE
  /\ UNCHANGED <<request_sat_status_update, sat_state, pc, prv_slot_epoch, push_i,
                 new_event_pending, modem, delivered, duplicated, dropped, unread, cmds>>

(* syshal_gps_callback, from syshal_gps_tick: a raw sample, a fix, or both. *)
GpsMessage(tag, date, d) == pc = "gps" /\ LogMessage(tag, date, d)

(* syshal_screen_callback, from syshal_screen_tick: a preset message. *)
UserMessage(date, d) == pc = "screen" /\ LogMessage("U_MSG", date, d)

(* "Clear all messages" of the screen. *)
UserClear ==
  /\ "user_clear" \in Hazards
  /\ pc = "screen"
  /\ logger_struct' = ClearMatchingTag(logger_struct, "U_MSG")
  /\ dropped' = dropped \cup ((Pending(logger_struct) \ Pending(logger_struct')) \ delivered)
  /\ UNCHANGED <<logger_new_data_available, request_sat_status_update, sat_state, pc,
                 prv_slot_epoch, push_i, new_event_pending, modem,
                 logged, delivered, duplicated, unread, cmds>>

-----------------------------------------------------------------------------
(* The main loop. *)

Goto(from, to) == pc = from /\ pc' = to

GpsDone ==
  /\ Goto("gps", "sat")
  /\ UNCHANGED <<logger_struct, logger_new_data_available, request_sat_status_update, sat_state,
                 prv_slot_epoch, push_i, new_event_pending, modem, history>>

(* syshal_sat_tick: nothing to do unless the interrupt raised the flag. *)
SatTickIdle ==
  /\ ~new_event_pending
  /\ Goto("sat", "screen")
  /\ UNCHANGED <<logger_struct, logger_new_data_available, request_sat_status_update, sat_state,
                 prv_slot_epoch, push_i, new_event_pending, modem, history>>

SatTickStart ==
  /\ new_event_pending
  /\ Goto("sat", "event")
  /\ sat_state' = "ACTIVE"
  /\ UNCHANGED <<logger_struct, logger_new_data_available, request_sat_status_update,
                 prv_slot_epoch, push_i, new_event_pending, modem, history>>

(* Variants of the acknowledgement handler: the slot is dated and not      *)
(* marked; every slot with the tag is cleared.                             *)
OnMsgAckNotMarked(t, id, date) ==
  LET dated == SetAcknowledgedDate(t, id, date)
  IN  IF \E i \in Slots : Finds(t, id, i) /\ t[i].tag \in {"PVT", "RAW"}
      THEN ClearSlot(dated, id)
      ELSE dated

OnMsgAckClearsTag(t, id, date) ==
  LET marked == SetAcknowledgedDate(SetStatus(t, id, "TRANSMITTED"), id, date)
  IN  IF \E i \in Slots : Finds(t, id, i) /\ t[i].tag \in {"PVT", "RAW"}
      THEN ClearMatchingTag(marked, "PVT")
      ELSE marked

(* syshal_sat_callback on SYSHAL_SAT_EVENT_MSG_ACK: the slot is marked,     *)
(* dated, and cleared when it holds a GNSS message.                         *)
OnMsgAck(t, id, date) ==
  LET marked == SetAcknowledgedDate(SetStatus(t, id, "TRANSMITTED"), id, date)
  IN  IF \E i \in Slots : Finds(t, id, i) /\ t[i].tag \in {"PVT", "RAW"}
      THEN ClearSlot(marked, id)
      ELSE marked

(* read_satellite_ack, clear_satellite_ack and the callback.  The id is     *)
(* used even when the clear failed; the acknowledgement is then read again. *)
ReadAck ==
  /\ pc = "event"
  /\ acks # <<>>
  /\ \E date \in AckDates : logger_struct' = OnMsgAck(logger_struct, Head(acks), date)
  /\ acks' \in {Tail(acks)} \cup (IF "link_fault" \in Hazards THEN {acks} ELSE {})
  /\ request_sat_status_update' = TRUE
  /\ UNCHANGED <<queue, cmd, reset_evt, logger_new_data_available, sat_state, pc,
                 prv_slot_epoch, push_i, history>>
  /\ Interrupt

(* After a late answer the event register read is not the modem's: the      *)
(* driver may look for any event in any order.                              *)
StaleEvent == "late_answer" \in Hazards

(* The read fails: the callback gets the msg_id nobody initialised.         *)
MisreadAck ==
  /\ "ack_read_fault" \in Hazards \/ StaleEvent
  /\ pc = "event"
  /\ acks # <<>> \/ StaleEvent
  /\ \E id \in 0 .. NbSlots + 1, date \in AckDates :
        logger_struct' = OnMsgAck(logger_struct, id, date)
  /\ request_sat_status_update' = TRUE
  /\ UNCHANGED <<logger_new_data_available, sat_state, pc, prv_slot_epoch, push_i,
                 new_event_pending, modem, history>>

(* The read finds the late answer to an earlier one, and the clear removes  *)
(* an acknowledgement nobody read.                                          *)
ClearUnreadAck ==
  /\ "late_answer" \in Hazards
  /\ pc = "event"
  /\ acks # <<>>
  /\ \E id \in Slots, date \in AckDates : logger_struct' = OnMsgAck(logger_struct, id, date)
  /\ acks' = Tail(acks)
  /\ unread' = unread \cup {d \in Data : \E i \in Waiting(logger_struct') :
                                           i = Head(acks) /\ logger_struct'[i].data = d}
  /\ request_sat_status_update' = TRUE
  /\ UNCHANGED <<queue, cmd, reset_evt, logger_new_data_available, sat_state, pc,
                 prv_slot_epoch, push_i, logged, delivered, duplicated, dropped, cmds>>
  /\ Interrupt

ReadReset ==
  /\ pc = "event"
  /\ (acks = <<>> /\ reset_evt) \/ StaleEvent
  /\ reset_evt' \in {FALSE} \cup (IF "link_fault" \in Hazards THEN {reset_evt} ELSE {})
  /\ request_sat_status_update' = TRUE
  /\ UNCHANGED <<logger_struct, logger_new_data_available, sat_state, pc, prv_slot_epoch, push_i,
                 queue, acks, cmd, new_event_pending, history>>

(* A message of the operator is logged as a command that needs no uplink:   *)
(* insert, then date and mark the slot insert returned, which is 0 when it  *)
(* failed.                                                                  *)
LogCommand ==
  \/ \E i \in Slots, date \in Dates, ackdate \in AckDates :
       /\ FreshDate(date)
       /\ FirstFree(logger_struct, i)
       /\ logger_struct' =
            SetStatus(SetAcknowledgedDate(InsertData(logger_struct, i, "U_CMD", date, NoData),
                                          i, ackdate), i, "TRANSMITTED")
  \/ \E i \in Slots, date \in Dates, ackdate \in AckDates :
       /\ "no_mem" \in Hazards
       /\ FreshDate(date)
       /\ FirstFree(logger_struct, i)
       /\ logger_struct' =
            SetStatus(SetAcknowledgedDate(InsertData(logger_struct, i, "U_CMD", date, NoData),
                                          0, ackdate), 0, "TRANSMITTED")
  \/ Full(logger_struct) /\ UNCHANGED logger_struct

(* read_command_40B, clear_command and the callback.  A command other than  *)
(* a message changes the configuration, or nothing, and no slot.  The       *)
(* callback also runs when the read failed, on what the buffer held before. *)
ReadCommand ==
  /\ pc = "event"
  /\ (acks = <<>> /\ ~reset_evt /\ cmd # "none") \/ StaleEvent
  /\ \/ /\ cmd = "msg" \/ "link_fault" \in Hazards \/ StaleEvent
        /\ LogCommand
     \/ /\ cmd = "other" \/ "link_fault" \in Hazards \/ StaleEvent
        /\ UNCHANGED logger_struct
  /\ cmd' \in {"none"} \cup (IF "link_fault" \in Hazards THEN {cmd} ELSE {})
  /\ request_sat_status_update' = TRUE
  /\ UNCHANGED <<logger_new_data_available, sat_state, pc, prv_slot_epoch, push_i,
                 queue, acks, reset_evt, history>>
  /\ Interrupt

(* NO_EVENT (or MESSAGE_PENDING), or the read of the event register failed. *)
EventsDone ==
  /\ Goto("event", "drained")
  /\ (acks = <<>> /\ ~reset_evt /\ cmd = "none") \/ "link_fault" \in Hazards \/ StaleEvent
  /\ UNCHANGED <<logger_struct, logger_new_data_available, request_sat_status_update, sat_state,
                 prv_slot_epoch, push_i, new_event_pending, modem, history>>

(* syshal_sat_shutdown and new_event_pending = false. *)
SatTickEnd ==
  /\ Goto("drained", "screen")
  /\ sat_state' = "ASLEEP"
  /\ new_event_pending' = FALSE
  /\ UNCHANGED <<logger_struct, logger_new_data_available, request_sat_status_update,
                 prv_slot_epoch, push_i, modem, history>>

(* scheduler_tick: the alarm of the next satellite pass asks for a push. *)
SatpassStart ==
  /\ pc = "screen"
  /\ logger_new_data_available' = TRUE
  /\ UNCHANGED <<logger_struct, request_sat_status_update, sat_state, pc, prv_slot_epoch, push_i,
                 new_event_pending, modem, history>>

ScreenDone ==
  /\ Goto("screen", "status")
  /\ UNCHANGED <<logger_struct, logger_new_data_available, request_sat_status_update, sat_state,
                 prv_slot_epoch, push_i, new_event_pending, modem, history>>

(* The modem is woken, its counters read, and shut down again. *)
StatusUpdate ==
  /\ Goto("status", "logger")
  /\ request_sat_status_update' = FALSE
  /\ UNCHANGED <<logger_struct, logger_new_data_available, sat_state,
                 prv_slot_epoch, push_i, new_event_pending, modem, history>>

PushIdle ==
  /\ ~logger_new_data_available
  /\ Goto("logger", "gps")
  /\ UNCHANGED <<logger_struct, logger_new_data_available, request_sat_status_update, sat_state,
                 prv_slot_epoch, push_i, new_event_pending, modem, history>>

PushStart ==
  /\ logger_new_data_available
  /\ Goto("logger", "push")
  /\ sat_state' = "ACTIVE"
  /\ prv_slot_epoch' = MaxEpoch
  /\ push_i' = 0
  /\ UNCHANGED <<logger_struct, logger_new_data_available, request_sat_status_update,
                 new_event_pending, modem, history>>

(* Variant: an error of any kind ends the loop, a duplicate id included. *)
SendMessageStopsOnError(p) ==
  \/ /\ QueueFull \/ IdInUse(p.id)
     /\ pc' = "pushed"
     /\ UNCHANGED queue
  \/ /\ ~QueueFull /\ ~IdInUse(p.id)
     /\ pc' = "push"
     /\ queue' = queue \cup {p}

(* syshal_sat_send_message.  Only a full queue ends the loop: a duplicate   *)
(* id or a failed exchange counts as success.  A late answer may say that   *)
(* the queue is full, whatever became of the payload.                       *)
SendMessage(p) ==
  \/ /\ QueueFull
     /\ pc' \in {"pushed"} \cup (IF "link_fault" \in Hazards THEN {"push"} ELSE {})
     /\ UNCHANGED queue
  \/ /\ IdInUse(p.id) \/ "link_fault" \in Hazards
     /\ pc' = "push"
     /\ UNCHANGED queue
  \/ /\ ~QueueFull /\ ~IdInUse(p.id)
     /\ pc' \in {"push"} \cup (IF "late_answer" \in Hazards THEN {"pushed"} ELSE {})
     /\ queue' = queue \cup {p}
  \/ /\ "late_answer" \in Hazards
     /\ pc' = "pushed"
     /\ UNCHANGED queue

(* Variant: a slot counts as transmitted once it was offered. *)
PushSlotMarksSent(i) ==
  /\ pc = "push"
  /\ push_i < NbSlots
  /\ IsYoungestOlderThan(logger_struct, prv_slot_epoch, i)
  /\ prv_slot_epoch' = logger_struct[i].createdDate
  /\ push_i' = push_i + 1
  /\ IF logger_struct[i].status = "WAITING_TRANSMIT"
     THEN SendMessage([id |-> logger_struct[i].id, data |-> logger_struct[i].data])
     ELSE UNCHANGED <<pc, queue>>
  /\ logger_struct' = SetStatus(logger_struct, i, "TRANSMITTED")
  /\ UNCHANGED <<logger_new_data_available, request_sat_status_update, sat_state,
                 new_event_pending, acks, cmd, reset_evt, history>>

(* One turn of the loop: the youngest slot below the last date, sent if it  *)
(* waits for transmission.                                                  *)
PushSlot(i) ==
  /\ pc = "push"
  /\ push_i < NbSlots
  /\ IsYoungestOlderThan(logger_struct, prv_slot_epoch, i)
  /\ prv_slot_epoch' = logger_struct[i].createdDate
  /\ push_i' = push_i + 1
  /\ IF logger_struct[i].status = "WAITING_TRANSMIT"
     THEN SendMessage([id |-> logger_struct[i].id, data |-> logger_struct[i].data])
     ELSE UNCHANGED <<pc, queue>>
  /\ UNCHANGED <<logger_struct, logger_new_data_available, request_sat_status_update, sat_state,
                 new_event_pending, acks, cmd, reset_evt, history>>

(* Variant: the last slot of a full table is not looked at. *)
PushExhaustedEarly ==
  /\ Goto("push", "pushed")
  /\ push_i + 1 = NbSlots \/ OlderThan(logger_struct, prv_slot_epoch) = {}
  /\ UNCHANGED <<logger_struct, logger_new_data_available, request_sat_status_update, sat_state,
                 prv_slot_epoch, push_i, new_event_pending, modem, history>>

(* No slot is left below the last date, or the loop bound is reached. *)
PushExhausted ==
  /\ Goto("push", "pushed")
  /\ push_i = NbSlots \/ OlderThan(logger_struct, prv_slot_epoch) = {}
  /\ UNCHANGED <<logger_struct, logger_new_data_available, request_sat_status_update, sat_state,
                 prv_slot_epoch, push_i, new_event_pending, modem, history>>

(* The rest of the push and the main loop's reset of the flag. *)
PushEnd ==
  /\ Goto("pushed", "gps")
  /\ request_sat_status_update' = TRUE
  /\ sat_state' = "ASLEEP"
  /\ logger_new_data_available' = FALSE
  /\ prv_slot_epoch' = 0 /\ push_i' = 0
  /\ UNCHANGED <<logger_struct, new_event_pending, modem, history>>

(* Variant: the modem keeps its queue and its acknowledgements. *)
RebootKeepsModem ==
  /\ "reboot" \in Hazards
  /\ logger_struct' = EmptyTable
  /\ logger_new_data_available' = FALSE
  /\ new_event_pending' = EvtPin
  /\ request_sat_status_update' = FALSE
  /\ sat_state' = "ASLEEP"
  /\ pc' = "gps"
  /\ prv_slot_epoch' = 0 /\ push_i' = 0
  /\ dropped' = dropped \cup (Pending(logger_struct) \ delivered)
  /\ UNCHANGED <<modem, logged, delivered, duplicated, unread, cmds>>

(* A watchdog fires: RAM is lost; syshal_sat_init enables the interrupt and *)
(* resets the modem, so a raised EVT pin falls and sets the flag.           *)
Reboot ==
  /\ "reboot" \in Hazards
  /\ logger_struct' = EmptyTable
  /\ logger_new_data_available' = FALSE
  /\ new_event_pending' = EvtPin
  /\ request_sat_status_update' = FALSE
  /\ sat_state' = "ASLEEP"
  /\ pc' = "gps"
  /\ prv_slot_epoch' = 0 /\ push_i' = 0
  /\ queue' = {} /\ acks' = <<>> /\ cmd' = "none" /\ reset_evt' = TRUE
  /\ dropped' = dropped \cup (Pending(logger_struct) \ delivered)
  /\ UNCHANGED <<logged, delivered, duplicated, unread, cmds>>

MainLoop ==
  \/ GpsDone \/ SatTickIdle \/ SatTickStart \/ ReadAck \/ MisreadAck
  \/ ClearUnreadAck \/ ReadReset \/ ReadCommand \/ EventsDone \/ SatTickEnd
  \/ ScreenDone \/ StatusUpdate
  \/ PushIdle \/ PushStart \/ (\E i \in Slots : PushSlot(i)) \/ PushExhausted \/ PushEnd

Environment ==
  \/ \E p \in queue : SatellitePass(p)
  \/ \E c \in {"msg", "other"} : SatelliteCommand(c)
  \/ \E tag \in GpsTags, date \in Dates, d \in Data : GpsMessage(tag, date, d)
  \/ \E date \in Dates, d \in Data : UserMessage(date, d)
  \/ UserClear
  \/ SatpassStart
  \/ Reboot

Next == MainLoop \/ Environment

Spec == Init /\ [][Next]_vars

(* The main loop runs for ever (sleep ends at the latest when the hardware  *)
(* watchdog has to be kicked), and satellites keep passing.                 *)
Fairness ==
  /\ WF_vars(MainLoop)
  /\ WF_vars(\E p \in queue : SatellitePass(p))

LiveSpec == Spec /\ Fairness

-----------------------------------------------------------------------------
(* Type invariant. *)
TypeOK ==
  /\ logger_struct \in [Slots -> Slot]
  /\ logger_new_data_available \in BOOLEAN
  /\ new_event_pending \in BOOLEAN
  /\ request_sat_status_update \in BOOLEAN
  /\ sat_state \in {"ASLEEP", "ACTIVE"}
  /\ pc \in Stages
  /\ prv_slot_epoch \in {0, MaxEpoch} \cup Dates
  /\ push_i \in 0 .. NbSlots
  /\ queue \subseteq Payload
  /\ acks \in Seq(Slots)
  /\ cmd \in Cmds
  /\ reset_evt \in BOOLEAN
  /\ logged \subseteq Data
  /\ delivered \subseteq logged
  /\ duplicated \subseteq delivered
  /\ dropped \subseteq logged
  /\ unread \subseteq Data
  /\ cmds \in 0 .. MaxCmds

(* The logger forgets a message, or marks it TRANSMITTED (sm_main.cpp:341), *)
(* only once a satellite has received it, or the user cleared it, or the    *)
(* RAM was lost.                                                            *)
NoSilentLoss ==
  logged \subseteq delivered \cup dropped \cup Pending(logger_struct)

(* No message is sent to a satellite twice, although a push offers every    *)
(* waiting slot again, those in the modem's queue and those a satellite has *)
(* acknowledged included.  The one exception is a message whose             *)
(* acknowledgement the driver cleared without reading it, after a late      *)
(* answer.                                                                  *)
NoDuplicate == duplicated \subseteq unread

(* A slot id means the same message to the modem and to the logger: what    *)
(* the modem's queue holds under an id is the payload of that slot, which   *)
(* is still waiting for transmission and is queued once.                    *)
QueueMatchesLogger ==
  \A p \in queue :
    /\ p.id \in Waiting(logger_struct)
    /\ p.data = logger_struct[p.id].data
    /\ \A q \in queue : q.id = p.id => q = p

(* The modem holds the id of the slot: queued, or acknowledged and unread. *)
KnownToModem(i) == i \in {p.id : p \in queue} \cup Range(acks)

(* No waiting message is left behind: outside a push each one is known to   *)
(* the modem, or the flag that triggers the next push is up.                *)
NoStranded ==
  \A i \in Waiting(logger_struct) : KnownToModem(i) \/ logger_new_data_available

(* A push ends with every waiting message in the modem's hands, or because  *)
(* the modem's queue is full, and for no other reason: one refused as a     *)
(* duplicate does not keep the older ones from being offered, and the bound *)
(* of the loop leaves none out.                                             *)
PushOffersAll ==
  [][pc = "push" /\ pc' = "pushed" =>
       QueueFull \/ \A i \in Waiting(logger_struct) : KnownToModem(i)]_vars

(* The uplink delivers what Delivery promises. *)
Promise == INSTANCE Delivery WITH pending <- Pending(logger_struct) \ delivered
PromiseSpec == Promise!Spec

(* Every message the logger accepts is received by a satellite, unless the  *)
(* RAM is lost first.                                                       *)
EveryMessageDelivered ==
  \A d \in Data : d \in logged ~> d \in delivered \cup dropped

(* The tracker is informed of every acknowledgement (README, with_pld_ack). *)
AckReported == acks # <<>> ~> acks = <<>>

=============================================================================

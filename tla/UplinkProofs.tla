---------------------------- MODULE UplinkProofs ----------------------------
(***************************************************************************)
(* Proofs about Uplink: its type invariant and NoDuplicate whatever the    *)
(* environment does (any value of Hazards), NoSilentLoss and               *)
(* QueueMatchesLogger as long as the environment does none of the things   *)
(* the runs show to break them (RegularUse); PushOffersAll and NoStranded  *)
(* as long as the walk over the dates is orderly.                          *)
(***************************************************************************)
EXTENDS Uplink, LoggerTableProofs, FiniteSetTheorems

-----------------------------------------------------------------------------
(* The inductive invariants, in named parts. *)

(* Whatever a slot or the modem holds was logged. *)
AllLogged ==
  /\ \A i \in Slots : logger_struct[i].data \in logged \cup {NoData}
  /\ \A p \in queue : p.data \in logged \cup {NoData}

TInv == TypeOK /\ AllLogged

(* A message has one slot, and the modem knows it by the id of that slot.   *)
OneSlotEach ==
  /\ \A i, j \in Slots :
        logger_struct[i].data = logger_struct[j].data /\ logger_struct[i].data # NoData
          => i = j
  /\ \A p \in queue, i \in Slots :
        p.data = logger_struct[i].data /\ p.data # NoData => p.id = i
  /\ \A p, q \in queue : p.data = q.data /\ p.data # NoData => p = q

(* The modem knows an id once: in its queue or among its acknowledgements.  *)
OneIdEach ==
  /\ \A p, q \in queue : p.id = q.id => p = q
  /\ \A p \in queue : p.id \notin Range(acks)
  /\ \A k, l \in DOMAIN acks : acks[k] = acks[l] => k = l

(* What a satellite has received is not in the queue, and if its slot still *)
(* waits then the acknowledgement is yet to be read; unless it was cleared  *)
(* unread.                                                                  *)
DeliveredOnce ==
  /\ \A p \in queue : p.data \notin delivered \ unread
  /\ \A i \in Waiting(logger_struct) :
        logger_struct[i].data \in delivered \ unread => i \in Range(acks)
  /\ duplicated \subseteq unread

DInv == TInv /\ SlotIds(logger_struct) /\ OneSlotEach /\ OneIdEach /\ DeliveredOnce

(* An acknowledgement that is for the message of the slot it names. *)
Good(a) ==
  /\ a \in Waiting(logger_struct)
  /\ logger_struct[a].data \in delivered \cup {NoData}

(* Every acknowledgement is good, or it comes again because the exchange    *)
(* that clears it failed.  Such a one does no harm while the tick lasts,    *)
(* since no slot is filled meanwhile; and after the tick it is never read:  *)
(* the pin stays up, so nothing raises the flag again.                      *)
AcksGood ==
  \/ \A a \in Range(acks) : Good(a)
  \/ /\ "link_fault" \in Hazards
     /\ \/ pc = "drained"
        \/ pc = "event" /\ \A a \in Range(acks) : Good(a) \/ a \notin Waiting(logger_struct)
        \/ pc # "event" /\ ~new_event_pending /\ acks # <<>>

LInv == DInv /\ QueueMatchesLogger /\ AcksGood /\ NoSilentLoss

(* No clearing by the user, no failing read of an acknowledgement and no    *)
(* late answer.                                                             *)
RegularUse == {"user_clear", "ack_read_fault", "late_answer"} \cap Hazards = {}

-----------------------------------------------------------------------------
(* What the handlers do to the table. *)

(* The acknowledgement handler keeps the types and adds no payload. *)
LEMMA OnMsgAckType ==
  ASSUME NEW t \in Table, NEW id, NEW date \in Dates
  PROVE  /\ OnMsgAck(t, id, date) \in Table
         /\ \A i \in Slots : OnMsgAck(t, id, date)[i].data \in {t[i].data, NoData}
<1> DEFINE s == SetStatus(t, id, "TRANSMITTED")
           m == SetAcknowledgedDate(s, id, date)
<1>1. s \in Table /\ \A i \in Slots : s[i].data = t[i].data
  BY DEF SetStatus, Table, Slot, Status
<1>2. m \in Table /\ \A i \in Slots : m[i].data = s[i].data
  BY <1>1, SetAcknowledgedDateLemma
<1>3. /\ ClearSlot(m, id) \in Table
      /\ \A i \in Slots : ClearSlot(m, id)[i].data \in {m[i].data, NoData}
  <2> HIDE DEF m
  <2> QED  BY <1>2, ClearSlotLemma, ClearedLemma DEF Table
<1>4. OnMsgAck(t, id, date) \in {m, ClearSlot(m, id)}
  BY DEF OnMsgAck
<1> QED
  BY <1>1, <1>2, <1>3, <1>4

(* So does the handler of a message of the operator. *)
LEMMA LogCommandType ==
  ASSUME logger_struct \in Table, UplinkAssumption, LogCommand
  PROVE  /\ logger_struct' \in Table
         /\ \A i \in Slots : logger_struct'[i].data \in {logger_struct[i].data, NoData}
<1>1. ASSUME NEW i \in Slots, NEW date \in Dates, NEW ackdate \in AckDates, NEW id,
             logger_struct' =
               SetStatus(SetAcknowledgedDate(InsertData(logger_struct, i, "U_CMD", date, NoData),
                                             id, ackdate), id, "TRANSMITTED")
      PROVE  /\ logger_struct' \in Table
             /\ \A j \in Slots : logger_struct'[j].data \in {logger_struct[j].data, NoData}
  <2> DEFINE n == InsertData(logger_struct, i, "U_CMD", date, NoData)
             m == SetAcknowledgedDate(n, id, ackdate)
  <2>1. n \in Table /\ \A j \in Slots : n[j].data \in {logger_struct[j].data, NoData}
    BY InsertDataLemma DEF Tags
  <2>2. ackdate \in Dates
    BY DEF UplinkAssumption
  <2>3. m \in Table /\ \A j \in Slots : m[j].data = n[j].data
    <3> HIDE DEF n
    <3> QED  BY <2>1, <2>2, SetAcknowledgedDateLemma
  <2>4. /\ SetStatus(m, id, "TRANSMITTED") \in Table
        /\ \A j \in Slots : SetStatus(m, id, "TRANSMITTED")[j].data = m[j].data
    <3> HIDE DEF m
    <3> QED  BY <2>3 DEF SetStatus, Table, Slot, Status
  <2> QED
    BY <1>1, <2>1, <2>3, <2>4
<1> QED
  BY <1>1 DEF LogCommand

-----------------------------------------------------------------------------
(* Type correctness. *)

LEMMA TInvInit == Init => TInv
<1> SUFFICES ASSUME Init PROVE TInv
  OBVIOUS
<1>1. logger_struct \in Table /\ \A i \in Slots : logger_struct[i].data = NoData
  BY EmptyTableLemma DEF Init, EmptyTable
<1>2. acks \in Seq(Slots)
  BY DEF Init
<1>3. cmds \in 0 .. MaxCmds /\ push_i \in 0 .. NbSlots
  BY LoggerAssumption, UplinkAssumption DEF Init, LoggerAssumption, UplinkAssumption
<1>4. pc \in Stages /\ cmd \in Cmds /\ prv_slot_epoch = 0
  BY DEF Init, Stages, Cmds
<1> QED
  BY <1>1, <1>2, <1>3, <1>4 DEF Init, TInv, TypeOK, AllLogged, Table

LEMMA TInvStep == TInv /\ [Next]_vars => TInv'
<1> SUFFICES ASSUME TInv, [Next]_vars PROVE TInv'
  OBVIOUS
<1> USE DEF TInv, TypeOK, AllLogged, tracker, modem, history
<1>0. logger_struct \in Table
  BY DEF Table
<1>1. CASE UNCHANGED vars
  BY <1>1 DEF vars
<1>2. ASSUME NEW p \in queue, SatellitePass(p) PROVE TInv'
  <2>1. p \in Payload /\ p.id \in Slots /\ p.data \in logged \cup {NoData}
    BY DEF Payload
  <2>2. acks' \in Seq(Slots)
    BY <1>2, <2>1 DEF SatellitePass
  <2>3. new_event_pending' \in BOOLEAN
    BY <1>2 DEF SatellitePass, Interrupt
  <2> QED
    BY <1>2, <2>1, <2>2, <2>3 DEF SatellitePass
<1>3. ASSUME NEW c \in {"msg", "other"}, SatelliteCommand(c) PROVE TInv'
  <2>1. new_event_pending' \in BOOLEAN
    BY <1>3 DEF SatelliteCommand, Interrupt
  <2>2. cmd' \in Cmds /\ cmds' \in 0 .. MaxCmds
    BY <1>3, UplinkAssumption DEF SatelliteCommand, Cmds, UplinkAssumption
  <2> QED
    BY <1>3, <2>1, <2>2 DEF SatelliteCommand
<1>4. ASSUME NEW tag \in Tags, NEW date \in Dates, NEW d \in Data, LogMessage(tag, date, d)
      PROVE  TInv'
  <2>1. /\ logger_struct' \in Table
        /\ logged' \subseteq Data /\ logged \subseteq logged'
        /\ \A i \in Slots : logger_struct'[i].data \in logged' \cup {NoData}
    <3>1. ASSUME NEW i \in Slots, NEW e \in {d, NoData},
                 logger_struct' = InsertData(logger_struct, i, tag, date, e),
                 logged' = IF e = d THEN logged \cup {d} ELSE logged
          PROVE  <2>1!1 /\ <2>1!2 /\ <2>1!3
      BY <1>0, <3>1, InsertDataLemma
    <3>2. CASE UNCHANGED <<logger_struct, logged>>
      BY <1>0, <3>2
    <3> QED
      BY <1>4, <3>1, <3>2, LoggerAssumption DEF LogMessage, LoggerAssumption
  <2> QED
    BY <1>4, <2>1 DEF LogMessage, Table
<1>5. ASSUME UserClear PROVE TInv'
  <2>1. /\ logger_struct' \in Table
        /\ \A i \in Slots : logger_struct'[i].data \in {logger_struct[i].data, NoData}
    BY <1>0, <1>5, ClearMatchingTagLemma, ClearedLemma DEF UserClear, Table
  <2>2. Pending(logger_struct) \subseteq logged
    BY DEF Pending, Waiting, Occupied
  <2> QED
    BY <1>5, <2>1, <2>2 DEF UserClear, Table
<1>6. ASSUME ReadAck PROVE TInv'
  <2>1. acks' \in Seq(Slots)
    BY <1>6 DEF ReadAck
  <2>2. /\ logger_struct' \in Table
        /\ \A i \in Slots : logger_struct'[i].data \in {logger_struct[i].data, NoData}
    BY <1>0, <1>6, OnMsgAckType, UplinkAssumption DEF ReadAck, UplinkAssumption
  <2>3. new_event_pending' \in BOOLEAN
    BY <1>6 DEF ReadAck, Interrupt
  <2> QED
    BY <1>6, <2>1, <2>2, <2>3 DEF ReadAck, Table
<1>61. ASSUME ClearUnreadAck PROVE TInv'
  <2>1. acks' \in Seq(Slots) /\ unread' \subseteq Data
    BY <1>61 DEF ClearUnreadAck
  <2>2. /\ logger_struct' \in Table
        /\ \A i \in Slots : logger_struct'[i].data \in {logger_struct[i].data, NoData}
    BY <1>0, <1>61, OnMsgAckType, UplinkAssumption DEF ClearUnreadAck, UplinkAssumption
  <2>3. new_event_pending' \in BOOLEAN
    BY <1>61 DEF ClearUnreadAck, Interrupt
  <2> QED
    BY <1>61, <2>1, <2>2, <2>3 DEF ClearUnreadAck, Table
<1>7. ASSUME MisreadAck PROVE TInv'
  <2>1. /\ logger_struct' \in Table
        /\ \A i \in Slots : logger_struct'[i].data \in {logger_struct[i].data, NoData}
    BY <1>0, <1>7, OnMsgAckType, UplinkAssumption DEF MisreadAck, UplinkAssumption
  <2> QED
    BY <1>7, <2>1 DEF MisreadAck, Table
<1>8. ASSUME ReadCommand PROVE TInv'
  <2>1. /\ logger_struct' \in Table
        /\ \A i \in Slots : logger_struct'[i].data \in {logger_struct[i].data, NoData}
    BY <1>0, <1>8, LogCommandType, UplinkAssumption DEF ReadCommand
  <2>2. cmd' \in Cmds /\ new_event_pending' \in BOOLEAN
    BY <1>8 DEF ReadCommand, Interrupt, Cmds
  <2> QED
    BY <1>8, <2>1, <2>2 DEF ReadCommand, Table
<1>9. ASSUME NEW i \in Slots, PushSlot(i) PROVE TInv'
  <2> DEFINE p == [id |-> logger_struct[i].id, data |-> logger_struct[i].data]
  <2>1. p \in Payload /\ p.data \in logged \cup {NoData}
    <3>1. i \in Occupied(logger_struct)
      BY <1>9 DEF PushSlot, IsYoungestOlderThan, OlderThan
    <3> QED
      BY <3>1 DEF Occupied, Payload, Slot
  <2>2. queue' \subseteq queue \cup {p} /\ pc' \in Stages
    BY <1>9 DEF PushSlot, SendMessage, Stages
  <2>3. push_i' \in 0 .. NbSlots /\ prv_slot_epoch' \in {0, MaxEpoch} \cup Dates
    BY <1>9, LoggerAssumption DEF PushSlot, LoggerAssumption, Slot
  <2> QED
    BY <1>9, <2>1, <2>2, <2>3 DEF PushSlot
<1>10. ASSUME Reboot PROVE TInv'
  <2>1. logger_struct' \in Table /\ \A i \in Slots : logger_struct'[i].data = NoData
    BY <1>10, EmptyTableLemma DEF Reboot, EmptyTable
  <2>2. Pending(logger_struct) \subseteq logged
    BY DEF Pending, Waiting, Occupied
  <2>3. <<>> \in Seq(Slots)
    OBVIOUS
  <2>4. new_event_pending' \in BOOLEAN
    BY <1>10 DEF Reboot, EvtPin, Pin
  <2>5. /\ logged' = logged /\ delivered' = delivered /\ duplicated' = duplicated
        /\ unread' = unread
        /\ cmds' = cmds /\ dropped' \subseteq logged
    BY <1>10, <2>2 DEF Reboot
  <2>6. /\ pc' \in Stages /\ cmd' \in Cmds /\ queue' = {} /\ acks' = <<>>
        /\ sat_state' \in {"ASLEEP", "ACTIVE"}
        /\ prv_slot_epoch' = 0 /\ push_i' = 0
        /\ logger_new_data_available' = FALSE /\ request_sat_status_update' = FALSE
        /\ reset_evt' = TRUE
    BY <1>10 DEF Reboot, Stages, Cmds
  <2>7. 0 \in 0 .. NbSlots
    BY LoggerAssumption DEF LoggerAssumption
  <2> QED
    BY <2>1, <2>3, <2>4, <2>5, <2>6, <2>7 DEF Table
<1>11. ASSUME \/ GpsDone \/ SatTickIdle \/ SatTickStart \/ ReadReset \/ EventsDone \/ SatTickEnd
              \/ ScreenDone \/ StatusUpdate \/ PushIdle \/ PushStart \/ PushExhausted
              \/ PushEnd \/ SatpassStart
       PROVE  TInv'
  <2>1. /\ UNCHANGED <<logger_struct, queue, acks, cmd, history>>
        /\ reset_evt' \in BOOLEAN
    BY <1>11
    DEF GpsDone, SatTickIdle, SatTickStart, ReadReset, EventsDone, SatTickEnd, ScreenDone,
        StatusUpdate, PushIdle, PushStart, PushExhausted, PushEnd, SatpassStart
  <2>2. /\ logger_new_data_available' \in BOOLEAN /\ new_event_pending' \in BOOLEAN
        /\ request_sat_status_update' \in BOOLEAN
    BY <1>11
    DEF GpsDone, SatTickIdle, SatTickStart, ReadReset, EventsDone, SatTickEnd, ScreenDone,
        StatusUpdate, PushIdle, PushStart, PushExhausted, PushEnd, SatpassStart
  <2>3. pc' \in Stages /\ sat_state' \in {"ASLEEP", "ACTIVE"}
    BY <1>11
    DEF GpsDone, SatTickIdle, SatTickStart, ReadReset, EventsDone, SatTickEnd, ScreenDone,
        StatusUpdate, PushIdle, PushStart, PushExhausted, PushEnd, SatpassStart, Goto, Stages
  <2>4. prv_slot_epoch' \in {0, MaxEpoch} \cup Dates /\ push_i' \in 0 .. NbSlots
    <3>1. prv_slot_epoch' \in {prv_slot_epoch, MaxEpoch, 0} /\ push_i' \in {push_i, 0}
      BY <1>11
      DEF GpsDone, SatTickIdle, SatTickStart, ReadReset, EventsDone, SatTickEnd, ScreenDone,
          StatusUpdate, PushIdle, PushStart, PushExhausted, PushEnd, SatpassStart
    <3>2. 0 \in 0 .. NbSlots
      BY LoggerAssumption DEF LoggerAssumption
    <3> QED
      BY <3>1, <3>2
  <2> QED
    BY <2>1, <2>2, <2>3, <2>4
<1>12. GpsTags \subseteq Tags /\ "U_MSG" \in Tags
  BY UplinkAssumption DEF UplinkAssumption, Tags
<1> QED
  BY <1>1, <1>2, <1>3, <1>4, <1>5, <1>6, <1>61, <1>7, <1>8, <1>9, <1>10, <1>11, <1>12
  DEF Next, MainLoop, Environment, GpsMessage, UserMessage

(* TypeOK holds in every state, for any number of slots, any messages and   *)
(* any behaviour of the environment.                                        *)
THEOREM TypeCorrect == Spec => []TypeOK
<1>1. TInv => TypeOK
  BY DEF TInv
<1> QED
  BY <1>1, TInvInit, TInvStep, PTL DEF Spec

-----------------------------------------------------------------------------
(* What the handlers do to ids and to the messages that wait. *)

(* u holds no payload that t does not hold in the same slot, and no payload *)
(* waits in u that does not wait in t.                                      *)
NothingNew(t, u) ==
  \A i \in Slots :
    /\ u[i].data \in {t[i].data, NoData}
    /\ i \in Waiting(u) /\ u[i].data # NoData => i \in Waiting(t)

(* The acknowledgement handler changes the slot it finds and no other one:  *)
(* it marks that slot as transmitted, or empties it.                        *)
LEMMA OnMsgAckLemma ==
  ASSUME NEW t \in Table, SlotIds(t), NEW id, NEW date \in Dates
  PROVE  LET u == OnMsgAck(t, id, date) IN
         /\ SlotIds(u)
         /\ \A i \in Slots :
              \/ /\ u[i].id = t[i].id /\ u[i].data = t[i].data
                 /\ u[i].status = IF Finds(t, id, i) THEN "TRANSMITTED" ELSE t[i].status
              \/ /\ Finds(t, id, i)
                 /\ u[i].id = 0 /\ u[i].data = NoData /\ u[i].status = "EMPTY"
<1> DEFINE s == SetStatus(t, id, "TRANSMITTED")
           m == SetAcknowledgedDate(s, id, date)
           u == OnMsgAck(t, id, date)
<1>1. /\ s \in Table
      /\ \A i \in Slots : /\ s[i].id = t[i].id /\ s[i].data = t[i].data
                          /\ s[i].status = IF Finds(t, id, i) THEN "TRANSMITTED" ELSE t[i].status
  BY DEF SetStatus, Table, Slot, Status
<1>2. /\ m \in Table
      /\ \A i \in Slots : m[i].id = s[i].id /\ m[i].data = s[i].data /\ m[i].status = s[i].status
  BY <1>1, SetAcknowledgedDateLemma
<1>3. \A i \in Slots : Finds(m, id, i) <=> Finds(t, id, i)
  BY <1>1, <1>2 DEF Finds, IsFirst
<1>4. \A i \in Slots :
        ClearSlot(m, id)[i] = IF Finds(t, id, i) THEN Cleared(m[i]) ELSE m[i]
  <2> HIDE DEF m
  <2> QED  BY <1>2, <1>3, ClearSlotLemma
<1>5. \A i \in Slots : /\ Cleared(m[i]).id = 0 /\ Cleared(m[i]).data = NoData
                       /\ Cleared(m[i]).status = "EMPTY"
  <2> HIDE DEF m
  <2> QED  BY <1>2, ClearedLemma DEF Table
<1>6. u = m \/ u = ClearSlot(m, id)
  BY DEF OnMsgAck
<1>7. \A i \in Slots :
        \/ /\ u[i].id = t[i].id /\ u[i].data = t[i].data
           /\ u[i].status = IF Finds(t, id, i) THEN "TRANSMITTED" ELSE t[i].status
        \/ /\ Finds(t, id, i)
           /\ u[i].id = 0 /\ u[i].data = NoData /\ u[i].status = "EMPTY"
  <2> HIDE DEF m, u
  <2>1. CASE u = m
    BY <1>1, <1>2, <2>1
  <2>2. CASE u = ClearSlot(m, id)
    BY <1>1, <1>2, <1>4, <1>5, <2>2
  <2> QED  BY <1>6, <2>1, <2>2
<1>8. SlotIds(u)
  <2> HIDE DEF u
  <2> QED  BY <1>7 DEF SlotIds
<1> QED
  BY <1>7, <1>8

(* Consequences: nothing new; slots of another id are untouched; the slot   *)
(* of the id no longer waits.                                               *)
LEMMA OnMsgAckEffect ==
  ASSUME NEW t \in Table, SlotIds(t), NEW id, NEW date \in Dates
  PROVE  LET u == OnMsgAck(t, id, date) IN
         /\ NothingNew(t, u)
         /\ id # 0 => \A i \in Slots : i # id =>
              u[i].id = t[i].id /\ u[i].data = t[i].data /\ u[i].status = t[i].status
         /\ id \in Slots => id \notin Waiting(u)
<1> DEFINE u == OnMsgAck(t, id, date)
<1>1. /\ SlotIds(u)
      /\ \A i \in Slots :
              \/ /\ u[i].id = t[i].id /\ u[i].data = t[i].data
                 /\ u[i].status = IF Finds(t, id, i) THEN "TRANSMITTED" ELSE t[i].status
              \/ /\ Finds(t, id, i)
                 /\ u[i].id = 0 /\ u[i].data = NoData /\ u[i].status = "EMPTY"
  BY OnMsgAckLemma
<1> HIDE DEF u
<1>2. NothingNew(t, u)
  BY <1>1 DEF NothingNew, Waiting, Occupied
<1>3. ASSUME id # 0, NEW i \in Slots, i # id
      PROVE  u[i].id = t[i].id /\ u[i].data = t[i].data /\ u[i].status = t[i].status
  BY <1>1, <1>3, FindsIsIndex
<1>4. ASSUME id \in Slots PROVE id \notin Waiting(u)
  <2>1. CASE t[id].id = 0
    BY <1>1, <1>4, <2>1 DEF Waiting, Occupied, SlotIds
  <2>2. CASE t[id].id # 0
    BY <1>1, <1>4, <2>2, TakenIsFound DEF Waiting, Occupied
  <2> QED  BY <2>1, <2>2
<1> QED
  BY <1>2, <1>3, <1>4 DEF u

(* The handler of a message of the operator takes an empty slot and puts no *)
(* payload in it.                                                           *)
LEMMA LogCommandEffect ==
  ASSUME logger_struct \in Table, SlotIds(logger_struct), UplinkAssumption, LogCommand
  PROVE  /\ SlotIds(logger_struct')
         /\ NothingNew(logger_struct, logger_struct')
         /\ \A i \in Slots : i \in Waiting(logger_struct) =>
              /\ logger_struct'[i].id = logger_struct[i].id
              /\ logger_struct'[i].data = logger_struct[i].data
              /\ logger_struct'[i].status = logger_struct[i].status
<1>1. ASSUME NEW i \in Slots, NEW date \in Dates, NEW ackdate \in AckDates, NEW id \in {0, i},
             FirstFree(logger_struct, i),
             logger_struct' =
               SetStatus(SetAcknowledgedDate(InsertData(logger_struct, i, "U_CMD", date, NoData),
                                             id, ackdate), id, "TRANSMITTED")
      PROVE  /\ SlotIds(logger_struct')
             /\ NothingNew(logger_struct, logger_struct')
             /\ \A j \in Slots : j \in Waiting(logger_struct) =>
                  /\ logger_struct'[j].id = logger_struct[j].id
                  /\ logger_struct'[j].data = logger_struct[j].data
                  /\ logger_struct'[j].status = logger_struct[j].status
  <2> DEFINE n == InsertData(logger_struct, i, "U_CMD", date, NoData)
             m == SetAcknowledgedDate(n, id, ackdate)
             u == SetStatus(m, id, "TRANSMITTED")
  <2>0. logger_struct[i].id = 0
    BY <1>1, FirstFreeIsEmpty
  <2>1. /\ n \in Table /\ n[i].id = i /\ n[i].data = NoData
        /\ \A j \in Slots : j # i => n[j] = logger_struct[j]
    BY InsertDataLemma DEF Tags
  <2>2. ackdate \in Dates
    BY DEF UplinkAssumption
  <2>3. /\ m \in Table
        /\ \A j \in Slots : m[j].id = n[j].id /\ m[j].data = n[j].data /\ m[j].status = n[j].status
    <3> HIDE DEF n
    <3> QED  BY <2>1, <2>2, SetAcknowledgedDateLemma
  <2>4. /\ u \in Table
        /\ \A j \in Slots : /\ u[j].id = m[j].id /\ u[j].data = m[j].data
                            /\ u[j].status = IF Finds(m, id, j) THEN "TRANSMITTED" ELSE m[j].status
    <3> HIDE DEF m
    <3> QED  BY <2>3 DEF SetStatus, Table, Slot, Status
  <2> HIDE DEF n, m, u
  <2>5. SlotIds(u)
    BY <2>1, <2>3, <2>4, SlotsAreNat DEF SlotIds
  <2>6. ASSUME NEW j \in Slots, j # i, logger_struct[j].id # 0
        PROVE  ~Finds(m, id, j)
    BY <2>1, <2>3, <2>6, FindsOne DEF SlotIds
  <2>7. \A j \in Slots : j # i => /\ u[j].id = logger_struct[j].id
                                  /\ u[j].data = logger_struct[j].data
                                  /\ logger_struct[j].id # 0 => u[j].status = logger_struct[j].status
    BY <2>1, <2>3, <2>4, <2>6
  <2>8. u[i].data = NoData
    BY <2>1, <2>3, <2>4
  <2>9. logger_struct' = u
    BY <1>1 DEF u, m, n
  <2>10. NothingNew(logger_struct, u)
    BY <2>7, <2>8 DEF NothingNew, Waiting, Occupied
  <2>11. ASSUME NEW j \in Slots, j \in Waiting(logger_struct)
         PROVE  /\ u[j].id = logger_struct[j].id
                /\ u[j].data = logger_struct[j].data
                /\ u[j].status = logger_struct[j].status
    BY <2>0, <2>7, <2>11 DEF Waiting, Occupied
  <2> QED
    BY <2>5, <2>9, <2>10, <2>11
<1>2. CASE UNCHANGED logger_struct
  BY <1>2 DEF NothingNew
<1> QED
  BY <1>1, <1>2 DEF LogCommand

-----------------------------------------------------------------------------
(* No message is sent to a satellite twice. *)

(* A step that puts no payload in the table, and leaves the modem and what  *)
(* the satellites know alone, keeps the invariant.                          *)
LEMMA NothingNewKeeps ==
  ASSUME DInv, TInv', SlotIds(logger_struct'), NothingNew(logger_struct, logger_struct'),
         UNCHANGED <<queue, acks, delivered, duplicated, unread>>
  PROVE  DInv'
<1>1. OneSlotEach'
  BY DEF DInv, OneSlotEach, NothingNew
<1>2. OneIdEach'
  BY DEF DInv, OneIdEach, Range
<1>3. DeliveredOnce'
  <2>1. \A i \in Slots : i \in Waiting(logger_struct') => i \in Slots
    OBVIOUS
  <2>2. ASSUME NEW i \in Waiting(logger_struct'), logger_struct'[i].data \in delivered \ unread
        PROVE  i \in Range(acks)
    <3>1. i \in Slots /\ logger_struct'[i].data # NoData
      BY <2>2, LoggerAssumption DEF DInv, TInv, TypeOK, Waiting, Occupied, LoggerAssumption
    <3>2. i \in Waiting(logger_struct) /\ logger_struct'[i].data = logger_struct[i].data
      BY <2>2, <3>1 DEF NothingNew
    <3> QED
      BY <2>2, <3>2 DEF DInv, DeliveredOnce
  <2> QED
    BY <2>2 DEF DInv, DeliveredOnce, Range
<1> QED
  BY <1>1, <1>2, <1>3 DEF DInv

LEMMA DInvInit == Init => DInv
<1> SUFFICES ASSUME Init PROVE DInv
  OBVIOUS
<1>1. SlotIds(logger_struct) /\ \A i \in Slots : logger_struct[i].data = NoData
  BY EmptyTableLemma DEF Init, EmptyTable
<1>2. Waiting(logger_struct) = {} /\ Range(acks) = {}
  BY DEF Init, EmptyTable, Waiting, Occupied, Range
<1> QED
  BY <1>1, <1>2, TInvInit DEF DInv, Init, OneSlotEach, OneIdEach, DeliveredOnce

(* A satellite takes a payload whose message no satellite has, and no other *)
(* payload and no other slot holds that message.                            *)
LEMMA PassKeepsDInv ==
  ASSUME DInv, TInv', NEW p \in queue, SatellitePass(p)
  PROVE  DInv'
<1> USE DEF DInv, SatellitePass
<1>0. p.id \in Slots /\ p.data \in Data \cup {NoData} /\ acks \in Seq(Slots)
  BY DEF TInv, TypeOK, Payload
<1>1. /\ Range(acks') = Range(acks) \cup {p.id}
      /\ \A k, l \in DOMAIN acks' : acks'[k] = acks'[l] => k = l
  <2>1. /\ DOMAIN acks = 1 .. Len(acks) /\ Len(acks) \in Nat
        /\ DOMAIN acks' = 1 .. Len(acks) + 1
        /\ \A k \in 1 .. Len(acks) : acks'[k] = acks[k]
        /\ acks'[Len(acks) + 1] = p.id
    BY <1>0
  <2>2. p.id \notin Range(acks)
    BY DEF OneIdEach
  <2> QED
    BY <2>1, <2>2 DEF OneIdEach, Range
<1>2. OneSlotEach' /\ SlotIds(logger_struct')
  BY DEF OneSlotEach, tracker
<1>3. OneIdEach'
  <2>1. \A q \in queue' : q \in queue /\ q.id # p.id
    BY DEF OneIdEach
  <2> QED
    BY <1>1, <2>1 DEF OneIdEach
<1>4. \A q \in queue' : q.data \notin delivered' \ unread'
  BY LoggerAssumption DEF OneSlotEach, DeliveredOnce, LoggerAssumption
<1>5. \A i \in Waiting(logger_struct') :
        logger_struct'[i].data \in delivered' \ unread' => i \in Range(acks')
  <2>1. logger_struct' = logger_struct
    BY DEF tracker
  <2>2. ASSUME NEW i \in Waiting(logger_struct), logger_struct[i].data \in delivered' \ unread'
        PROVE  i \in Range(acks')
    <3>1. CASE logger_struct[i].data \in delivered
      BY <1>1, <2>2, <3>1 DEF DeliveredOnce
    <3>2. CASE logger_struct[i].data = p.data /\ p.data # NoData
      BY <1>1, <3>2 DEF OneSlotEach, Waiting, Occupied
    <3> QED
      BY <2>2, <3>1, <3>2
  <2> QED
    BY <2>1, <2>2
<1>6. duplicated' \subseteq unread'
  BY DEF DeliveredOnce
<1> QED
  BY <1>2, <1>3, <1>4, <1>5, <1>6 DEF DeliveredOnce

(* A slot that is offered while the modem does not use its id holds a       *)
(* message no satellite has.                                                *)
LEMMA PushKeepsDInv ==
  ASSUME DInv, TInv', NEW i \in Slots, PushSlot(i), AckHoldsId
  PROVE  DInv'
<1> USE DEF DInv
<1> DEFINE p == [id |-> logger_struct[i].id, data |-> logger_struct[i].data]
<1>1. /\ UNCHANGED <<logger_struct, acks, delivered, duplicated, unread>>
      /\ \/ UNCHANGED queue
         \/ /\ logger_struct[i].status = "WAITING_TRANSMIT"
            /\ ~IdInUse(p.id) /\ queue' = queue \cup {p}
  BY DEF PushSlot, SendMessage, history
<1>2. i \in Occupied(logger_struct) /\ logger_struct[i].id = i
  BY DEF PushSlot, IsYoungestOlderThan, OlderThan, Occupied, SlotIds
<1>3. CASE UNCHANGED queue
  BY <1>1, <1>3, NothingNewKeeps DEF NothingNew
<1>4. CASE /\ logger_struct[i].status = "WAITING_TRANSMIT"
           /\ ~IdInUse(p.id) /\ queue' = queue \cup {p}
  <2>1. i \in Waiting(logger_struct)
    BY <1>2, <1>4 DEF Waiting
  <2>2. (\A q \in queue : q.id # i) /\ i \notin Range(acks)
    BY <1>2, <1>4 DEF IdInUse
  <2>3. p.data \notin delivered \ unread
    BY <2>1, <2>2 DEF DeliveredOnce
  <2>4. OneSlotEach'
    BY <1>1, <1>2, <1>4, <2>2 DEF OneSlotEach
  <2>5. OneIdEach'
    BY <1>1, <1>2, <1>4, <2>2 DEF OneIdEach, Range
  <2>6. DeliveredOnce'
    BY <1>1, <1>4, <2>3 DEF DeliveredOnce, Waiting, Occupied, Range
  <2> QED
    BY <1>1, <2>4, <2>5, <2>6
<1> QED
  BY <1>1, <1>3, <1>4

(* An accepted message is in no other slot and no satellite has it. *)
LEMMA LogKeepsDInv ==
  ASSUME DInv, TInv', NEW tag \in Tags, NEW date \in Dates, NEW d \in Data,
         LogMessage(tag, date, d)
  PROVE  DInv'
<1> USE DEF DInv
<1>0. logger_struct \in Table
  BY DEF TInv, TypeOK, Table
<1>1. UNCHANGED <<queue, acks, delivered, duplicated, unread>> /\ d \notin logged
  BY DEF LogMessage, modem
<1>2. ASSUME NEW i \in Slots, NEW e \in {d, NoData}, FirstFree(logger_struct, i),
             logger_struct' = InsertData(logger_struct, i, tag, date, e)
      PROVE  DInv'
  <2>1. /\ logger_struct'[i].id = i /\ logger_struct'[i].data = e
        /\ \A j \in Slots : j # i => logger_struct'[j] = logger_struct[j]
    BY <1>0, <1>2, InsertDataLemma
  <2>2. logger_struct[i].id = 0 /\ i \notin Waiting(logger_struct)
    BY <1>2, FirstFreeIsEmpty DEF Waiting, Occupied
  <2>3. SlotIds(logger_struct')
    BY <2>1, SlotsAreNat DEF SlotIds
  <2>4. OneSlotEach'
    <3>1. \A j \in Slots : logger_struct[j].data # d
      BY <1>1, LoggerAssumption DEF TInv, AllLogged, LoggerAssumption
    <3>2. \A q \in queue : q.data # d
      BY <1>1, LoggerAssumption DEF TInv, AllLogged, LoggerAssumption
    <3> QED
      BY <1>1, <1>2, <2>1, <3>1, <3>2 DEF OneSlotEach
  <2>5. OneIdEach'
    BY <1>1 DEF OneIdEach, Range
  <2>6. DeliveredOnce'
    <3>1. e \notin delivered
      BY <1>1, LoggerAssumption DEF TInv, TypeOK, LoggerAssumption
    <3>2. \A j \in Waiting(logger_struct') : j # i => j \in Waiting(logger_struct)
      BY <2>1 DEF Waiting, Occupied
    <3>3. \A j \in Waiting(logger_struct') : j \in Slots
      BY DEF Waiting, Occupied
    <3> QED
      BY <1>1, <2>1, <3>1, <3>2, <3>3 DEF DeliveredOnce, Range
  <2> QED
    BY <2>3, <2>4, <2>5, <2>6
<1>3. CASE UNCHANGED logger_struct
  BY <1>1, <1>3, NothingNewKeeps DEF NothingNew
<1> QED
  BY <1>2, <1>3 DEF LogMessage

(* Reading takes the oldest acknowledgement, and only that id. *)
LEMMA TailLemma ==
  ASSUME NEW s \in Seq(Slots), s # <<>>, \A k, l \in DOMAIN s : s[k] = s[l] => k = l
  PROVE  Head(s) \in Range(s) /\ Range(Tail(s)) = Range(s) \ {Head(s)}
<1>1. /\ DOMAIN s = 1 .. Len(s) /\ Len(s) \in Nat \ {0} /\ Head(s) = s[1]
      /\ DOMAIN Tail(s) = 1 .. Len(s) - 1
      /\ \A k \in 1 .. Len(s) - 1 : Tail(s)[k] = s[k + 1]
  OBVIOUS
<1>2. Head(s) \in Range(s)
  BY <1>1 DEF Range
<1>3. ASSUME NEW k \in DOMAIN Tail(s) PROVE Tail(s)[k] \in Range(s) \ {Head(s)}
  <2>1. k + 1 \in DOMAIN s /\ 1 \in DOMAIN s /\ k + 1 # 1 /\ Tail(s)[k] = s[k + 1]
    BY <1>1, <1>3
  <2> QED
    BY <1>1, <2>1 DEF Range
<1>4. ASSUME NEW k \in DOMAIN s, s[k] # Head(s) PROVE s[k] \in Range(Tail(s))
  <2>1. k - 1 \in DOMAIN Tail(s) /\ Tail(s)[k - 1] = s[k]
    BY <1>1, <1>4
  <2> QED
    BY <2>1 DEF Range
<1> QED
  BY <1>2, <1>3, <1>4 DEF Range

(* Reading the acknowledgement of an id takes the waiting message of that   *)
(* slot out of the table before, or while, the id leaves the modem.  One    *)
(* that is cleared unread leaves it in the table, and known as unread.      *)
LEMMA ReadAckKeepsDInv ==
  ASSUME DInv, TInv', ReadAck \/ ClearUnreadAck
  PROVE  DInv'
<1> USE DEF DInv
<1> DEFINE a == Head(acks)
<1>0. /\ logger_struct \in Table /\ acks \in Seq(Slots) /\ acks # <<>>
      /\ AckDates \subseteq Dates
  BY UplinkAssumption DEF TInv, TypeOK, Table, ReadAck, ClearUnreadAck, UplinkAssumption
<1>1. /\ a \in Slots /\ a # 0
      /\ DOMAIN acks = 1 .. Len(acks) /\ Len(acks) \in Nat \ {0}
      /\ a = acks[1]
  BY <1>0, SlotsAreNat
<1>2. PICK id \in Slots, date \in AckDates :
        /\ logger_struct' = OnMsgAck(logger_struct, id, date)
        /\ ReadAck => id = a
  BY <1>1 DEF ReadAck, ClearUnreadAck
<1>3. /\ SlotIds(logger_struct') /\ NothingNew(logger_struct, logger_struct')
      /\ id \notin Waiting(logger_struct')
  BY <1>0, <1>1, <1>2, OnMsgAckLemma, OnMsgAckEffect
<1>4. /\ UNCHANGED <<queue, delivered, duplicated>>
      /\ unread \subseteq unread'
      /\ ReadAck => unread' = unread
      /\ a \in Waiting(logger_struct') /\ logger_struct'[a].data \in Data
           => logger_struct'[a].data \in unread'
  <2>1. CASE ReadAck
    BY <1>2, <1>3, <2>1 DEF ReadAck, history
  <2>2. CASE ClearUnreadAck
    BY <2>2 DEF ClearUnreadAck, ReadAck, history
  <2> QED
    BY <2>1, <2>2
<1>5. CASE acks' = acks /\ ReadAck
  BY <1>3, <1>4, <1>5, NothingNewKeeps
<1>6. CASE acks' = Tail(acks)
  <2>1. /\ DOMAIN acks' = 1 .. Len(acks) - 1
        /\ \A k \in 1 .. Len(acks) - 1 : acks'[k] = acks[k + 1]
    BY <1>0, <1>1, <1>6
  <2>2. Range(acks') = Range(acks) \ {a}
    BY <1>0, <1>6, TailLemma DEF OneIdEach
  <2>3. \A k, l \in DOMAIN acks' : acks'[k] = acks'[l] => k = l
    <3>1. ASSUME NEW k \in DOMAIN acks', NEW l \in DOMAIN acks', acks'[k] = acks'[l]
          PROVE  k = l
      <4>1. /\ k + 1 \in DOMAIN acks /\ l + 1 \in DOMAIN acks
            /\ acks[k + 1] = acks[l + 1] /\ k \in Nat /\ l \in Nat
        BY <1>1, <2>1, <3>1
      <4>2. k + 1 = l + 1
        BY <4>1 DEF OneIdEach
      <4> QED
        BY <4>1, <4>2
    <3> QED
      BY <3>1
  <2>4. OneIdEach'
    BY <1>4, <2>2, <2>3 DEF OneIdEach
  <2>5. OneSlotEach'
    BY <1>3, <1>4 DEF OneSlotEach, NothingNew
  <2>6. ASSUME NEW i \in Waiting(logger_struct'), logger_struct'[i].data \in delivered \ unread'
        PROVE  i \in Range(acks')
    <3>1. i \in Slots /\ logger_struct'[i].data \in Data /\ i # a
      BY <1>4, <2>6 DEF TInv, TypeOK, Waiting, Occupied
    <3>2. i \in Waiting(logger_struct) /\ logger_struct'[i].data = logger_struct[i].data
      BY <1>3, <2>6, <3>1, LoggerAssumption DEF NothingNew, LoggerAssumption
    <3> QED
      BY <1>4, <2>2, <2>6, <3>1, <3>2 DEF DeliveredOnce
  <2>7. DeliveredOnce'
    BY <1>4, <2>6 DEF DeliveredOnce
  <2> QED
    BY <1>3, <2>4, <2>5, <2>7
<1> QED
  BY <1>5, <1>6 DEF ReadAck, ClearUnreadAck

LEMMA DInvStep == DInv /\ [Next]_vars /\ AckHoldsId => DInv'
<1> SUFFICES ASSUME DInv, [Next]_vars, AckHoldsId PROVE DInv'
  OBVIOUS
<1>0. TInv' /\ logger_struct \in Table /\ SlotIds(logger_struct) /\ AckDates \subseteq Dates
  BY TInvStep, UplinkAssumption DEF DInv, TInv, TypeOK, Table, UplinkAssumption
<1>1. CASE UNCHANGED <<logger_struct, queue, acks, delivered, duplicated, unread>>
  BY <1>0, <1>1, NothingNewKeeps DEF NothingNew
<1>2. ASSUME NEW p \in queue, SatellitePass(p) PROVE DInv'
  BY <1>0, <1>2, PassKeepsDInv
<1>3. ASSUME NEW tag \in Tags, NEW date \in Dates, NEW d \in Data, LogMessage(tag, date, d)
      PROVE  DInv'
  BY <1>0, <1>3, LogKeepsDInv
<1>4. ASSUME UserClear PROVE DInv'
  <2>1. \A i \in Slots :
          logger_struct'[i] =
            IF logger_struct[i].tag = "U_MSG" THEN Cleared(logger_struct[i]) ELSE logger_struct[i]
    BY <1>0, <1>4, ClearMatchingTagLemma DEF UserClear
  <2>2. \A i \in Slots : /\ Cleared(logger_struct[i]).id = 0
                         /\ Cleared(logger_struct[i]).data = NoData
                         /\ Cleared(logger_struct[i]).status = "EMPTY"
    BY <1>0, ClearedLemma DEF Table
  <2>3. SlotIds(logger_struct')
    BY <1>0, <2>1, <2>2 DEF SlotIds
  <2>4. NothingNew(logger_struct, logger_struct')
    BY <2>1, <2>2 DEF NothingNew, Waiting, Occupied
  <2> QED
    BY <1>0, <1>4, <2>3, <2>4, NothingNewKeeps DEF UserClear, modem
<1>5. ASSUME ReadAck \/ ClearUnreadAck PROVE DInv'
  BY <1>0, <1>5, ReadAckKeepsDInv
<1>6. ASSUME MisreadAck PROVE DInv'
  <2>1. PICK id \in 0 .. NbSlots + 1, date \in AckDates :
          logger_struct' = OnMsgAck(logger_struct, id, date)
    BY <1>6 DEF MisreadAck
  <2>2. SlotIds(logger_struct') /\ NothingNew(logger_struct, logger_struct')
    BY <1>0, <2>1, OnMsgAckLemma, OnMsgAckEffect
  <2> QED
    BY <1>0, <1>6, <2>2, NothingNewKeeps DEF MisreadAck, modem, history
<1>7. ASSUME ReadCommand PROVE DInv'
  <2>1. SlotIds(logger_struct') /\ NothingNew(logger_struct, logger_struct')
    BY <1>0, <1>7, LogCommandEffect, UplinkAssumption DEF ReadCommand, NothingNew
  <2> QED
    BY <1>0, <1>7, <2>1, NothingNewKeeps DEF ReadCommand, history
<1>8. ASSUME NEW i \in Slots, PushSlot(i) PROVE DInv'
  BY <1>0, <1>8, PushKeepsDInv
<1>9. ASSUME Reboot PROVE DInv'
  <2>1. SlotIds(logger_struct') /\ \A i \in Slots : logger_struct'[i].data = NoData
    BY <1>9, EmptyTableLemma DEF Reboot, EmptyTable
  <2>2. Waiting(logger_struct') = {}
    BY <1>9 DEF Reboot, EmptyTable, Waiting, Occupied
  <2>3. OneSlotEach' /\ OneIdEach' /\ DeliveredOnce'
    BY <1>9, <2>1, <2>2 DEF Reboot, OneSlotEach, OneIdEach, DeliveredOnce, DInv, Range
  <2> QED
    BY <1>0, <2>1, <2>3 DEF DInv
<1>10. ASSUME \/ GpsDone \/ SatTickIdle \/ SatTickStart \/ ReadReset \/ EventsDone \/ SatTickEnd
              \/ ScreenDone \/ StatusUpdate \/ PushIdle \/ PushStart \/ PushExhausted
              \/ PushEnd \/ SatpassStart \/ (\E c \in {"msg", "other"} : SatelliteCommand(c))
       PROVE  UNCHANGED <<logger_struct, queue, acks, delivered, duplicated, unread>>
  BY <1>10
  DEF GpsDone, SatTickIdle, SatTickStart, ReadReset, EventsDone, SatTickEnd, ScreenDone,
      StatusUpdate, PushIdle, PushStart, PushExhausted, PushEnd, SatpassStart,
      SatelliteCommand, modem, history, tracker
<1>11. UNCHANGED vars => UNCHANGED <<logger_struct, queue, acks, delivered, duplicated, unread>>
  BY DEF vars, tracker, modem, history
<1>12. GpsTags \subseteq Tags /\ "U_MSG" \in Tags
  BY UplinkAssumption DEF UplinkAssumption, Tags
<1> QED
  BY <1>1, <1>2, <1>3, <1>4, <1>5, <1>6, <1>7, <1>8, <1>9, <1>10, <1>11, <1>12
  DEF Next, MainLoop, Environment, GpsMessage, UserMessage

(* NoDuplicate, for any number of slots, any queue and any behaviour of the *)
(* environment: failing exchanges, late answers, misread acknowledgements,  *)
(* clearing by the user and reboots included.  The one assumption is on the *)
(* modem: it refuses an id until the acknowledgement of that id is cleared. *)
THEOREM NoMessageTwice == AckHoldsId /\ Spec => []NoDuplicate
<1>1. DInv => NoDuplicate
  BY DEF DInv, DeliveredOnce, NoDuplicate
<1>2. CASE AckHoldsId
  <2>1. DInv /\ [Next]_vars => DInv'
    BY <1>2, DInvStep
  <2> QED
    BY <1>1, <2>1, DInvInit, PTL DEF Spec
<1> QED
  BY <1>2

-----------------------------------------------------------------------------
(* No message is lost silently. *)

(* The slots that wait in t are the same in u. *)
WaitingKept(t, u) ==
  \A i \in Waiting(t) :
    u[i].id = t[i].id /\ u[i].data = t[i].data /\ u[i].status = t[i].status

LEMMA WaitingKeptLemma ==
  ASSUME NEW t, NEW u, WaitingKept(t, u)
  PROVE  Waiting(t) \subseteq Waiting(u) /\ Pending(t) \subseteq Pending(u)
<1>1. Waiting(t) \subseteq Waiting(u)
  BY DEF WaitingKept, Waiting, Occupied
<1> QED
  BY <1>1 DEF WaitingKept, Pending

LEMMA LInvInit == Init => LInv
<1> SUFFICES ASSUME Init PROVE LInv
  OBVIOUS
<1>1. DInv
  BY DInvInit
<1> QED
  BY <1>1 DEF Init, LInv, QueueMatchesLogger, AcksGood, Range, NoSilentLoss

(* Steps that leave the waiting slots, the acknowledgements and what the    *)
(* satellites know alone keep AcksGood, provided a tick that met a failing  *)
(* link ends with its flag down, and no tick starts while the flag is down. *)
LEMMA AcksGoodKept ==
  ASSUME AcksGood, UNCHANGED <<acks, delivered>>, WaitingKept(logger_struct, logger_struct'),
         "link_fault" \in Hazards =>
           /\ pc = "event" =>
                (pc' = "event" /\ UNCHANGED logger_struct) \/ pc' = "drained" \/ acks = <<>>
           /\ pc = "drained" => pc' = "drained" \/ (pc' # "event" /\ ~new_event_pending')
           /\ pc # "event" /\ ~new_event_pending /\ acks # <<>> =>
                pc' # "event" /\ ~new_event_pending'
  PROVE  AcksGood'
<1>1. CASE acks = <<>>
  BY <1>1 DEF AcksGood, Range
<1>2. CASE \A a \in Range(acks) : Good(a)
  <2>1. \A a \in Range(acks) : Good(a)'
    BY <1>2, WaitingKeptLemma DEF Good, WaitingKept
  <2> QED
    BY <2>1 DEF AcksGood, Range, Good
<1>3. CASE /\ acks # <<>>
           /\ "link_fault" \in Hazards
           /\ \/ pc = "drained"
              \/ pc = "event" /\ \A a \in Range(acks) : Good(a) \/ a \notin Waiting(logger_struct)
              \/ pc # "event" /\ ~new_event_pending /\ acks # <<>>
  <2>1. CASE pc = "drained"
    BY <1>3, <2>1 DEF AcksGood
  <2>2. CASE pc = "event" /\ \A a \in Range(acks) : Good(a) \/ a \notin Waiting(logger_struct)
    <3>1. CASE pc' = "event" /\ UNCHANGED logger_struct
      BY <1>3, <2>2, <3>1 DEF AcksGood, Good, Range
    <3>2. CASE pc' = "drained"
      BY <1>3, <3>2 DEF AcksGood
    <3> QED
      BY <1>3, <2>2, <3>1, <3>2
  <2>3. CASE pc # "event" /\ ~new_event_pending /\ acks # <<>>
    BY <1>3, <2>3 DEF AcksGood
  <2> QED
    BY <1>3, <2>1, <2>2, <2>3
<1> QED
  BY <1>1, <1>2, <1>3 DEF AcksGood

(* The steps that only add to the table. *)
LEMMA KeptKeepsLInv ==
  ASSUME LInv, DInv', AcksGood', WaitingKept(logger_struct, logger_struct'),
         UNCHANGED <<queue, delivered, dropped>>,
         logged' \subseteq logged \cup Pending(logger_struct')
  PROVE  LInv'
<1>1. /\ Waiting(logger_struct) \subseteq Waiting(logger_struct')
      /\ Pending(logger_struct) \subseteq Pending(logger_struct')
  BY WaitingKeptLemma
<1>2. QueueMatchesLogger'
  BY <1>1 DEF LInv, QueueMatchesLogger, WaitingKept
<1>3. NoSilentLoss'
  BY <1>1 DEF LInv, NoSilentLoss
<1> QED
  BY <1>2, <1>3 DEF LInv

(* The acknowledgement a satellite gives is for the message of its slot.    *)
LEMMA PassKeepsLInv ==
  ASSUME LInv, DInv', NEW p \in queue, SatellitePass(p)
  PROVE  LInv'
<1> USE DEF LInv, SatellitePass
<1>0. /\ logger_struct' = logger_struct /\ pc' = pc
      /\ acks \in Seq(Slots) /\ p.id \in Slots
  BY DEF DInv, TInv, TypeOK, Payload, tracker
<1>1. Range(acks') = Range(acks) \cup {p.id} /\ acks' # <<>>
  <2>1. /\ DOMAIN acks = 1 .. Len(acks) /\ Len(acks) \in Nat
        /\ DOMAIN acks' = 1 .. Len(acks) + 1
        /\ \A k \in 1 .. Len(acks) : acks'[k] = acks[k]
        /\ acks'[Len(acks) + 1] = p.id
    BY <1>0
  <2> QED
    BY <2>1 DEF Range
<1>2. Good(p.id)' /\ \A a : Good(a) => Good(a)'
  BY <1>0 DEF QueueMatchesLogger, Good
<1>3. acks # <<>> => new_event_pending' = new_event_pending
  BY <1>1 DEF Interrupt, EvtPin, Pin, DInv, TInv, TypeOK
<1>4. AcksGood'
  <2>1. CASE \A a \in Range(acks) : Good(a)
    <3>1. \A a \in Range(acks') : Good(a)'
      BY <1>1, <1>2, <2>1
    <3> QED
      BY <3>1 DEF AcksGood, Good
  <2>2. CASE "link_fault" \in Hazards /\ pc = "drained"
    BY <1>0, <2>2 DEF AcksGood
  <2>3. CASE /\ "link_fault" \in Hazards /\ pc = "event"
             /\ \A a \in Range(acks) : Good(a) \/ a \notin Waiting(logger_struct)
    <3>1. \A a \in Range(acks') : Good(a)' \/ a \notin Waiting(logger_struct')
      BY <1>0, <1>1, <1>2, <2>3
    <3> QED
      BY <1>0, <2>3, <3>1 DEF AcksGood, Good
  <2>4. CASE "link_fault" \in Hazards /\ pc # "event" /\ ~new_event_pending /\ acks # <<>>
    BY <1>0, <1>1, <1>3, <2>4 DEF AcksGood
  <2> QED
    BY <2>1, <2>2, <2>3, <2>4 DEF AcksGood
<1>5. QueueMatchesLogger'
  BY <1>0 DEF QueueMatchesLogger
<1>6. NoSilentLoss'
  BY <1>0 DEF NoSilentLoss
<1> QED
  BY <1>4, <1>5, <1>6

(* Reading an acknowledgement takes one message out of the waiting ones,    *)
(* which a satellite has, or none.                                          *)
LEMMA ReadAckKeepsLInv ==
  ASSUME LInv, DInv', ReadAck
  PROVE  LInv'
<1> USE DEF LInv
<1> DEFINE a == Head(acks)
<1>0. /\ logger_struct \in Table /\ SlotIds(logger_struct)
      /\ acks \in Seq(Slots) /\ acks # <<>> /\ AckDates \subseteq Dates
      /\ a \in Slots /\ a # 0
  BY UplinkAssumption, SlotsAreNat DEF DInv, TInv, TypeOK, Table, ReadAck, UplinkAssumption
<1>1. a \in Range(acks) /\ Range(Tail(acks)) = Range(acks) \ {a}
  BY <1>0, TailLemma DEF DInv, OneIdEach
<1>2. /\ a \notin Waiting(logger_struct')
      /\ \A i \in Slots : i # a =>
           /\ logger_struct'[i].id = logger_struct[i].id
           /\ logger_struct'[i].data = logger_struct[i].data
           /\ logger_struct'[i].status = logger_struct[i].status
  BY <1>0, OnMsgAckEffect DEF ReadAck
<1>3. UNCHANGED <<queue, delivered, dropped, logged, pc>> /\ pc = "event"
  BY DEF ReadAck, history
<1>4. \A b \in Range(acks) : Good(b) \/ b \notin Waiting(logger_struct)
  BY <1>3 DEF AcksGood
<1>5. \A b : b # a /\ Good(b) => Good(b)'
  BY <1>2, <1>3 DEF Good, Waiting, Occupied
<1>6. \A b : b # a /\ b \notin Waiting(logger_struct) => b \notin Waiting(logger_struct')
  BY <1>2 DEF Waiting, Occupied
<1>7. AcksGood'
  <2>1. CASE "link_fault" \in Hazards
    <3>1. Range(acks') \subseteq Range(acks)
      BY <1>1 DEF ReadAck
    <3>2. \A b \in Range(acks') : Good(b)' \/ b \notin Waiting(logger_struct')
      BY <1>2, <1>4, <1>5, <1>6, <3>1
    <3> QED
      BY <1>3, <2>1, <3>2 DEF AcksGood, Good
  <2>2. CASE "link_fault" \notin Hazards
    <3>1. acks' = Tail(acks)
      BY <2>2 DEF ReadAck
    <3>2. \A b \in Range(acks) : Good(b)
      BY <2>2 DEF AcksGood
    <3>3. \A b \in Range(acks') : Good(b)'
      BY <1>1, <1>5, <3>1, <3>2
    <3> QED
      BY <3>3 DEF AcksGood, Good
  <2> QED
    BY <2>1, <2>2
<1>8. QueueMatchesLogger'
  <2>1. \A p \in queue : p.id # a
    BY <1>1 DEF DInv, OneIdEach
  <2> QED
    BY <1>2, <1>3, <2>1 DEF QueueMatchesLogger, Waiting, Occupied
<1>9. NoSilentLoss'
  <2>1. ASSUME NEW i \in Waiting(logger_struct), logger_struct[i].data # NoData
        PROVE  logger_struct[i].data \in delivered \cup Pending(logger_struct')
    <3>1. CASE i = a
      BY <1>1, <1>4, <2>1, <3>1 DEF Good
    <3>2. CASE i # a
      BY <1>2, <2>1, <3>2 DEF Pending, Waiting, Occupied
    <3> QED
      BY <3>1, <3>2
  <2> QED
    BY <1>3, <2>1 DEF NoSilentLoss, Pending
<1> QED
  BY <1>7, <1>8, <1>9

(* A push queues the payload of a slot that waits, under its id. *)
LEMMA PushKeepsLInv ==
  ASSUME LInv, DInv', NEW i \in Slots, PushSlot(i)
  PROVE  LInv'
<1> USE DEF LInv
<1> DEFINE p == [id |-> logger_struct[i].id, data |-> logger_struct[i].data]
<1>1. /\ UNCHANGED <<logger_struct, acks, new_event_pending, delivered, dropped, logged>>
      /\ pc = "push" /\ pc' \in {"push", "pushed"}
      /\ \/ UNCHANGED queue
         \/ logger_struct[i].status = "WAITING_TRANSMIT" /\ queue' = queue \cup {p}
  BY DEF PushSlot, SendMessage, history
<1>2. i \in Occupied(logger_struct) /\ logger_struct[i].id = i
  BY DEF PushSlot, IsYoungestOlderThan, OlderThan, Occupied, SlotIds, DInv
<1>3. QueueMatchesLogger'
  <2>1. \A q \in queue' : q.id \in Waiting(logger_struct) /\ q.data = logger_struct[q.id].data
    BY <1>1, <1>2 DEF QueueMatchesLogger, Waiting
  <2>2. \A q, r \in queue' : q.id = r.id => q = r
    BY DEF DInv, OneIdEach
  <2> QED
    BY <1>1, <2>1, <2>2 DEF QueueMatchesLogger
<1>4. AcksGood'
  BY <1>1, AcksGoodKept DEF WaitingKept
<1>5. NoSilentLoss'
  BY <1>1 DEF NoSilentLoss
<1> QED
  BY <1>3, <1>4, <1>5

(* A message is logged in an empty slot; with a failing link, not during a  *)
(* tick, as there is no other task.                                         *)
LEMMA LogKeepsLInv ==
  ASSUME LInv, DInv', NEW tag \in Tags, NEW date \in Dates, NEW d \in Data,
         LogMessage(tag, date, d),
         "link_fault" \in Hazards => pc \notin {"event", "drained"}
  PROVE  LInv'
<1> USE DEF LInv
<1>0. logger_struct \in Table
  BY DEF DInv, TInv, TypeOK, Table
<1>1. UNCHANGED <<queue, acks, delivered, dropped, pc, new_event_pending>>
  BY DEF LogMessage, modem
<1>2. /\ WaitingKept(logger_struct, logger_struct')
      /\ logged' \subseteq logged \cup Pending(logger_struct')
  <2>1. ASSUME NEW i \in Slots, NEW e \in {d, NoData}, FirstFree(logger_struct, i),
               logger_struct' = InsertData(logger_struct, i, tag, date, e),
               logged' \subseteq logged \cup ({e} \ {NoData})
        PROVE  <1>2!1 /\ <1>2!2
    <3>1. /\ logger_struct'[i].id = i /\ logger_struct'[i].data = e
          /\ logger_struct'[i].status = "WAITING_TRANSMIT"
          /\ \A j \in Slots : j # i => logger_struct'[j] = logger_struct[j]
      BY <1>0, <2>1, InsertDataLemma
    <3>2. i \notin Waiting(logger_struct)
      BY <2>1, FirstFreeIsEmpty DEF Waiting, Occupied
    <3>3. WaitingKept(logger_struct, logger_struct')
      BY <3>1, <3>2 DEF WaitingKept, Waiting, Occupied
    <3>4. i \in Waiting(logger_struct')
      BY <3>1, SlotsAreNat DEF Waiting, Occupied
    <3>5. e # NoData => e \in Pending(logger_struct')
      BY <3>1, <3>4 DEF Pending
    <3> QED
      BY <2>1, <3>3, <3>5
  <2>2. CASE UNCHANGED <<logger_struct, logged>>
    BY <2>2 DEF WaitingKept
  <2> QED
    BY <2>1, <2>2, LoggerAssumption DEF LogMessage, LoggerAssumption
<1>3. AcksGood'
  BY <1>1, <1>2, AcksGoodKept
<1> QED
  BY <1>1, <1>2, <1>3, KeptKeepsLInv

LEMMA LInvStep == LInv /\ [Next]_vars /\ AckHoldsId /\ RegularUse => LInv'
<1> SUFFICES ASSUME LInv, [Next]_vars, AckHoldsId, RegularUse PROVE LInv'
  OBVIOUS
<1> USE DEF LInv
<1>0. DInv' /\ logger_struct \in Table /\ SlotIds(logger_struct)
  BY DInvStep DEF DInv, TInv, TypeOK, Table
<1>1. ASSUME \/ GpsDone \/ SatTickIdle \/ SatTickStart \/ ReadReset \/ EventsDone \/ SatTickEnd
             \/ ScreenDone \/ StatusUpdate \/ PushIdle \/ PushStart \/ PushExhausted
             \/ PushEnd \/ SatpassStart
      PROVE  LInv'
  <2>1. UNCHANGED <<logger_struct, queue, acks, delivered, dropped, logged>>
    BY <1>1
    DEF GpsDone, SatTickIdle, SatTickStart, ReadReset, EventsDone, SatTickEnd, ScreenDone,
        StatusUpdate, PushIdle, PushStart, PushExhausted, PushEnd, SatpassStart, modem, history
  <2>2. /\ pc = "event" => pc' = "event" \/ pc' = "drained"
        /\ pc = "drained" => pc' # "event"
        /\ pc # "event" /\ ~new_event_pending => pc' # "event"
    BY <1>1
    DEF GpsDone, SatTickIdle, SatTickStart, ReadReset, EventsDone, SatTickEnd, ScreenDone,
        StatusUpdate, PushIdle, PushStart, PushExhausted, PushEnd, SatpassStart, Goto
  <2>3. new_event_pending' \in {new_event_pending, FALSE}
    BY <1>1
    DEF GpsDone, SatTickIdle, SatTickStart, ReadReset, EventsDone, SatTickEnd, ScreenDone,
        StatusUpdate, PushIdle, PushStart, PushExhausted, PushEnd, SatpassStart
  <2>4. pc = "drained" => new_event_pending' = FALSE
    BY <1>1
    DEF GpsDone, SatTickIdle, SatTickStart, ReadReset, EventsDone, SatTickEnd, ScreenDone,
        StatusUpdate, PushIdle, PushStart, PushExhausted, PushEnd, SatpassStart, Goto
  <2>5. ~new_event_pending => ~new_event_pending'
    BY <2>3, Zenon
  <2>6. pc = "drained" => ~new_event_pending'
    BY <2>4, Zenon
  <2>7. WaitingKept(logger_struct, logger_struct')
    BY <2>1 DEF WaitingKept
  <2>8. AcksGood'
    BY <2>1, <2>2, <2>5, <2>6, <2>7, AcksGoodKept
  <2> QED
    BY <1>0, <2>1, <2>7, <2>8, KeptKeepsLInv
<1>2. ASSUME NEW p \in queue, SatellitePass(p) PROVE LInv'
  BY <1>0, <1>2, PassKeepsLInv
<1>3. ASSUME NEW c \in {"msg", "other"}, SatelliteCommand(c) PROVE LInv'
  <2>1. UNCHANGED <<logger_struct, queue, acks, delivered, dropped, logged, pc>>
    BY <1>3 DEF SatelliteCommand, tracker
  <2>2. acks # <<>> => new_event_pending' = new_event_pending
    BY <1>3, <2>1 DEF SatelliteCommand, Interrupt, EvtPin, Pin, DInv, TInv, TypeOK
  <2>3. AcksGood'
    BY <2>1, <2>2 DEF AcksGood, Good, Range
  <2> QED
    BY <1>0, <2>1, <2>3, KeptKeepsLInv DEF WaitingKept
<1>4. ASSUME NEW tag \in GpsTags, NEW date \in Dates, NEW d \in Data, GpsMessage(tag, date, d)
      PROVE  LInv'
  <2>1. tag \in Tags
    BY <1>4, UplinkAssumption DEF UplinkAssumption, Tags
  <2> QED
    BY <1>0, <1>4, <2>1, LogKeepsLInv DEF GpsMessage
<1>5. ASSUME NEW date \in Dates, NEW d \in Data, UserMessage(date, d)
      PROVE  LInv'
  BY <1>0, <1>5, LogKeepsLInv DEF UserMessage, Tags
<1>6. ASSUME ReadAck PROVE LInv'
  BY <1>0, <1>6, ReadAckKeepsLInv
<1>7. ASSUME ReadCommand PROVE LInv'
  <2>1. WaitingKept(logger_struct, logger_struct')
    <3>1. CASE UNCHANGED logger_struct
      BY <3>1 DEF WaitingKept
    <3>2. CASE LogCommand
      BY <1>0, <3>2, LogCommandEffect, UplinkAssumption DEF WaitingKept, Waiting, Occupied
    <3> QED
      BY <1>7, <3>1, <3>2 DEF ReadCommand
  <2>2. UNCHANGED <<queue, acks, delivered, dropped, logged>> /\ acks = <<>>
    BY <1>7 DEF ReadCommand, StaleEvent, RegularUse, history
  <2>3. AcksGood'
    BY <2>2 DEF AcksGood, Range
  <2> QED
    BY <1>0, <2>1, <2>2, <2>3, KeptKeepsLInv
<1>8. ASSUME NEW i \in Slots, PushSlot(i) PROVE LInv'
  BY <1>0, <1>8, PushKeepsLInv
<1>9. ASSUME Reboot PROVE LInv'
  <2>1. QueueMatchesLogger' /\ AcksGood'
    BY <1>9 DEF Reboot, QueueMatchesLogger, AcksGood, Range
  <2>2. NoSilentLoss'
    BY <1>9 DEF Reboot, NoSilentLoss
  <2> QED
    BY <1>0, <2>1, <2>2
<1>10. CASE UNCHANGED vars
  BY <1>0, <1>10
  DEF vars, tracker, modem, history, QueueMatchesLogger, AcksGood, Good, NoSilentLoss, Range
<1>11. ~UserClear /\ ~MisreadAck /\ ~ClearUnreadAck
  BY DEF UserClear, MisreadAck, ClearUnreadAck, StaleEvent, RegularUse
<1> QED
  BY <1>1, <1>2, <1>3, <1>4, <1>5, <1>6, <1>7, <1>8, <1>9, <1>10, <1>11
  DEF Next, MainLoop, Environment

(* NoSilentLoss, for any number of slots, messages and modem queue, in the  *)
(* environments of RegularUse: failing exchanges, calloc failures, reboots  *)
(* and messages of one second included.                                     *)
THEOREM NothingLost == AckHoldsId /\ RegularUse /\ Spec => []NoSilentLoss
<1>1. LInv => NoSilentLoss
  BY DEF LInv
<1>2. CASE AckHoldsId /\ RegularUse
  <2>1. LInv /\ [Next]_vars => LInv'
    BY <1>2, LInvStep
  <2> QED
    BY <1>1, <2>1, LInvInit, PTL DEF Spec
<1> QED
  BY <1>2

(* QueueMatchesLogger, under the same assumptions: an id means the same     *)
(* message to the modem and to the logger.                                  *)
THEOREM IdsAgree == AckHoldsId /\ RegularUse /\ Spec => []QueueMatchesLogger
<1>1. LInv => QueueMatchesLogger
  BY DEF LInv
<1>2. CASE AckHoldsId /\ RegularUse
  <2>1. LInv /\ [Next]_vars => LInv'
    BY <1>2, LInvStep
  <2> QED
    BY <1>1, <2>1, LInvInit, PTL DEF Spec
<1> QED
  BY <1>2

-----------------------------------------------------------------------------
(* Uplink implements Delivery. *)

ToDeliver == Pending(logger_struct) \ delivered

(* If the table gains no payload and keeps the waiting ones a satellite does *)
(* not have, the messages to deliver stay the same.                         *)
LEMMA ToDeliverSame ==
  ASSUME NothingNew(logger_struct, logger_struct'), UNCHANGED delivered,
         \A i \in Waiting(logger_struct) :
            logger_struct[i].data \in delivered \cup {NoData} \cup Pending(logger_struct')
  PROVE  ToDeliver' = ToDeliver
<1>1. Pending(logger_struct') \subseteq Pending(logger_struct)
  <2>1. ASSUME NEW i \in Waiting(logger_struct'), logger_struct'[i].data # NoData
        PROVE  i \in Waiting(logger_struct) /\ logger_struct'[i].data = logger_struct[i].data
    BY <2>1 DEF NothingNew, Waiting, Occupied
  <2> QED
    BY <2>1 DEF Pending
<1>2. ToDeliver \subseteq Pending(logger_struct')
  BY DEF ToDeliver, Pending
<1> QED
  BY <1>1, <1>2 DEF ToDeliver

(* A message that is logged is accepted; when the table or the memory is    *)
(* full nothing happens.                                                    *)
LEMMA LogAccepts ==
  ASSUME LInv, LInv', NEW tag \in Tags, NEW date \in Dates, NEW d \in Data,
         LogMessage(tag, date, d)
  PROVE  Promise!Accept(d) \/ UNCHANGED Promise!vars
<1>0. logger_struct \in Table
  BY DEF LInv, DInv, TInv, TypeOK, Table
<1>1. UNCHANGED <<delivered, dropped>> /\ d \notin logged
  BY DEF LogMessage
<1>2. d \notin ToDeliver \cup delivered \cup dropped
  <2>1. \A i \in Slots : logger_struct[i].data # d
    BY <1>1, LoggerAssumption DEF LInv, DInv, TInv, AllLogged, LoggerAssumption
  <2> QED
    BY <1>1, <2>1 DEF ToDeliver, Pending, Waiting, Occupied, LInv, DInv, TInv, TypeOK
<1>3. ASSUME NEW i \in Slots, NEW e \in {d, NoData}, FirstFree(logger_struct, i),
             logger_struct' = InsertData(logger_struct, i, tag, date, e)
      PROVE  Pending(logger_struct') = Pending(logger_struct) \cup ({e} \ {NoData})
  <2>1. /\ logger_struct'[i].id = i /\ logger_struct'[i].data = e
        /\ logger_struct'[i].status = "WAITING_TRANSMIT"
        /\ \A j \in Slots : j # i => logger_struct'[j] = logger_struct[j]
    BY <1>0, <1>3, InsertDataLemma
  <2>2. i \notin Waiting(logger_struct)
    BY <1>3, FirstFreeIsEmpty DEF Waiting, Occupied
  <2>3. Waiting(logger_struct') = Waiting(logger_struct) \cup {i}
    BY <2>1, <2>2, SlotsAreNat DEF Waiting, Occupied
  <2>4. \A j \in Waiting(logger_struct) : logger_struct'[j] = logger_struct[j]
    BY <2>1, <2>2 DEF Waiting, Occupied
  <2> QED
    BY <2>1, <2>3, <2>4 DEF Pending
<1>4. \/ Pending(logger_struct') = Pending(logger_struct) \cup {d}
      \/ Pending(logger_struct') = Pending(logger_struct)
  BY <1>3, LoggerAssumption DEF LogMessage, LoggerAssumption
<1>5. ToDeliver' = ToDeliver \cup {d} \/ ToDeliver' = ToDeliver
  BY <1>1, <1>2, <1>4 DEF ToDeliver
<1> QED
  BY <1>1, <1>2, <1>5 DEF Promise!Accept, Promise!vars, ToDeliver

LEMMA PromiseInit == Init => Promise!Init
  BY DEF Init, Promise!Init, Pending, Waiting, Occupied, EmptyTable

LEMMA PromiseStep ==
  LInv /\ LInv' /\ [Next]_vars /\ RegularUse => [Promise!Next]_(Promise!vars)
<1> SUFFICES ASSUME LInv, LInv', [Next]_vars, RegularUse
             PROVE  Promise!Next \/ UNCHANGED Promise!vars
  BY DEF Promise!vars
<1>0. /\ logger_struct \in Table /\ SlotIds(logger_struct) /\ AckDates \subseteq Dates
      /\ Pending(logger_struct) \subseteq Data
  BY UplinkAssumption
  DEF LInv, DInv, TInv, TypeOK, Table, Pending, Waiting, Occupied, Slot, UplinkAssumption
<1>1. CASE UNCHANGED <<logger_struct, delivered, dropped>>
  BY <1>1 DEF Promise!vars, Pending, Waiting, Occupied
<1>2. ASSUME NEW p \in queue, SatellitePass(p)
      PROVE  Promise!Next \/ UNCHANGED Promise!vars
  <2>1. /\ logger_struct' = logger_struct /\ dropped' = dropped
        /\ delivered' = delivered \cup ({p.data} \ {NoData})
    BY <1>2 DEF SatellitePass, tracker
  <2>2. CASE p.data \in delivered \cup {NoData}
    BY <1>1, <2>1, <2>2
  <2>3. CASE p.data \notin delivered \cup {NoData}
    <3>1. p.data \in Pending(logger_struct)
      BY <2>3 DEF LInv, QueueMatchesLogger, Pending
    <3>2. Promise!Receive(p.data)
      BY <2>1, <2>3, <3>1 DEF Promise!Receive
    <3> QED
      BY <1>0, <3>1, <3>2 DEF Promise!Next
  <2> QED
    BY <2>2, <2>3
<1>3. ASSUME NEW tag \in Tags, NEW date \in Dates, NEW d \in Data, LogMessage(tag, date, d)
      PROVE  Promise!Next \/ UNCHANGED Promise!vars
  BY <1>3, LogAccepts DEF Promise!Next
<1>4. ASSUME ReadAck PROVE Promise!Next \/ UNCHANGED Promise!vars
  <2>1. UNCHANGED <<delivered, dropped, logged>>
    BY <1>4 DEF ReadAck, history
  <2>2. NothingNew(logger_struct, logger_struct')
    BY <1>0, <1>4, OnMsgAckEffect DEF ReadAck
  <2>3. \A i \in Waiting(logger_struct) :
          logger_struct[i].data \in delivered \cup {NoData} \cup Pending(logger_struct')
    <3>1. /\ acks \in Seq(Slots) /\ acks # <<>> /\ pc = "event"
          /\ \A k, l \in DOMAIN acks : acks[k] = acks[l] => k = l
      BY <1>4 DEF ReadAck, LInv, DInv, TInv, TypeOK, OneIdEach
    <3>2. Head(acks) \in Range(acks) /\ Head(acks) \in Slots /\ Head(acks) # 0
      BY <3>1, TailLemma, SlotsAreNat
    <3>3. Good(Head(acks)) \/ Head(acks) \notin Waiting(logger_struct)
      BY <3>1, <3>2 DEF LInv, AcksGood
    <3>4. \A i \in Slots : i # Head(acks) =>
             /\ logger_struct'[i].id = logger_struct[i].id
             /\ logger_struct'[i].data = logger_struct[i].data
             /\ logger_struct'[i].status = logger_struct[i].status
      BY <1>0, <1>4, <3>2, OnMsgAckEffect DEF ReadAck
    <3>5. \A i \in Waiting(logger_struct) : i # Head(acks) =>
             i \in Waiting(logger_struct') /\ logger_struct'[i].data = logger_struct[i].data
      BY <3>4 DEF Waiting, Occupied
    <3> QED
      BY <3>3, <3>5 DEF Good, Pending
  <2>4. ToDeliver' = ToDeliver
    BY <2>1, <2>2, <2>3, ToDeliverSame
  <2> QED
    BY <2>1, <2>4 DEF ToDeliver, Promise!vars
<1>5. ASSUME ReadCommand PROVE Promise!Next \/ UNCHANGED Promise!vars
  <2>1. UNCHANGED <<delivered, dropped>>
    BY <1>5 DEF ReadCommand, history
  <2>2. CASE UNCHANGED logger_struct
    BY <1>1, <2>1, <2>2
  <2>3. CASE LogCommand
    <3>1. /\ NothingNew(logger_struct, logger_struct')
          /\ WaitingKept(logger_struct, logger_struct')
      BY <1>0, <2>3, LogCommandEffect, UplinkAssumption DEF WaitingKept, Waiting, Occupied
    <3>2. ToDeliver' = ToDeliver
      BY <2>1, <3>1, WaitingKeptLemma, ToDeliverSame DEF Pending
    <3> QED
      BY <2>1, <3>2 DEF ToDeliver, Promise!vars
  <2> QED
    BY <1>5, <2>2, <2>3 DEF ReadCommand
<1>6. ASSUME Reboot PROVE Promise!Next \/ UNCHANGED Promise!vars
  <2>1. /\ Pending(logger_struct') = {} /\ delivered' = delivered
        /\ dropped' = dropped \cup ToDeliver
    BY <1>6 DEF Reboot, Pending, Waiting, Occupied, EmptyTable, ToDeliver
  <2>2. Promise!GiveUp(ToDeliver)
    BY <2>1 DEF Promise!GiveUp, ToDeliver
  <2>3. ToDeliver \in SUBSET Data
    BY <1>0 DEF ToDeliver
  <2> QED
    BY <2>2, <2>3 DEF Promise!Next
<1>7. ASSUME \/ GpsDone \/ SatTickIdle \/ SatTickStart \/ ReadReset \/ EventsDone \/ SatTickEnd
             \/ ScreenDone \/ StatusUpdate \/ PushIdle \/ PushStart \/ PushExhausted \/ PushEnd
             \/ SatpassStart \/ (\E i \in Slots : PushSlot(i))
             \/ (\E c \in {"msg", "other"} : SatelliteCommand(c))
      PROVE  UNCHANGED <<logger_struct, delivered, dropped>>
  BY <1>7
  DEF GpsDone, SatTickIdle, SatTickStart, ReadReset, EventsDone, SatTickEnd, ScreenDone,
      StatusUpdate, PushIdle, PushStart, PushExhausted, PushEnd, SatpassStart, PushSlot,
      SatelliteCommand, modem, history, tracker
<1>8. UNCHANGED vars => UNCHANGED <<logger_struct, delivered, dropped>>
  BY DEF vars, tracker, history
<1>9. GpsTags \subseteq Tags /\ "U_MSG" \in Tags
  BY UplinkAssumption DEF UplinkAssumption, Tags
<1>10. ~UserClear /\ ~MisreadAck /\ ~ClearUnreadAck
  BY DEF UserClear, MisreadAck, ClearUnreadAck, StaleEvent, RegularUse
<1> QED
  BY <1>1, <1>2, <1>3, <1>4, <1>5, <1>6, <1>7, <1>8, <1>9, <1>10
  DEF Next, MainLoop, Environment, GpsMessage, UserMessage

(* Every behaviour of Uplink in an environment of RegularUse is one that    *)
(* Delivery allows: messages are accepted once, stay pending until a        *)
(* satellite has them, and are given up only in a reboot.                   *)
THEOREM ImplementsDelivery == AckHoldsId /\ RegularUse /\ Spec => PromiseSpec
<1>1. CASE AckHoldsId /\ RegularUse
  <2>1. LInv /\ [Next]_vars => LInv'
    BY <1>1, LInvStep
  <2>2. LInv /\ LInv' /\ [Next]_vars => [Promise!Next]_(Promise!vars)
    BY <1>1, PromiseStep
  <2> QED
    BY <2>1, <2>2, LInvInit, PromiseInit, PTL DEF Spec, PromiseSpec, Promise!Spec
<1> QED
  BY <1>1

(* TypeOK of Delivery holds of the tracker: a message that a slot still has *)
(* to bring to the satellite was not given up in a reboot, so none comes    *)
(* back that the tracker counts as lost.  It follows from Delivery alone.   *)
THEOREM PendingOnce == AckHoldsId /\ RegularUse /\ Spec => []Promise!TypeOK
<1>1. Promise!Init => Promise!TypeOK
  BY DEF Promise!Init, Promise!TypeOK
<1>2. Promise!TypeOK /\ [Promise!Next]_(Promise!vars) => Promise!TypeOK'
  BY DEF Promise!TypeOK, Promise!Next, Promise!Accept, Promise!Receive, Promise!GiveUp,
         Promise!vars
<1> QED
  BY <1>1, <1>2, ImplementsDelivery, PTL DEF PromiseSpec, Promise!Spec

-----------------------------------------------------------------------------
(* A push offers everything, and so nothing is stranded. *)

(* The dates tell the slots apart: what the walk over them relies on.       *)
DatesApart(t) ==
  /\ \A i \in Occupied(t) : t[i].createdDate \in Dates
  /\ \A i, j \in Occupied(t) : t[i].createdDate = t[j].createdDate => i = j

(* The slots the walk has passed. *)
Passed == Occupied(logger_struct) \ OlderThan(logger_struct, prv_slot_epoch)

(* The modem knows every waiting message the walk has passed, and the walk  *)
(* has passed at least as many slots as it has counted.                     *)
WalkInv ==
  pc = "push" =>
    /\ \A i \in Passed : i \in Waiting(logger_struct) => KnownToModem(i)
    /\ push_i <= Cardinality(Passed)

PInv == DInv /\ DatesApart(logger_struct) /\ WalkInv

(* No two messages of one second, and no failing exchange or late answer. *)
OrderlyWalk == {"same_second", "link_fault", "late_answer"} \cap Hazards = {}

(* The slots of u are slots of t, with their dates. *)
DatesKept(t, u) ==
  \A i \in Occupied(u) : i \in Occupied(t) /\ u[i].createdDate = t[i].createdDate

LEMMA DatesKeptLemma ==
  ASSUME NEW t, NEW u, DatesApart(t), DatesKept(t, u)
  PROVE  DatesApart(u)
  BY DEF DatesApart, DatesKept

(* A slot that is filled gets a date of its own. *)
LEMMA InsertedDatesApart ==
  ASSUME NEW t \in Table, DatesApart(t), NEW i \in Slots, FirstFree(t, i),
         NEW tag \in Tags, NEW date \in Dates, NEW d \in Data \cup {NoData},
         \A j \in Occupied(t) : t[j].createdDate # date
  PROVE  DatesApart(InsertData(t, i, tag, date, d))
<1> DEFINE u == InsertData(t, i, tag, date, d)
<1>1. u[i].createdDate = date /\ \A j \in Slots : j # i => u[j] = t[j]
  BY InsertDataLemma
<1> HIDE DEF u
<1>2. \A j \in Occupied(u) : j # i => j \in Occupied(t) /\ u[j].createdDate = t[j].createdDate
  BY <1>1 DEF Occupied
<1>3. DatesApart(u)
  BY <1>1, <1>2 DEF DatesApart
<1> QED
  BY <1>3 DEF u

(* The acknowledgement handler fills no slot, changes no date, and lets no  *)
(* message wait again.                                                      *)
LEMMA OnMsgAckDates ==
  ASSUME NEW t \in Table, SlotIds(t), NEW id, NEW date \in Dates
  PROVE  LET u == OnMsgAck(t, id, date) IN
         DatesKept(t, u) /\ Waiting(u) \subseteq Waiting(t)
<1> DEFINE s == SetStatus(t, id, "TRANSMITTED")
           m == SetAcknowledgedDate(s, id, date)
           u == OnMsgAck(t, id, date)
<1>1. /\ s \in Table
      /\ \A i \in Slots : s[i].id = t[i].id /\ s[i].createdDate = t[i].createdDate
  BY DEF SetStatus, Table, Slot, Status
<1>2. /\ m \in Table
      /\ \A i \in Slots : m[i].id = s[i].id /\ m[i].createdDate = s[i].createdDate
  BY <1>1, SetAcknowledgedDateLemma
<1>3. \A i \in Slots : ClearSlot(m, id)[i] = m[i] \/ ClearSlot(m, id)[i].id = 0
  <2> HIDE DEF m
  <2> QED
    BY <1>2, ClearSlotLemma, ClearedLemma DEF Table
<1>4. u = m \/ u = ClearSlot(m, id)
  BY DEF OnMsgAck
<1>5. DatesKept(t, u)
  <2> HIDE DEF s, m, u
  <2> QED
    BY <1>1, <1>2, <1>3, <1>4 DEF DatesKept, Occupied
<1>6. Waiting(u) \subseteq Waiting(t)
  <2>1. \A i \in Slots :
          \/ /\ u[i].id = t[i].id
             /\ u[i].status = IF Finds(t, id, i) THEN "TRANSMITTED" ELSE t[i].status
          \/ u[i].id = 0
    BY OnMsgAckLemma
  <2> HIDE DEF u
  <2> QED
    BY <2>1 DEF Waiting, Occupied
<1> QED
  BY <1>5, <1>6 DEF u

(* The handler of a message of the operator dates its slot apart from the   *)
(* others, and if the memory lasts no new slot waits.                       *)
LEMMA LogCommandDates ==
  ASSUME logger_struct \in Table, SlotIds(logger_struct), DatesApart(logger_struct),
         UplinkAssumption, "same_second" \notin Hazards, LogCommand
  PROVE  /\ DatesApart(logger_struct')
         /\ "no_mem" \notin Hazards => Waiting(logger_struct') \subseteq Waiting(logger_struct)
<1>1. ASSUME NEW i \in Slots, NEW date \in Dates, NEW ackdate \in AckDates, NEW id \in {0, i},
             id = 0 => "no_mem" \in Hazards,
             FreshDate(date), FirstFree(logger_struct, i),
             logger_struct' =
               SetStatus(SetAcknowledgedDate(InsertData(logger_struct, i, "U_CMD", date, NoData),
                                             id, ackdate), id, "TRANSMITTED")
      PROVE  /\ DatesApart(logger_struct')
             /\ "no_mem" \notin Hazards => Waiting(logger_struct') \subseteq Waiting(logger_struct)
  <2> DEFINE n == InsertData(logger_struct, i, "U_CMD", date, NoData)
             m == SetAcknowledgedDate(n, id, ackdate)
             u == SetStatus(m, id, "TRANSMITTED")
  <2>1. /\ n \in Table /\ n[i].id = i
        /\ \A j \in Slots : j # i => n[j] = logger_struct[j]
    BY InsertDataLemma DEF Tags
  <2>2. DatesApart(n)
    BY <1>1, InsertedDatesApart DEF Tags, FreshDate
  <2>3. ackdate \in Dates
    BY DEF UplinkAssumption
  <2>4. /\ m \in Table
        /\ \A j \in Slots : /\ m[j].id = n[j].id /\ m[j].status = n[j].status
                            /\ m[j].createdDate = n[j].createdDate
    <3> HIDE DEF n
    <3> QED  BY <2>1, <2>3, SetAcknowledgedDateLemma
  <2>5. \A j \in Slots : /\ u[j].id = m[j].id /\ u[j].createdDate = m[j].createdDate
                         /\ u[j].status = IF Finds(m, id, j) THEN "TRANSMITTED" ELSE m[j].status
    <3> HIDE DEF m
    <3> QED  BY <2>4 DEF SetStatus, Table, Slot, Status
  <2> HIDE DEF n, m, u
  <2>6. DatesApart(u)
    <3>1. DatesKept(n, u)
      BY <2>4, <2>5 DEF DatesKept, Occupied
    <3> QED
      BY <2>2, <3>1, DatesKeptLemma
  <2>7. ASSUME "no_mem" \notin Hazards PROVE Waiting(u) \subseteq Waiting(logger_struct)
    <3>1. id = i
      BY <1>1, <2>7
    <3>2. Finds(m, i, i)
      BY <2>1, <2>4, SlotsAreNat DEF Finds, IsFirst, SlotIds
    <3>3. u[i].status = "TRANSMITTED"
      BY <2>5, <3>1, <3>2
    <3> QED
      BY <2>1, <2>4, <2>5, <3>3 DEF Waiting, Occupied
  <2>8. logger_struct' = u
    BY <1>1 DEF u, m, n
  <2> QED
    BY <2>6, <2>7, <2>8
<1>2. CASE UNCHANGED logger_struct
  BY <1>2
<1>3. \A i \in Slots : i # 0
  BY SlotsAreNat
<1> QED
  BY <1>1, <1>2, <1>3 DEF LogCommand

(* What the modem knows, a satellite pass leaves known. *)
LEMMA PassKeepsKnown ==
  ASSUME TypeOK, NEW p \in queue, SatellitePass(p), NEW i, KnownToModem(i)
  PROVE  KnownToModem(i)'
<1>1. /\ acks \in Seq(Slots) /\ p.id \in Slots
      /\ queue' = queue \ {p} /\ acks' = Append(acks, p.id)
  BY DEF TypeOK, Payload, SatellitePass
<1>2. Range(acks) \subseteq Range(acks') /\ p.id \in Range(acks')
  <2>1. /\ \A k \in DOMAIN acks : k \in DOMAIN acks' /\ acks'[k] = acks[k]
        /\ Len(acks) + 1 \in DOMAIN acks' /\ acks'[Len(acks) + 1] = p.id
    BY <1>1
  <2> QED
    BY <2>1 DEF Range
<1> QED
  BY <1>1, <1>2 DEF KnownToModem

(* A set of slots is finite, and has no more elements than there are slots; *)
(* it has as many only if it is the set of all slots.                       *)
LEMMA SlotSets ==
  ASSUME NEW S \in SUBSET Slots
  PROVE  /\ IsFiniteSet(S) /\ Cardinality(S) \in Nat
         /\ Cardinality(S) >= NbSlots => S = Slots
<1>1. IsFiniteSet(Slots) /\ Cardinality(Slots) = NbSlots /\ NbSlots \in Nat
  BY FS_Interval, LoggerAssumption DEF Slots, LoggerAssumption
<1>2. /\ IsFiniteSet(S) /\ Cardinality(S) <= Cardinality(Slots)
      /\ Cardinality(Slots) = Cardinality(S) => Slots = S
  BY <1>1, FS_Subset
<1>3. Cardinality(S) \in Nat
  BY <1>2, FS_CardinalityType
<1> QED
  BY <1>1, <1>2, <1>3

(* A push starts above every date. *)
LEMMA PushStartWalk ==
  ASSUME PInv, PushStart
  PROVE  WalkInv'
<1>1. UNCHANGED logger_struct /\ prv_slot_epoch' = MaxEpoch /\ push_i' = 0
  BY DEF PushStart
<1>2. OlderThan(logger_struct, MaxEpoch) = Occupied(logger_struct)
  BY LoggerAssumption DEF PInv, DatesApart, OlderThan, LoggerAssumption
<1>3. Passed' = {}
  BY <1>1, <1>2 DEF Passed
<1>4. push_i' <= Cardinality(Passed')
  BY <1>1, <1>3, FS_EmptySet
<1> QED
  BY <1>3, <1>4 DEF WalkInv

(* One turn of the loop passes one slot, and if it waits the modem knows it *)
(* from then on, unless its queue is full.                                  *)
LEMMA PushSlotWalk ==
  ASSUME PInv, OrderlyWalk, AckHoldsId, NEW i \in Slots, PushSlot(i)
  PROVE  /\ WalkInv'
         /\ pc' = "pushed" => QueueFull
<1> DEFINE p == [id |-> logger_struct[i].id, data |-> logger_struct[i].data]
           date == logger_struct[i].createdDate
<1>0. TypeOK /\ logger_struct \in Table /\ SlotIds(logger_struct)
  BY DEF PInv, DInv, TInv, TypeOK, Table
<1>1. /\ pc = "push" /\ UNCHANGED <<logger_struct, acks>>
      /\ prv_slot_epoch' = date /\ push_i' = push_i + 1
      /\ i \in OlderThan(logger_struct, prv_slot_epoch)
      /\ \A j \in OlderThan(logger_struct, prv_slot_epoch) :
           logger_struct[j].createdDate < date \/ logger_struct[j].createdDate = date
  BY DEF PushSlot, IsYoungestOlderThan
<1>2. /\ i \in Occupied(logger_struct) /\ logger_struct[i].id = i /\ date < prv_slot_epoch
      /\ date \in Nat /\ prv_slot_epoch \in Nat /\ push_i \in Nat
      /\ \A j \in Occupied(logger_struct) : logger_struct[j].createdDate \in Nat
  <2>1. i \in Occupied(logger_struct) /\ date < prv_slot_epoch
    BY <1>1 DEF OlderThan
  <2>2. logger_struct[i].id = i
    BY <1>0, <2>1 DEF Occupied, SlotIds
  <2>3. \A j \in Occupied(logger_struct) : logger_struct[j].createdDate \in Nat
    BY LoggerAssumption DEF PInv, DatesApart, LoggerAssumption
  <2>4. prv_slot_epoch \in Nat /\ push_i \in Nat
    BY <1>0, LoggerAssumption DEF TypeOK, LoggerAssumption
  <2> QED
    BY <2>1, <2>2, <2>3, <2>4
<1>3. Passed' = Passed \cup {i} /\ i \notin Passed
  <2>1. \A j \in Occupied(logger_struct) :
          j # i => (logger_struct[j].createdDate < date
                      <=> logger_struct[j].createdDate < prv_slot_epoch)
    BY <1>1, <1>2 DEF PInv, DatesApart, OlderThan
  <2> QED
    BY <1>1, <1>2, <2>1 DEF Passed, OlderThan
<1>4. push_i' <= Cardinality(Passed')
  <2>1. Passed \in SUBSET Slots
    BY DEF Passed, Occupied
  <2>2. Cardinality(Passed') = Cardinality(Passed) + 1 /\ Cardinality(Passed) \in Nat
    BY <1>3, <2>1, SlotSets, FS_AddElement
  <2> QED
    BY <1>1, <1>2, <2>2 DEF PInv, WalkInv
<1>5. /\ \A j : KnownToModem(j) => KnownToModem(j)'
      /\ \/ pc' = "pushed" /\ QueueFull
         \/ pc' = "push" /\ (i \in Waiting(logger_struct) => KnownToModem(i)')
  <2>1. CASE logger_struct[i].status # "WAITING_TRANSMIT"
    BY <1>1, <2>1 DEF PushSlot, KnownToModem, Waiting
  <2>2. CASE logger_struct[i].status = "WAITING_TRANSMIT"
    <3>1. SendMessage(p)
      BY <2>2 DEF PushSlot
    <3>2. "link_fault" \notin Hazards /\ "late_answer" \notin Hazards
      BY DEF OrderlyWalk
    <3>3. p.id = i
      BY <1>2
    <3> HIDE DEF p
    <3>4. CASE QueueFull /\ pc' = "pushed" /\ UNCHANGED queue
      BY <1>1, <3>4 DEF KnownToModem
    <3>5. CASE IdInUse(p.id) /\ pc' = "push" /\ UNCHANGED queue
      BY <1>1, <3>3, <3>5 DEF KnownToModem, IdInUse
    <3>6. CASE pc' = "push" /\ queue' = queue \cup {p}
      BY <1>1, <3>3, <3>6 DEF KnownToModem
    <3> QED
      BY <3>1, <3>2, <3>4, <3>5, <3>6 DEF SendMessage
  <2> QED
    BY <2>1, <2>2
<1>6. WalkInv'
  <2>1. ASSUME pc' = "push", NEW j \in Passed', j \in Waiting(logger_struct)
        PROVE  KnownToModem(j)'
    BY <1>1, <1>3, <1>5, <2>1 DEF PInv, WalkInv
  <2> QED
    BY <1>1, <1>4, <2>1 DEF WalkInv
<1> QED
  BY <1>5, <1>6

(* When the loop ends by itself it has passed every slot. *)
LEMMA WalkIsComplete ==
  ASSUME PInv, PushExhausted
  PROVE  \A i \in Waiting(logger_struct) : KnownToModem(i)
<1>1. pc = "push" /\ (push_i = NbSlots \/ OlderThan(logger_struct, prv_slot_epoch) = {})
  BY DEF PushExhausted, Goto
<1>2. Waiting(logger_struct) \subseteq Occupied(logger_struct)
      /\ Occupied(logger_struct) \subseteq Slots /\ Passed \in SUBSET Slots
  BY DEF Waiting, Occupied, Passed
<1>3. Occupied(logger_struct) \subseteq Passed
  <2>1. CASE push_i = NbSlots
    BY <1>1, <1>2, <2>1, SlotSets DEF PInv, WalkInv
  <2>2. CASE OlderThan(logger_struct, prv_slot_epoch) = {}
    BY <2>2 DEF Passed
  <2> QED
    BY <1>1, <2>1, <2>2
<1> QED
  BY <1>1, <1>2, <1>3 DEF PInv, WalkInv

LEMMA PInvInit == Init => PInv
<1> SUFFICES ASSUME Init PROVE PInv
  OBVIOUS
<1>1. DInv
  BY DInvInit
<1> QED
  BY <1>1 DEF Init, PInv, DatesApart, EmptyTable, Occupied, WalkInv

(* A message the tracker logs keeps the dates apart. *)
LEMMA LogKeepsDates ==
  ASSUME PInv, OrderlyWalk, NEW tag \in Tags, NEW date \in Dates, NEW d \in Data,
         LogMessage(tag, date, d)
  PROVE  DatesApart(logger_struct')
<1>0. logger_struct \in Table /\ DatesApart(logger_struct)
  BY DEF PInv, DInv, TInv, TypeOK, Table
<1>1. ASSUME NEW i \in Slots, NEW e \in {d, NoData}, FreshDate(date), FirstFree(logger_struct, i),
             logger_struct' = InsertData(logger_struct, i, tag, date, e)
      PROVE  DatesApart(logger_struct')
  <2>1. \A j \in Occupied(logger_struct) : logger_struct[j].createdDate # date
    BY <1>1 DEF FreshDate, OrderlyWalk
  <2>2. e \in Data \cup {NoData}
    OBVIOUS
  <2> QED
    BY <1>0, <1>1, <2>1, <2>2, InsertedDatesApart
<1> QED
  BY <1>0, <1>1 DEF LogMessage

LEMMA DatesApartStep ==
  ASSUME PInv, OrderlyWalk, [Next]_vars
  PROVE  DatesApart(logger_struct')
<1>0. logger_struct \in Table /\ SlotIds(logger_struct) /\ DatesApart(logger_struct)
  BY DEF PInv, DInv, TInv, TypeOK, Table
<1>1. CASE UNCHANGED logger_struct
  BY <1>0, <1>1
<1>2. ASSUME NEW tag \in Tags, NEW date \in Dates, NEW d \in Data, LogMessage(tag, date, d)
      PROVE  DatesApart(logger_struct')
  BY <1>2, LogKeepsDates
<1>3. CASE UserClear
  <2>1. DatesKept(logger_struct, logger_struct')
    BY <1>0, <1>3, ClearMatchingTagLemma, ClearedLemma DEF UserClear, DatesKept, Occupied, Table
  <2> QED
    BY <1>0, <2>1, DatesKeptLemma
<1>4. CASE ReadAck \/ MisreadAck
  <2>1. DatesKept(logger_struct, logger_struct')
    BY <1>0, <1>4, OnMsgAckDates, UplinkAssumption DEF ReadAck, MisreadAck, UplinkAssumption
  <2> QED
    BY <1>0, <2>1, DatesKeptLemma
<1>5. CASE ReadCommand
  BY <1>0, <1>1, <1>5, LogCommandDates, UplinkAssumption DEF ReadCommand, OrderlyWalk
<1>6. CASE Reboot
  BY <1>6 DEF Reboot, EmptyTable, DatesApart, Occupied
<1>61. ~ClearUnreadAck
  BY DEF ClearUnreadAck, OrderlyWalk
<1>7. GpsTags \subseteq Tags /\ "U_MSG" \in Tags
  BY UplinkAssumption DEF UplinkAssumption, Tags
<1>8. ASSUME \/ GpsDone \/ SatTickIdle \/ SatTickStart \/ ReadReset \/ EventsDone \/ SatTickEnd
             \/ ScreenDone \/ StatusUpdate \/ PushIdle \/ PushStart \/ PushExhausted \/ PushEnd
             \/ SatpassStart \/ (\E i \in Slots : PushSlot(i)) \/ UNCHANGED vars
             \/ (\E p \in queue : SatellitePass(p))
             \/ (\E c \in {"msg", "other"} : SatelliteCommand(c))
      PROVE  UNCHANGED logger_struct
  BY <1>8
  DEF GpsDone, SatTickIdle, SatTickStart, ReadReset, EventsDone, SatTickEnd, ScreenDone,
      StatusUpdate, PushIdle, PushStart, PushExhausted, PushEnd, SatpassStart, PushSlot,
      SatellitePass, SatelliteCommand, vars, tracker
<1> QED
  BY <1>1, <1>2, <1>3, <1>4, <1>5, <1>6, <1>61, <1>7, <1>8
  DEF Next, MainLoop, Environment, GpsMessage, UserMessage

LEMMA PInvStep == PInv /\ [Next]_vars /\ AckHoldsId /\ OrderlyWalk => PInv'
<1> SUFFICES ASSUME PInv, [Next]_vars, AckHoldsId, OrderlyWalk PROVE PInv'
  OBVIOUS
<1>0. DInv' /\ DatesApart(logger_struct') /\ TypeOK
  BY DInvStep, DatesApartStep DEF PInv, DInv, TInv
<1>1. ASSUME pc' # "push" PROVE WalkInv'
  BY <1>1 DEF WalkInv
<1>2. ASSUME UNCHANGED <<logger_struct, prv_slot_epoch, push_i, pc>>,
             \A i : KnownToModem(i) => KnownToModem(i)'
      PROVE  WalkInv'
  BY <1>2 DEF PInv, WalkInv, Passed
<1>3. ASSUME NEW p \in queue, SatellitePass(p) PROVE WalkInv'
  BY <1>0, <1>2, <1>3, PassKeepsKnown DEF SatellitePass, tracker
<1>4. ASSUME UNCHANGED vars \/ \E c \in {"msg", "other"} : SatelliteCommand(c)
      PROVE  WalkInv'
  BY <1>2, <1>4 DEF SatelliteCommand, vars, tracker, modem, KnownToModem
<1>5. ASSUME PushStart PROVE WalkInv'
  BY <1>5, PushStartWalk
<1>6. ASSUME NEW i \in Slots, PushSlot(i) PROVE WalkInv'
  BY <1>6, PushSlotWalk
<1>7. ASSUME \/ GpsDone \/ SatTickIdle \/ SatTickStart \/ ReadAck \/ MisreadAck
             \/ ClearUnreadAck \/ ReadReset \/ ReadCommand \/ EventsDone \/ SatTickEnd
             \/ ScreenDone \/ StatusUpdate
             \/ PushIdle \/ PushExhausted \/ PushEnd \/ UserClear \/ SatpassStart \/ Reboot
      PROVE  pc' # "push"
  BY <1>7
  DEF GpsDone, SatTickIdle, SatTickStart, ReadAck, MisreadAck, ClearUnreadAck, ReadReset,
      ReadCommand, EventsDone, SatTickEnd, ScreenDone, StatusUpdate, PushIdle, PushExhausted,
      PushEnd, UserClear,
      SatpassStart, Reboot, Goto, OrderlyWalk
<1>8. ASSUME NEW tag, NEW date, NEW d, GpsMessage(tag, date, d) \/ UserMessage(date, d)
      PROVE  pc' # "push"
  BY <1>8 DEF GpsMessage, UserMessage, LogMessage
<1>9. WalkInv'
  BY <1>1, <1>3, <1>4, <1>5, <1>6, <1>7, <1>8 DEF Next, MainLoop, Environment
<1> QED
  BY <1>0, <1>9 DEF PInv

(* PushOffersAll, for any number of slots and any size of the modem's       *)
(* queue: with calloc failures, resets, clears by the user and misread      *)
(* acknowledgements, as long as dates differ and exchanges succeed.         *)
THEOREM PushIsComplete == AckHoldsId /\ OrderlyWalk /\ Spec => PushOffersAll
<1>1. ASSUME PInv, [Next]_vars, AckHoldsId, OrderlyWalk, pc = "push", pc' = "pushed"
      PROVE  QueueFull \/ \A i \in Waiting(logger_struct) : KnownToModem(i)
  <2>1. PushExhausted \/ \E i \in Slots : PushSlot(i)
    BY <1>1
    DEF Next, MainLoop, Environment, vars, tracker, GpsDone, SatTickIdle, SatTickStart, ReadAck,
        MisreadAck, ClearUnreadAck, ReadReset, ReadCommand, EventsDone, SatTickEnd, ScreenDone,
        StatusUpdate, PushIdle, PushStart, PushEnd, SatellitePass, SatelliteCommand,
        GpsMessage, UserMessage,
        LogMessage, UserClear, SatpassStart, Reboot, Goto
  <2> QED
    BY <1>1, <2>1, WalkIsComplete, PushSlotWalk
<1>2. CASE AckHoldsId /\ OrderlyWalk
  <2>1. PInv /\ [Next]_vars => PInv'
    BY <1>2, PInvStep
  <2>2. PInv /\ [Next]_vars
          => [pc = "push" /\ pc' = "pushed" =>
                QueueFull \/ \A i \in Waiting(logger_struct) : KnownToModem(i)]_vars
    BY <1>1, <1>2
  <2> QED
    BY <2>1, <2>2, PInvInit, PTL DEF Spec, PushOffersAll
<1> QED
  BY <1>2

(* A push that has ended has offered everything, if the queue is as large   *)
(* as the logger.                                                           *)
AllOffered == pc = "pushed" => \A i \in Waiting(logger_struct) : KnownToModem(i)

NInv == PInv /\ AllOffered /\ NoStranded

(* The modem can hold every slot, and no slot is taken for a message that   *)
(* found no memory.                                                         *)
RoomForAll == QueueSize >= NbSlots /\ "no_mem" \notin Hazards

(* A queue with a place for each slot is full of all of them. *)
LEMMA FullQueueHoldsAll ==
  ASSUME DInv, QueueFull, RoomForAll
  PROVE  \A i \in Slots : KnownToModem(i)
<1> DEFINE f == [p \in queue |-> p.id]
<1>1. f \in Injection(queue, Slots)
  BY DEF DInv, TInv, TypeOK, Payload, OneIdEach, Injection, IsInjective
<1>2. IsFiniteSet(Slots) /\ Cardinality(Slots) = NbSlots /\ NbSlots \in Nat /\ QueueSize \in Nat
  BY FS_Interval, LoggerAssumption, UplinkAssumption
  DEF Slots, LoggerAssumption, UplinkAssumption
<1>3. /\ IsFiniteSet(queue) /\ Cardinality(queue) <= NbSlots
      /\ Cardinality(queue) = NbSlots => f \in Surjection(queue, Slots)
  <2> HIDE DEF f
  <2> QED
    BY <1>1, <1>2, FS_Injection
<1>4. Cardinality(queue) \in Nat
  BY <1>3, FS_CardinalityType
<1>5. Cardinality(queue) = NbSlots
  BY <1>2, <1>3, <1>4 DEF QueueFull, RoomForAll
<1>6. f \in Surjection(queue, Slots)
  BY <1>3, <1>5
<1> QED
  BY <1>6 DEF Surjection, KnownToModem

(* Steps that leave no new message waiting, and nothing that waits unknown  *)
(* to the modem, do no harm.                                                *)
LEMMA NoNewWaiting ==
  ASSUME NInv, PInv',
         \A i \in Waiting(logger_struct') :
           /\ i \in Waiting(logger_struct)
           /\ KnownToModem(i) => KnownToModem(i)',
         logger_new_data_available' \/ ~logger_new_data_available,
         pc' = "pushed" => pc = "pushed"
  PROVE  NInv'
<1>1. AllOffered'
  BY DEF NInv, AllOffered
<1>2. NoStranded'
  BY DEF NInv, NoStranded
<1> QED
  BY <1>1, <1>2 DEF NInv

(* The slot whose acknowledgement is read no longer waits. *)
LEMMA ReadAckStrandsNothing ==
  ASSUME DInv, "link_fault" \notin Hazards, ReadAck,
         NEW i \in Waiting(logger_struct')
  PROVE  i \in Waiting(logger_struct) /\ (KnownToModem(i) => KnownToModem(i)')
<1> DEFINE a == Head(acks)
<1>1. /\ logger_struct \in Table /\ SlotIds(logger_struct)
      /\ acks \in Seq(Slots) /\ acks # <<>> /\ a \in Slots /\ AckDates \subseteq Dates
  BY UplinkAssumption DEF DInv, TInv, TypeOK, Table, ReadAck, UplinkAssumption
<1>2. Range(Tail(acks)) = Range(acks) \ {a}
  BY <1>1, TailLemma DEF DInv, OneIdEach
<1>3. a \notin Waiting(logger_struct') /\ Waiting(logger_struct') \subseteq Waiting(logger_struct)
  BY <1>1, OnMsgAckEffect, OnMsgAckDates DEF ReadAck
<1>4. acks' = Tail(acks) /\ queue' = queue
  BY DEF ReadAck
<1> QED
  BY <1>2, <1>3, <1>4 DEF KnownToModem

(* A turn of the push loop, and the end of the loop. *)
LEMMA PushStrandsNothing ==
  ASSUME NInv, PInv', OrderlyWalk, RoomForAll, AckHoldsId,
         PushExhausted \/ \E i \in Slots : PushSlot(i)
  PROVE  NInv'
<1>1. UNCHANGED <<logger_struct, acks, logger_new_data_available>> /\ queue \subseteq queue'
  BY DEF PushExhausted, PushSlot, SendMessage, modem
<1>2. \A i : KnownToModem(i) => KnownToModem(i)'
  BY <1>1 DEF KnownToModem
<1>3. NoStranded'
  BY <1>1, <1>2 DEF NInv, NoStranded
<1>4. AllOffered'
  <2>1. CASE PushExhausted
    BY <1>1, <1>2, <2>1, WalkIsComplete DEF NInv, AllOffered
  <2>2. CASE pc' = "pushed" /\ \E i \in Slots : PushSlot(i)
    <3>1. \A i \in Slots : KnownToModem(i)
      BY <2>2, PushSlotWalk, FullQueueHoldsAll DEF NInv, PInv
    <3> QED
      BY <1>1, <1>2, <3>1 DEF AllOffered, Waiting, Occupied
  <2>3. CASE pc' # "pushed"
    BY <2>3 DEF AllOffered
  <2> QED
    BY <2>1, <2>2, <2>3
<1> QED
  BY <1>3, <1>4 DEF NInv

LEMMA NInvStep == NInv /\ [Next]_vars /\ AckHoldsId /\ OrderlyWalk /\ RoomForAll => NInv'
<1> SUFFICES ASSUME NInv, [Next]_vars, AckHoldsId, OrderlyWalk, RoomForAll PROVE NInv'
  OBVIOUS
<1>0. /\ PInv' /\ DInv /\ TypeOK /\ DatesApart(logger_struct)
      /\ logger_struct \in Table /\ SlotIds(logger_struct)
  BY PInvStep DEF NInv, PInv, DInv, TInv, TypeOK, Table
<1>1. ASSUME \/ GpsDone \/ SatTickIdle \/ SatTickStart \/ ReadReset \/ EventsDone \/ SatTickEnd
             \/ ScreenDone \/ StatusUpdate \/ PushIdle \/ PushStart \/ SatpassStart
             \/ UNCHANGED vars \/ \E c \in {"msg", "other"} : SatelliteCommand(c)
      PROVE  NInv'
  <2>1. UNCHANGED <<logger_struct, queue, acks>>
    BY <1>1
    DEF GpsDone, SatTickIdle, SatTickStart, ReadReset, EventsDone, SatTickEnd, ScreenDone,
        StatusUpdate, PushIdle, PushStart, SatpassStart, SatelliteCommand, vars, tracker, modem
  <2>2. /\ logger_new_data_available' \/ logger_new_data_available' = logger_new_data_available
        /\ pc' = "pushed" => pc = "pushed"
    BY <1>1
    DEF GpsDone, SatTickIdle, SatTickStart, ReadReset, EventsDone, SatTickEnd, ScreenDone,
        StatusUpdate, PushIdle, PushStart, SatpassStart, SatelliteCommand, vars, tracker, Goto
  <2> QED
    BY <1>0, <2>1, <2>2, NoNewWaiting DEF KnownToModem
<1>2. ASSUME NEW p \in queue, SatellitePass(p) PROVE NInv'
  BY <1>0, <1>2, PassKeepsKnown, NoNewWaiting DEF SatellitePass, tracker
<1>3. ASSUME NEW tag, NEW date, NEW d, GpsMessage(tag, date, d) \/ UserMessage(date, d)
      PROVE  NInv'
  <2>1. logger_new_data_available' = TRUE /\ pc' = pc /\ pc # "pushed"
    BY <1>3 DEF GpsMessage, UserMessage, LogMessage
  <2> QED
    BY <1>0, <2>1 DEF NInv, AllOffered, NoStranded
<1>4. ASSUME UserClear PROVE NInv'
  <2>1. Waiting(logger_struct') \subseteq Waiting(logger_struct)
    BY <1>0, <1>4, ClearMatchingTagLemma, ClearedLemma
    DEF UserClear, Waiting, Occupied, Table
  <2> QED
    BY <1>0, <1>4, <2>1, NoNewWaiting DEF UserClear, modem, KnownToModem
<1>5. ASSUME ReadAck PROVE NInv'
  BY <1>0, <1>5, ReadAckStrandsNothing, NoNewWaiting DEF ReadAck, OrderlyWalk
<1>6. ASSUME MisreadAck PROVE NInv'
  <2>1. Waiting(logger_struct') \subseteq Waiting(logger_struct)
    BY <1>0, <1>6, OnMsgAckDates, UplinkAssumption DEF MisreadAck, UplinkAssumption
  <2> QED
    BY <1>0, <1>6, <2>1, NoNewWaiting DEF MisreadAck, modem, KnownToModem
<1>61. ~ClearUnreadAck
  BY DEF ClearUnreadAck, OrderlyWalk
<1>7. ASSUME ReadCommand PROVE NInv'
  <2>1. Waiting(logger_struct') \subseteq Waiting(logger_struct)
    BY <1>0, <1>7, LogCommandDates, UplinkAssumption DEF ReadCommand, OrderlyWalk, RoomForAll
  <2> QED
    BY <1>0, <1>7, <2>1, NoNewWaiting DEF ReadCommand, KnownToModem
<1>8. ASSUME PushExhausted \/ \E i \in Slots : PushSlot(i) PROVE NInv'
  BY <1>0, <1>8, PushStrandsNothing
<1>9. ASSUME PushEnd PROVE NInv'
  <2>1. UNCHANGED <<logger_struct, queue, acks>> /\ pc = "pushed" /\ pc' = "gps"
    BY <1>9 DEF PushEnd, Goto, modem
  <2> QED
    BY <1>0, <2>1 DEF NInv, AllOffered, NoStranded, KnownToModem
<1>10. ASSUME Reboot PROVE NInv'
  <2>1. Waiting(logger_struct') = {} /\ pc' = "gps"
    BY <1>10 DEF Reboot, EmptyTable, Waiting, Occupied
  <2> QED
    BY <1>0, <2>1 DEF NInv, AllOffered, NoStranded
<1> QED
  BY <1>1, <1>2, <1>3, <1>4, <1>5, <1>6, <1>61, <1>7, <1>8, <1>9, <1>10
  DEF Next, MainLoop, Environment

(* NoStranded, for any number of slots, when the modem's queue is as large  *)
(* as the logger and the walk is orderly; resets, clears by the user and    *)
(* misread acknowledgements included.                                       *)
THEOREM NothingStranded == AckHoldsId /\ OrderlyWalk /\ RoomForAll /\ Spec => []NoStranded
<1>1. Init => NInv
  BY PInvInit
  DEF Init, NInv, AllOffered, NoStranded, EmptyTable, Waiting, Occupied
<1>2. NInv => NoStranded
  BY DEF NInv
<1>3. CASE AckHoldsId /\ OrderlyWalk /\ RoomForAll
  <2>1. NInv /\ [Next]_vars => NInv'
    BY <1>3, NInvStep
  <2> QED
    BY <1>1, <1>2, <2>1, PTL DEF Spec
<1> QED
  BY <1>3

=============================================================================

---------------------------- MODULE LoggerTable ----------------------------
(***************************************************************************)
(* The slot table of the data logger (core/logger/logger.cpp) and the      *)
(* effect of each logger_* function on it, as operators from a table to a  *)
(* table.  The handlers of the tracker call several of these functions in  *)
(* one step, so the operators compose; module Logger turns them into a     *)
(* state machine of their own.                                             *)
(*                                                                         *)
(* Abstractions: a payload is a value of Data; the buffer and its size are *)
(* the field data, NoData standing for a NULL or a freed buffer; a date is *)
(* a natural number, of which the logger only uses the order.              *)
(***************************************************************************)
EXTENDS Naturals

CONSTANTS
  NbSlots,  \* LOGGER_NB_SLOTS, 100 in the firmware
  Data,     \* the payloads that can be logged
  NoData,   \* the buffer of a slot that holds no payload
  Dates,    \* the epochs (uint32_t seconds) messages are dated with
  MaxEpoch  \* 0xFFFFFFFF, the threshold every walk over the table starts from

ASSUME LoggerAssumption ==
  /\ NbSlots \in Nat \ {0}
  /\ NoData \notin Data
  /\ Dates \subseteq Nat \ {0}
  /\ MaxEpoch \in Nat \ {0}
  /\ \A d \in Dates : d < MaxEpoch

Slots == 1 .. NbSlots

(* The LOGGER_TAG_* values; an empty slot has tag 0, here NoTag. *)
Tags  == {"PVT", "U_MSG", "U_CMD", "RAW"}
NoTag == "none"

(* logger_slot_status_id_t.  QUEUED is declared, and set nowhere. *)
Status == {"EMPTY", "WAITING_TRANSMIT", "TRANSMITTED"}

Slot == [id : {0} \cup Slots, tag : Tags \cup {NoTag}, createdDate : {0} \cup Dates,
         acknowledgedDate : {0} \cup Dates, status : Status, data : Data \cup {NoData}]

(* calloc of the table: every field is zero. *)
EmptyTable ==
  [i \in Slots |-> [id |-> 0, tag |-> NoTag, createdDate |-> 0,
                    acknowledgedDate |-> 0, status |-> "EMPTY", data |-> NoData]]

-----------------------------------------------------------------------------
(* Lookups.  Each loop of the C code stops at the first index that matches. *)

Occupied(t) == {i \in Slots : t[i].id # 0}

IsFirst(i, S) == i \in S /\ \A j \in S : i <= j

(* The index the loop `if (logger_struct[i].id == id)` stops at.  With id 0 *)
(* it is the first empty slot: no function excludes 0.                      *)
Finds(t, id, i) == IsFirst(i, {j \in Slots : t[j].id = id})

(* The slots whose date is strictly below the threshold. *)
OlderThan(t, thresh) == {i \in Occupied(t) : t[i].createdDate < thresh}

(* What logger_get_youngest_slot_id_older_than promises of the slot it      *)
(* returns: none of the eligible slots is younger; of slots with one date   *)
(* the loop keeps the last, because it compares with >=.                    *)
IsYoungestOlderThan(t, thresh, i) ==
  /\ i \in OlderThan(t, thresh)
  /\ \A j \in OlderThan(t, thresh) :
        \/ t[j].createdDate < t[i].createdDate
        \/ t[j].createdDate = t[i].createdDate /\ j <= i

-----------------------------------------------------------------------------
(* Updates. *)

(* Writing one field of the slot that has this id; no effect if none has.  *)
SetStatus(t, id, status) ==
  [i \in Slots |-> IF Finds(t, id, i) THEN [t[i] EXCEPT !.status = status] ELSE t[i]]

SetAcknowledgedDate(t, id, date) ==
  [i \in Slots |-> IF Finds(t, id, i) THEN [t[i] EXCEPT !.acknowledgedDate = date] ELSE t[i]]

(* Variant: the tag of the cleared slot is left behind. *)
ClearedButTag(slot) ==
  [slot EXCEPT !.id = 0, !.createdDate = 0, !.status = "EMPTY", !.data = NoData]

(* What clearing leaves in a slot: acknowledgedDate keeps its value. *)
Cleared(slot) ==
  [slot EXCEPT !.id = 0, !.tag = NoTag, !.createdDate = 0, !.status = "EMPTY", !.data = NoData]

ClearSlot(t, id) ==
  [i \in Slots |-> IF Finds(t, id, i) THEN Cleared(t[i]) ELSE t[i]]

(* Called with a tag of Tags only, which no empty slot carries: clearing by *)
(* the id of each matching slot clears exactly the matching slots.          *)
ClearMatchingTag(t, tag) ==
  [i \in Slots |-> IF t[i].tag = tag THEN Cleared(t[i]) ELSE t[i]]

(* Variant: the id is one more than the index + 1. *)
FilledIdOffByOne(slot, i, tag, date, data) ==
  [slot EXCEPT !.id = i + 1, !.tag = tag, !.createdDate = date,
               !.status = "WAITING_TRANSMIT", !.data = data]

(* logger_insert_data fills the first empty slot; acknowledgedDate keeps    *)
(* the value the last user of the slot left.  When calloc returns NULL the  *)
(* slot is taken all the same and its buffer is NULL (data = NoData).       *)
Filled(slot, i, tag, date, data) ==
  [id |-> i, tag |-> tag, createdDate |-> date, acknowledgedDate |-> slot.acknowledgedDate,
   status |-> "WAITING_TRANSMIT", data |-> data]

(* Variant: a full table gives its last slot. *)
FirstFreeOrLast(t, i) == Finds(t, 0, i) \/ (Occupied(t) = Slots /\ i = NbSlots)

FirstFree(t, i) == Finds(t, 0, i)

InsertData(t, i, tag, date, data) ==
  [t EXCEPT ![i] = Filled(t[i], i, tag, date, data)]

Full(t) == Occupied(t) = Slots

=============================================================================

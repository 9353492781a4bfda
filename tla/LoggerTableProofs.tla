------------------------- MODULE LoggerTableProofs -------------------------
(***************************************************************************)
(* Lemmas on the operators of LoggerTable, for any table: the types they   *)
(* preserve, and which slots each of them touches.                         *)
(***************************************************************************)
EXTENDS LoggerTable, TLAPS

Table == [Slots -> Slot]

(* An id is the index of its slot; an empty slot holds no message that      *)
(* waits.  Its status may be TRANSMITTED: marking id 0 marks the first      *)
(* empty slot.                                                              *)
SlotIds(t) ==
  \A i \in Slots :
    /\ t[i].id \in {0, i}
    /\ t[i].id = 0 => t[i].data = NoData /\ t[i].status # "WAITING_TRANSMIT"

-----------------------------------------------------------------------------
(* The constants are natural numbers. *)
LEMMA SlotsAreNat == Slots \subseteq Nat \ {0}
  BY LoggerAssumption DEF Slots

(* A table of zeros is a table, with ids in place. *)
LEMMA EmptyTableLemma == EmptyTable \in Table /\ SlotIds(EmptyTable)
  BY DEF EmptyTable, Table, Slot, Status, SlotIds

(* A lookup finds a slot with the id it was given, and at most one.         *)
LEMMA FindsOne ==
  ASSUME NEW t, NEW id, NEW i \in Slots, Finds(t, id, i)
  PROVE  /\ t[i].id = id
         /\ \A j \in Slots : Finds(t, id, j) => j = i
  BY SlotsAreNat DEF Finds, IsFirst

(* With the ids in place, the lookup of an id other than 0 can only find    *)
(* the slot with that index.                                                *)
LEMMA FindsIsIndex ==
  ASSUME NEW t, SlotIds(t), NEW id, id # 0, NEW i \in Slots, Finds(t, id, i)
  PROVE  i = id
  BY FindsOne DEF SlotIds

(* ... and does find it when that slot is taken. *)
LEMMA TakenIsFound ==
  ASSUME NEW t, SlotIds(t), NEW i \in Slots, t[i].id # 0
  PROVE  t[i].id = i /\ Finds(t, i, i)
  BY SlotsAreNat DEF SlotIds, Finds, IsFirst

-----------------------------------------------------------------------------
(* The updates keep the type of the table and the ids in place. *)
LEMMA SetStatusLemma ==
  ASSUME NEW t \in Table, NEW id, NEW s \in Status
  PROVE  /\ SetStatus(t, id, s) \in Table
         /\ \A i \in Slots :
              /\ SetStatus(t, id, s)[i] = [t[i] EXCEPT !.status = SetStatus(t, id, s)[i].status]
              /\ SetStatus(t, id, s)[i].status = IF Finds(t, id, i) THEN s ELSE t[i].status
  BY DEF SetStatus, Table, Slot

LEMMA SetAcknowledgedDateLemma ==
  ASSUME NEW t \in Table, NEW id, NEW date \in Dates
  PROVE  /\ SetAcknowledgedDate(t, id, date) \in Table
         /\ \A i \in Slots :
              LET u == SetAcknowledgedDate(t, id, date) IN
              /\ u[i].id = t[i].id /\ u[i].tag = t[i].tag /\ u[i].data = t[i].data
              /\ u[i].status = t[i].status /\ u[i].createdDate = t[i].createdDate
  BY DEF SetAcknowledgedDate, Table, Slot

LEMMA ClearedLemma ==
  ASSUME NEW s \in Slot
  PROVE  /\ Cleared(s) \in Slot
         /\ Cleared(s).id = 0 /\ Cleared(s).tag = NoTag /\ Cleared(s).data = NoData
         /\ Cleared(s).status = "EMPTY" /\ Cleared(s).createdDate = 0
  BY DEF Cleared, Slot, Status

LEMMA ClearSlotLemma ==
  ASSUME NEW t \in Table, NEW id
  PROVE  /\ ClearSlot(t, id) \in Table
         /\ \A i \in Slots :
              ClearSlot(t, id)[i] = IF Finds(t, id, i) THEN Cleared(t[i]) ELSE t[i]
  BY ClearedLemma DEF ClearSlot, Table

LEMMA ClearMatchingTagLemma ==
  ASSUME NEW t \in Table, NEW tag
  PROVE  /\ ClearMatchingTag(t, tag) \in Table
         /\ \A i \in Slots :
              ClearMatchingTag(t, tag)[i] = IF t[i].tag = tag THEN Cleared(t[i]) ELSE t[i]
  BY ClearedLemma DEF ClearMatchingTag, Table

LEMMA FilledLemma ==
  ASSUME NEW s \in Slot, NEW i \in Slots, NEW tag \in Tags, NEW date \in Dates,
         NEW d \in Data \cup {NoData}
  PROVE  LET u == Filled(s, i, tag, date, d) IN
         /\ u \in Slot
         /\ u.id = i /\ u.tag = tag /\ u.data = d /\ u.createdDate = date
         /\ u.status = "WAITING_TRANSMIT"
<1>1. s.acknowledgedDate \in {0} \cup Dates
  BY DEF Slot
<1> QED
  BY <1>1 DEF Filled, Slot, Status

LEMMA InsertDataLemma ==
  ASSUME NEW t \in Table, NEW i \in Slots, NEW tag \in Tags, NEW date \in Dates,
         NEW d \in Data \cup {NoData}
  PROVE  LET u == InsertData(t, i, tag, date, d) IN
         /\ u \in Table
         /\ u[i].id = i /\ u[i].tag = tag /\ u[i].data = d /\ u[i].createdDate = date
         /\ u[i].status = "WAITING_TRANSMIT"
         /\ \A j \in Slots : j # i => u[j] = t[j]
  BY FilledLemma DEF InsertData, Table

(* The slot an insertion takes is empty. *)
LEMMA FirstFreeIsEmpty ==
  ASSUME NEW t, NEW i \in Slots, FirstFree(t, i)
  PROVE  t[i].id = 0
  BY FindsOne DEF FirstFree

=============================================================================

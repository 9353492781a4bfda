------------------------------- MODULE Logger -------------------------------
(***************************************************************************)
(* The logger of core/logger as a state machine: one action per function   *)
(* that changes the table, called in any order with the arguments its      *)
(* callers in sm_main.cpp can pass, and the loops of its lookups as the C  *)
(* code runs them, index by index, compared with what LoggerTable says     *)
(* they return.                                                            *)
(***************************************************************************)
EXTENDS LoggerTable, FiniteSets

CONSTANTS
  ApiTags,  \* the tags the caller uses in this instance
  AckDates  \* the dates it passes as acknowledgement dates

ASSUME ApiAssumption == ApiTags \subseteq Tags /\ AckDates \subseteq Dates

VARIABLE
  logger_struct   \* the table

vars == <<logger_struct>>

-----------------------------------------------------------------------------
(* The loops as they run.  f[n] is the state of the loop's variables after *)
(* n slots.                                                                *)

(* Variants: the loop starts at index 1; the threshold itself is eligible. *)
ScanFromSecondSlot(t, thresh) ==
  LET f[n \in 1 .. NbSlots] ==
        IF n = 1 THEN [id |-> 0, epoch |-> 0]
        ELSE IF /\ t[n].id # 0
                /\ t[n].createdDate >= f[n - 1].epoch
                /\ t[n].createdDate < thresh
             THEN [id |-> t[n].id, epoch |-> t[n].createdDate]
             ELSE f[n - 1]
  IN  f[NbSlots]

ScanYoungestOlderOrEqual(t, thresh) ==
  LET f[n \in 0 .. NbSlots] ==
        IF n = 0 THEN [id |-> 0, epoch |-> 0]
        ELSE IF /\ t[n].id # 0
                /\ t[n].createdDate >= f[n - 1].epoch
                /\ t[n].createdDate <= thresh
             THEN [id |-> t[n].id, epoch |-> t[n].createdDate]
             ELSE f[n - 1]
  IN  f[NbSlots]

(* logger_get_youngest_slot_id_older_than, createdDate initialised to 0 by  *)
(* every caller.                                                            *)
ScanYoungestOlderThan(t, thresh) ==
  LET f[n \in 0 .. NbSlots] ==
        IF n = 0 THEN [id |-> 0, epoch |-> 0]
        ELSE IF /\ t[n].id # 0
                /\ t[n].createdDate >= f[n - 1].epoch
                /\ t[n].createdDate < thresh
             THEN [id |-> t[n].id, epoch |-> t[n].createdDate]
             ELSE f[n - 1]
  IN  f[NbSlots]

(* logger_get_oldest_slot_id and logger_get_youngest_slot_id. *)
ScanOldest(t) ==
  LET f[n \in 0 .. NbSlots] ==
        IF n = 0 THEN [id |-> 0, epoch |-> MaxEpoch]
        ELSE IF t[n].id # 0 /\ t[n].createdDate <= f[n - 1].epoch
             THEN [id |-> t[n].id, epoch |-> t[n].createdDate]
             ELSE f[n - 1]
  IN  f[NbSlots].id

ScanYoungest(t) ==
  LET f[n \in 0 .. NbSlots] ==
        IF n = 0 THEN [id |-> 0, epoch |-> 0]
        ELSE IF t[n].id # 0 /\ t[n].createdDate >= f[n - 1].epoch
             THEN [id |-> t[n].id, epoch |-> t[n].createdDate]
             ELSE f[n - 1]
  IN  f[NbSlots].id

(* Variant: the loop returns after the first slot it clears. *)
LoopClearFirstMatching(t, tag) ==
  LET f[n \in 0 .. NbSlots] ==
        IF n = 0 THEN t
        ELSE IF f[n - 1][n].tag = tag /\ \A m \in 1 .. n - 1 : t[m].tag # tag
             THEN ClearSlot(f[n - 1], f[n - 1][n].id)
             ELSE f[n - 1]
  IN  f[NbSlots]

(* logger_clear_all_slots_matching_tag: each matching slot is cleared by    *)
(* its id, through the lookup of logger_clear_slot.                         *)
LoopClearMatchingTag(t, tag) ==
  LET f[n \in 0 .. NbSlots] ==
        IF n = 0 THEN t
        ELSE IF f[n - 1][n].tag = tag
             THEN ClearSlot(f[n - 1], f[n - 1][n].id)
             ELSE f[n - 1]
  IN  f[NbSlots]

(* The walk of logger_push_slots_to_sat and of the two listings of the BLE  *)
(* interface: NbSlots lookups, each below the date the last one returned.   *)
(* Walk(t)[n] is what the n-th lookup returned (id 0: nothing).             *)
Walk(t) ==
  LET w[n \in 0 .. NbSlots] ==
        IF n = 0 THEN [id |-> 0, epoch |-> MaxEpoch]
        ELSE ScanYoungestOlderThan(t, w[n - 1].epoch)
  IN  [n \in Slots |-> w[n]]

-----------------------------------------------------------------------------
Init == logger_struct = EmptyTable

(* logger_insert_data with memory available, and with calloc failing. *)
logger_insert_data(tag, date, data) ==
  \E i \in Slots :
    /\ FirstFree(logger_struct, i)
    /\ logger_struct' = InsertData(logger_struct, i, tag, date, data)

logger_clear_slot(id) ==
  /\ \E i \in Slots : Finds(logger_struct, id, i)
  /\ logger_struct' = ClearSlot(logger_struct, id)

(* The loop as it runs is LoopClearMatchingTag; ClearMatchingExact compares *)
(* the two on every table.                                                  *)
logger_clear_all_slots_matching_tag(tag) ==
  logger_struct' = ClearMatchingTag(logger_struct, tag)

(* Callers only ever set TRANSMITTED, and with any id, 0 included. *)
logger_set_status_of_slot_id(id) ==
  /\ \E i \in Slots : Finds(logger_struct, id, i)
  /\ logger_struct' = SetStatus(logger_struct, id, "TRANSMITTED")

logger_set_acknowledgeddate_of_slot_id(id, date) ==
  /\ \E i \in Slots : Finds(logger_struct, id, i)
  /\ logger_struct' = SetAcknowledgedDate(logger_struct, id, date)

Next ==
  \/ \E tag \in ApiTags, date \in Dates, data \in Data \cup {NoData} :
        logger_insert_data(tag, date, data)
  \/ \E id \in Slots : logger_clear_slot(id)
  \/ \E tag \in ApiTags : logger_clear_all_slots_matching_tag(tag)
  \/ \E id \in {0} \cup Slots : logger_set_status_of_slot_id(id)
  \/ \E id \in {0} \cup Slots, date \in AckDates :
        logger_set_acknowledgeddate_of_slot_id(id, date)

Spec == Init /\ [][Next]_vars

-----------------------------------------------------------------------------
(* Type invariant of the slot table: the fields have their types, a slot    *)
(* that is taken carries its own index + 1 as id (logger.cpp:79), and the   *)
(* tag tells taken and empty slots apart as well as the id does, which      *)
(* logger_clear_all_slots_matching_tag relies on.                           *)
TypeOK ==
  /\ logger_struct \in [Slots -> Slot]
  /\ \A i \in Slots :
        /\ logger_struct[i].id \in {0, i}
        /\ logger_struct[i].id = 0 <=> logger_struct[i].tag = NoTag

(* The scans of the lookups return what is promised of them, for every      *)
(* table the API can build and every threshold: the youngest eligible slot  *)
(* (or none only if no slot is eligible), the oldest, the youngest.         *)
ScansCorrect ==
  /\ \A thresh \in Dates \cup {0, MaxEpoch} :
        LET r == ScanYoungestOlderThan(logger_struct, thresh) IN
        IF OlderThan(logger_struct, thresh) = {}
        THEN r = [id |-> 0, epoch |-> 0]
        ELSE \E i \in Slots : /\ IsYoungestOlderThan(logger_struct, thresh, i)
                              /\ r = [id |-> i, epoch |-> logger_struct[i].createdDate]
  /\ LET o == ScanOldest(logger_struct)
         y == ScanYoungest(logger_struct)
         D(i) == logger_struct[i].createdDate
     IN  IF Occupied(logger_struct) = {} THEN o = 0 /\ y = 0
         ELSE /\ {o, y} \subseteq Occupied(logger_struct)
              /\ \A j \in Occupied(logger_struct) : D(o) <= D(j) /\ D(j) <= D(y)

(* The walk that the push to the modem and the BLE listings make visits     *)
(* each date of the table exactly once, youngest first, and then reports    *)
(* nothing: the loop bound LOGGER_NB_SLOTS never cuts it short, and when no *)
(* two slots share a date no slot is skipped.                               *)
WalkVisitsEachDateOnce ==
  LET w     == Walk(logger_struct)
      Hits  == {n \in Slots : w[n].id # 0}
      Dated == {logger_struct[i].createdDate : i \in Occupied(logger_struct)}
  IN  /\ Hits = 1 .. Cardinality(Dated)
      /\ {w[n].epoch : n \in Hits} = Dated
      /\ \A n \in Hits : w[n].epoch = logger_struct[w[n].id].createdDate
      /\ \A m, n \in Hits : m < n => w[n].epoch < w[m].epoch
      /\ Cardinality(Dated) = Cardinality(Occupied(logger_struct))
            => {w[n].id : n \in Hits} = Occupied(logger_struct)

(* Clearing by tag, done slot by slot through a lookup by id, clears the    *)
(* slots that carry the tag and touches no other one.                       *)
ClearMatchingExact ==
  \A tag \in Tags :
    LoopClearMatchingTag(logger_struct, tag) = ClearMatchingTag(logger_struct, tag)

(* A taken slot keeps its payload, tag and date until it is cleared: no     *)
(* insertion, status or date update, whatever id it is given, lands on the  *)
(* payload of another message; and an insertion fills no slot but the one   *)
(* it took.                                                                 *)
NoOverwrite ==
  [][ \A i \in Slots :
        logger_struct[i].id # 0 /\ logger_struct'[i].id # 0 =>
          /\ logger_struct'[i].data = logger_struct[i].data
          /\ logger_struct'[i].tag = logger_struct[i].tag
          /\ logger_struct'[i].createdDate = logger_struct[i].createdDate ]_vars

=============================================================================

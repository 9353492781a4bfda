---------------------------- MODULE LoggerProofs ----------------------------
(***************************************************************************)
(* Proofs about Logger, for a table of any size: its type invariant, that  *)
(* no call overwrites the message of a slot that is taken, and that the    *)
(* loops, run index by index, return and do what is promised of them.      *)
(*                                                                         *)
(* The induction over the indices is done with sets: the set of numbers    *)
(* for which the claim holds contains 0 and the successor of each member,  *)
(* so it holds all of them, since a set without a least member is empty    *)
(* (WFMin).  A loop is a function defined by recursion, which has to be    *)
(* shown to exist: LoopDefined.                                            *)
(***************************************************************************)
EXTENDS Logger, LoggerTableProofs, FiniteSetTheorems

(* Marking and dating write one field each, of the slot that was found. *)
LEMMA MarkLemma ==
  ASSUME NEW t \in Table, NEW id, NEW date \in AckDates,
         NEW u \in {SetStatus(t, id, "TRANSMITTED"), SetAcknowledgedDate(t, id, date)}
  PROVE  /\ u \in Table
         /\ \A i \in Slots : /\ u[i].id = t[i].id /\ u[i].tag = t[i].tag
                             /\ u[i].data = t[i].data /\ u[i].createdDate = t[i].createdDate
<1>1. CASE u = SetStatus(t, id, "TRANSMITTED")
  BY <1>1 DEF SetStatus, Table, Slot, Status
<1>2. CASE u = SetAcknowledgedDate(t, id, date)
  BY <1>2, ApiAssumption, SetAcknowledgedDateLemma DEF ApiAssumption
<1> QED
  BY <1>1, <1>2

(* The effect of a step on each slot: it keeps its message, it is emptied,  *)
(* or it was empty and is filled.                                           *)
SlotEffect(i) ==
  \/ /\ logger_struct'[i].id = logger_struct[i].id
     /\ logger_struct'[i].tag = logger_struct[i].tag
     /\ logger_struct'[i].data = logger_struct[i].data
     /\ logger_struct'[i].createdDate = logger_struct[i].createdDate
  \/ logger_struct'[i].id = 0 /\ logger_struct'[i].tag = NoTag
  \/ logger_struct[i].id = 0 /\ logger_struct'[i].id = i /\ logger_struct'[i].tag \in Tags

LEMMA StepEffect ==
  ASSUME logger_struct \in Table, [Next]_vars
  PROVE  logger_struct' \in Table /\ \A i \in Slots : SlotEffect(i)
<1> DEFINE Goal == logger_struct' \in Table /\ \A i \in Slots : SlotEffect(i)
<1>1. ASSUME NEW tag \in ApiTags, NEW date \in Dates, NEW data \in Data \cup {NoData},
             logger_insert_data(tag, date, data)
      PROVE  Goal
  <2>1. PICK i \in Slots : /\ FirstFree(logger_struct, i)
                           /\ logger_struct' = InsertData(logger_struct, i, tag, date, data)
    BY <1>1 DEF logger_insert_data
  <2>2. tag \in Tags
    BY ApiAssumption DEF ApiAssumption
  <2>3. /\ logger_struct' \in Table
        /\ logger_struct'[i].id = i /\ logger_struct'[i].tag = tag
        /\ \A j \in Slots : j # i => logger_struct'[j] = logger_struct[j]
    BY <2>1, <2>2, InsertDataLemma
  <2>4. logger_struct[i].id = 0
    BY <2>1, FirstFreeIsEmpty
  <2> QED
    BY <2>2, <2>3, <2>4 DEF SlotEffect
<1>2. ASSUME NEW id \in Slots, logger_clear_slot(id)
      PROVE  Goal
  BY <1>2, ClearSlotLemma, ClearedLemma DEF logger_clear_slot, SlotEffect, Table
<1>3. ASSUME NEW tag \in ApiTags, logger_clear_all_slots_matching_tag(tag)
      PROVE  Goal
  BY <1>3, ClearMatchingTagLemma, ClearedLemma
  DEF logger_clear_all_slots_matching_tag, SlotEffect, Table
<1>4. ASSUME NEW id \in {0} \cup Slots, logger_set_status_of_slot_id(id)
      PROVE  Goal
  BY <1>4 DEF logger_set_status_of_slot_id, SlotEffect, SetStatus, Table, Slot, Status
<1>5. ASSUME NEW id \in {0} \cup Slots, NEW date \in AckDates,
             logger_set_acknowledgeddate_of_slot_id(id, date)
      PROVE  Goal
  BY <1>5, MarkLemma DEF logger_set_acknowledgeddate_of_slot_id, SlotEffect
<1>6. CASE UNCHANGED vars
  BY <1>6 DEF vars, SlotEffect
<1> QED
  BY <1>1, <1>2, <1>3, <1>4, <1>5, <1>6 DEF Next

(* TypeOK is inductive as it stands. *)
LEMMA TypeOKStep == TypeOK /\ [Next]_vars => TypeOK'
<1> SUFFICES ASSUME TypeOK, [Next]_vars PROVE TypeOK'
  OBVIOUS
<1>1. logger_struct' \in Table /\ \A i \in Slots : SlotEffect(i)
  BY StepEffect DEF TypeOK, Table
<1>2. ASSUME NEW i \in Slots
      PROVE  /\ logger_struct'[i].id \in {0, i}
             /\ logger_struct'[i].id = 0 <=> logger_struct'[i].tag = NoTag
  BY <1>1, SlotsAreNat DEF TypeOK, SlotEffect, Tags, NoTag
<1> QED
  BY <1>1, <1>2 DEF TypeOK, Table

(* TypeOK: the ids are in place and the tag tells taken slots from empty    *)
(* ones, for a table of any size.                                           *)
THEOREM LoggerTypeCorrect == Spec => []TypeOK
<1>1. Init => TypeOK
  BY EmptyTableLemma DEF Init, TypeOK, EmptyTable, Table
<1> QED
  BY <1>1, TypeOKStep, PTL DEF Spec

(* NoOverwrite: whatever is called with whatever id, a taken slot keeps its *)
(* message, tag and date until it is cleared.                               *)
THEOREM LoggerNeverOverwrites == Spec => NoOverwrite
<1>1. Init => TypeOK
  BY EmptyTableLemma DEF Init, TypeOK, EmptyTable, Table
<1>2. TypeOK /\ [Next]_vars =>
        [ \A i \in Slots :
            logger_struct[i].id # 0 /\ logger_struct'[i].id # 0 =>
              /\ logger_struct'[i].data = logger_struct[i].data
              /\ logger_struct'[i].tag = logger_struct[i].tag
              /\ logger_struct'[i].createdDate = logger_struct[i].createdDate ]_vars
  BY StepEffect DEF TypeOK, Table, SlotEffect
<1> QED
  BY <1>1, <1>2, TypeOKStep, PTL DEF Spec, NoOverwrite

-----------------------------------------------------------------------------
(* Induction and loops. *)

(* A set that holds 0 and the successor of each of its members holds every  *)
(* natural number.                                                          *)
LEMMA Induction ==
  ASSUME NEW S, 0 \in S, \A n \in Nat : n \in S => n + 1 \in S
  PROVE  \A n \in Nat : n \in S
<1> DEFINE R == OpToRel(<, Nat)
<1>1. IsWellFoundedOn(R, Nat)
  BY NatLessThanWellFounded
<1>2. \A x, y \in Nat : <<x, y>> \in R <=> x < y
  BY DEF OpToRel
<1> HIDE DEF R
<1> SUFFICES ASSUME Nat \ S # {} PROVE FALSE
  OBVIOUS
<1>3. PICK x \in Nat \ S : \A y \in Nat \ S : ~(<<y, x>> \in R)
  BY <1>1, WFMin
<1>4. x # 0 /\ x - 1 \in Nat /\ x - 1 < x
  BY <1>3
<1>5. x - 1 \in S
  BY <1>2, <1>3, <1>4
<1>6. (x - 1) + 1 = x
  BY <1>3
<1> QED
  BY <1>3, <1>4, <1>5, <1>6

(* The rule for a loop of N turns: what holds before it and is kept by each *)
(* turn holds after every turn.                                             *)
LEMMA LoopRule ==
  ASSUME NEW N \in Nat, NEW P, 0 \in P, \A n \in 1 .. N : n - 1 \in P => n \in P
  PROVE  \A n \in 0 .. N : n \in P
<1> DEFINE S == {n \in Nat : n <= N => n \in P}
<1>1. 0 \in S
  OBVIOUS
<1>2. ASSUME NEW n \in Nat, n \in S PROVE n + 1 \in S
  <2>1. CASE n + 1 <= N
    <3>1. n \in P /\ n + 1 \in 1 .. N /\ (n + 1) - 1 = n
      BY <1>2, <2>1
    <3> QED
      BY <3>1
  <2>2. CASE ~(n + 1 <= N)
    BY <2>2
  <2> QED
    BY <2>1, <2>2
<1>3. \A n \in Nat : n \in S
  <2> HIDE DEF S
  <2> QED
    BY <1>1, <1>2, Induction
<1> QED
  BY <1>3

(* g is a run of a loop of k turns that starts with a: the value after turn *)
(* n is step[n] of the value before.                                        *)
Runs(k, g, S, a, step) ==
  g \in [0 .. k -> S] /\ g[0] = a /\ \A n \in 1 .. k : g[n] = step[n][g[n - 1]]

LEMMA RunExtended ==
  ASSUME NEW N \in Nat, NEW S, NEW a \in S, NEW step \in [1 .. N -> [S -> S]],
         NEW k \in Nat, k + 1 <= N, NEW g, Runs(k, g, S, a, step)
  PROVE  \E h : Runs(k + 1, h, S, a, step)
<1> DEFINE v == step[k + 1][g[k]]
           h == [n \in 0 .. k + 1 |-> IF n = k + 1 THEN v ELSE g[n]]
<1>1. g[k] \in S /\ k + 1 \in 1 .. N
  BY DEF Runs
<1>2. v \in S
  BY <1>1
<1>3. h \in [0 .. k + 1 -> S]
  BY <1>2 DEF Runs
<1>4. h[0] = a
  BY DEF Runs
<1>5. ASSUME NEW n \in 1 .. k + 1 PROVE h[n] = step[n][h[n - 1]]
  <2>1. CASE n = k + 1
    <3>1. h[n] = v /\ h[n - 1] = g[k] /\ n = k + 1
      BY <2>1
    <3> QED
      BY <3>1
  <2>2. CASE n # k + 1
    <3>1. n \in 1 .. k /\ h[n] = g[n] /\ h[n - 1] = g[n - 1]
      BY <2>2
    <3> QED
      BY <3>1 DEF Runs
  <2> QED
    BY <2>1, <2>2
<1> HIDE DEF h
<1> QED
  BY <1>3, <1>4, <1>5 DEF Runs

(* Every loop has a run. *)
LEMMA LoopDefined ==
  ASSUME NEW N \in Nat, NEW S, NEW a \in S, NEW step \in [1 .. N -> [S -> S]]
  PROVE  \E g : Runs(N, g, S, a, step)
<1> DEFINE D == {k \in Nat : k <= N => \E g : Runs(k, g, S, a, step)}
<1>1. 0 \in D
  <2>1. Runs(0, [n \in 0 .. 0 |-> a], S, a, step)
    BY DEF Runs
  <2> QED
    BY <2>1
<1>2. \A k \in Nat : k \in D => k + 1 \in D
  BY RunExtended
<1>3. \A k \in Nat : k \in D
  <2> HIDE DEF D
  <2> QED
    BY <1>1, <1>2, Induction
<1> QED
  BY <1>3

(* ... and a function that follows the turns as long as its values are in S  *)
(* is one.                                                                  *)
LEMMA IsRun ==
  ASSUME NEW N \in Nat, NEW S, NEW a \in S, NEW step \in [1 .. N -> [S -> S]],
         NEW f, f = [n \in 0 .. N |-> f[n]], f[0] = a,
         \A n \in 1 .. N : f[n - 1] \in S => f[n] = step[n][f[n - 1]]
  PROVE  Runs(N, f, S, a, step)
<1> DEFINE P == {n \in 0 .. N : f[n] \in S}
<1>1. 0 \in P
  OBVIOUS
<1>2. ASSUME NEW n \in 1 .. N, n - 1 \in P PROVE n \in P
  <2>1. f[n - 1] \in S /\ n \in 0 .. N
    BY <1>2
  <2>2. step[n] \in [S -> S] /\ f[n] = step[n][f[n - 1]]
    BY <2>1
  <2>3. f[n] \in S
    BY <2>1, <2>2
  <2> QED
    BY <2>1, <2>3
<1>3. \A n \in 0 .. N : n \in P
  <2> HIDE DEF P
  <2> QED
    BY <1>1, <1>2, LoopRule
<1>4. \A n \in 0 .. N : f[n] \in S
  BY <1>3
<1>5. f \in [0 .. N -> S]
  BY <1>4
<1>6. \A n \in 1 .. N : n - 1 \in 0 .. N
  OBVIOUS
<1> QED
  BY <1>4, <1>5, <1>6 DEF Runs

-----------------------------------------------------------------------------
(* The scans by date. *)

(* The variables of a scan: an id and a date. *)
Reading   == [id : {0} \cup Slots, epoch : Nat]
Nothing   == [id |-> 0, epoch |-> 0]
Unbounded == [id |-> 0, epoch |-> MaxEpoch]

LEMMA SlotFields ==
  ASSUME NEW t \in Table, NEW n \in Slots
  PROVE  t[n].id \in {0} \cup Slots /\ t[n].createdDate \in Nat
<1>1. t[n] \in Slot
  BY DEF Table
<1>2. t[n].id \in {0} \cup Slots /\ t[n].createdDate \in {0} \cup Dates
  BY <1>1 DEF Slot
<1>3. {0} \cup Dates \subseteq Nat
  BY LoggerAssumption DEF LoggerAssumption
<1> QED
  BY <1>2, <1>3

LEMMA NbSlotsNat == NbSlots \in Nat /\ Slots = 1 .. NbSlots
  BY LoggerAssumption DEF Slots, LoggerAssumption

(* One turn of each loop, r being the variables before it. *)
YoungestTurn(t, thresh, n, r) ==
  IF /\ t[n].id # 0
     /\ t[n].createdDate >= r.epoch
     /\ t[n].createdDate < thresh
  THEN [id |-> t[n].id, epoch |-> t[n].createdDate]
  ELSE r

LastTurn(t, n, r) ==
  IF t[n].id # 0 /\ t[n].createdDate >= r.epoch
  THEN [id |-> t[n].id, epoch |-> t[n].createdDate]
  ELSE r

OldestTurn(t, n, r) ==
  IF t[n].id # 0 /\ t[n].createdDate <= r.epoch
  THEN [id |-> t[n].id, epoch |-> t[n].createdDate]
  ELSE r

(* The loop of logger_get_youngest_slot_id_older_than is a run of its turns. *)
LEMMA YoungestLoop ==
  ASSUME NEW t \in Table, NEW thresh
  PROVE  \E f \in [0 .. NbSlots -> Reading] :
           /\ f[0] = Nothing
           /\ \A n \in Slots : f[n] = YoungestTurn(t, thresh, n, f[n - 1])
           /\ ScanYoungestOlderThan(t, thresh) = f[NbSlots]
<1> DEFINE step == [n \in 1 .. NbSlots |-> [r \in Reading |-> YoungestTurn(t, thresh, n, r)]]
           F == CHOOSE f : f = [n \in 0 .. NbSlots |->
                                  IF n = 0 THEN Nothing
                                  ELSE YoungestTurn(t, thresh, n, f[n - 1])]
<1>1. ScanYoungestOlderThan(t, thresh) = F[NbSlots]
  BY NbSlotsNat DEF ScanYoungestOlderThan, YoungestTurn, Nothing
<1>2. Nothing \in Reading /\ NbSlots \in Nat
  BY NbSlotsNat, LoggerAssumption DEF Reading, LoggerAssumption, Nothing
<1>3. ASSUME NEW n \in 1 .. NbSlots, NEW r \in Reading
      PROVE  YoungestTurn(t, thresh, n, r) \in Reading
  BY SlotFields, NbSlotsNat DEF YoungestTurn, Reading
<1>4. step \in [1 .. NbSlots -> [Reading -> Reading]]
  BY <1>3
<1>5. PICK g : Runs(NbSlots, g, Reading, Nothing, step)
  <2> HIDE DEF step
  <2> QED
    BY <1>2, <1>4, LoopDefined
<1>6. ASSUME NEW n \in 1 .. NbSlots
      PROVE  g[n] = YoungestTurn(t, thresh, n, g[n - 1])
  <2>1. g[n - 1] \in Reading /\ g[n] = step[n][g[n - 1]]
    <3> HIDE DEF step
    <3> QED
      BY <1>2, <1>5 DEF Runs
  <2> QED
    BY <2>1
<1>7. g = [n \in 0 .. NbSlots |-> IF n = 0 THEN Nothing
                                  ELSE YoungestTurn(t, thresh, n, g[n - 1])]
  <2>1. g \in [0 .. NbSlots -> Reading] /\ g[0] = Nothing
    BY <1>5 DEF Runs
  <2> QED
    BY <1>2, <1>6, <2>1
<1>8. F = [n \in 0 .. NbSlots |-> IF n = 0 THEN Nothing
                                  ELSE YoungestTurn(t, thresh, n, F[n - 1])]
  BY <1>7
<1> HIDE DEF F
<1>9. /\ F[0] = Nothing /\ F = [n \in 0 .. NbSlots |-> F[n]]
      /\ \A n \in 1 .. NbSlots : F[n] = YoungestTurn(t, thresh, n, F[n - 1])
  <2>1. 0 \in 0 .. NbSlots /\ \A n \in 1 .. NbSlots : n \in 0 .. NbSlots /\ n # 0
    BY <1>2
  <2> QED
    BY <1>8, <2>1
<1>10. \A n \in 1 .. NbSlots : F[n - 1] \in Reading => F[n] = step[n][F[n - 1]]
  BY <1>9
<1>11. Runs(NbSlots, F, Reading, Nothing, step)
  <2> HIDE DEF step
  <2> QED
    BY <1>2, <1>4, <1>9, <1>10, IsRun
<1>12. F \in [0 .. NbSlots -> Reading]
  BY <1>11 DEF Runs
<1> QED
  BY <1>1, <1>9, <1>12, NbSlotsNat

(* So is that of logger_get_youngest_slot_id ... *)
LEMMA LastLoop ==
  ASSUME NEW t \in Table
  PROVE  \E f \in [0 .. NbSlots -> Reading] :
           /\ f[0] = Nothing
           /\ \A n \in Slots : f[n] = LastTurn(t, n, f[n - 1])
           /\ ScanYoungest(t) = f[NbSlots].id
<1> DEFINE step == [n \in 1 .. NbSlots |-> [r \in Reading |-> LastTurn(t, n, r)]]
           F == CHOOSE f : f = [n \in 0 .. NbSlots |->
                                  IF n = 0 THEN Nothing
                                  ELSE LastTurn(t, n, f[n - 1])]
<1>1. ScanYoungest(t) = F[NbSlots].id
  BY NbSlotsNat DEF ScanYoungest, LastTurn, Nothing
<1>2. Nothing \in Reading /\ NbSlots \in Nat
  BY NbSlotsNat, LoggerAssumption DEF Reading, LoggerAssumption, Nothing
<1>3. ASSUME NEW n \in 1 .. NbSlots, NEW r \in Reading
      PROVE  LastTurn(t, n, r) \in Reading
  BY SlotFields, NbSlotsNat DEF LastTurn, Reading
<1>4. step \in [1 .. NbSlots -> [Reading -> Reading]]
  BY <1>3
<1>5. PICK g : Runs(NbSlots, g, Reading, Nothing, step)
  <2> HIDE DEF step
  <2> QED
    BY <1>2, <1>4, LoopDefined
<1>6. ASSUME NEW n \in 1 .. NbSlots
      PROVE  g[n] = LastTurn(t, n, g[n - 1])
  <2>1. g[n - 1] \in Reading /\ g[n] = step[n][g[n - 1]]
    <3> HIDE DEF step
    <3> QED
      BY <1>2, <1>5 DEF Runs
  <2> QED
    BY <2>1
<1>7. g = [n \in 0 .. NbSlots |-> IF n = 0 THEN Nothing
                                  ELSE LastTurn(t, n, g[n - 1])]
  <2>1. g \in [0 .. NbSlots -> Reading] /\ g[0] = Nothing
    BY <1>5 DEF Runs
  <2> QED
    BY <1>2, <1>6, <2>1
<1>8. F = [n \in 0 .. NbSlots |-> IF n = 0 THEN Nothing
                                  ELSE LastTurn(t, n, F[n - 1])]
  BY <1>7
<1> HIDE DEF F
<1>9. /\ F[0] = Nothing /\ F = [n \in 0 .. NbSlots |-> F[n]]
      /\ \A n \in 1 .. NbSlots : F[n] = LastTurn(t, n, F[n - 1])
  <2>1. 0 \in 0 .. NbSlots /\ \A n \in 1 .. NbSlots : n \in 0 .. NbSlots /\ n # 0
    BY <1>2
  <2> QED
    BY <1>8, <2>1
<1>10. \A n \in 1 .. NbSlots : F[n - 1] \in Reading => F[n] = step[n][F[n - 1]]
  BY <1>9
<1>11. Runs(NbSlots, F, Reading, Nothing, step)
  <2> HIDE DEF step
  <2> QED
    BY <1>2, <1>4, <1>9, <1>10, IsRun
<1>12. F \in [0 .. NbSlots -> Reading]
  BY <1>11 DEF Runs
<1> QED
  BY <1>1, <1>9, <1>12, NbSlotsNat

(* ... and that of logger_get_oldest_slot_id. *)
LEMMA OldestLoop ==
  ASSUME NEW t \in Table
  PROVE  \E f \in [0 .. NbSlots -> Reading] :
           /\ f[0] = Unbounded
           /\ \A n \in Slots : f[n] = OldestTurn(t, n, f[n - 1])
           /\ ScanOldest(t) = f[NbSlots].id
<1> DEFINE step == [n \in 1 .. NbSlots |-> [r \in Reading |-> OldestTurn(t, n, r)]]
           F == CHOOSE f : f = [n \in 0 .. NbSlots |->
                                  IF n = 0 THEN Unbounded
                                  ELSE OldestTurn(t, n, f[n - 1])]
<1>1. ScanOldest(t) = F[NbSlots].id
  BY NbSlotsNat DEF ScanOldest, OldestTurn, Unbounded
<1>2. Unbounded \in Reading /\ NbSlots \in Nat
  BY NbSlotsNat, LoggerAssumption DEF Reading, LoggerAssumption, Unbounded
<1>3. ASSUME NEW n \in 1 .. NbSlots, NEW r \in Reading
      PROVE  OldestTurn(t, n, r) \in Reading
  BY SlotFields, NbSlotsNat DEF OldestTurn, Reading
<1>4. step \in [1 .. NbSlots -> [Reading -> Reading]]
  BY <1>3
<1>5. PICK g : Runs(NbSlots, g, Reading, Unbounded, step)
  <2> HIDE DEF step
  <2> QED
    BY <1>2, <1>4, LoopDefined
<1>6. ASSUME NEW n \in 1 .. NbSlots
      PROVE  g[n] = OldestTurn(t, n, g[n - 1])
  <2>1. g[n - 1] \in Reading /\ g[n] = step[n][g[n - 1]]
    <3> HIDE DEF step
    <3> QED
      BY <1>2, <1>5 DEF Runs
  <2> QED
    BY <2>1
<1>7. g = [n \in 0 .. NbSlots |-> IF n = 0 THEN Unbounded
                                  ELSE OldestTurn(t, n, g[n - 1])]
  <2>1. g \in [0 .. NbSlots -> Reading] /\ g[0] = Unbounded
    BY <1>5 DEF Runs
  <2> QED
    BY <1>2, <1>6, <2>1
<1>8. F = [n \in 0 .. NbSlots |-> IF n = 0 THEN Unbounded
                                  ELSE OldestTurn(t, n, F[n - 1])]
  BY <1>7
<1> HIDE DEF F
<1>9. /\ F[0] = Unbounded /\ F = [n \in 0 .. NbSlots |-> F[n]]
      /\ \A n \in 1 .. NbSlots : F[n] = OldestTurn(t, n, F[n - 1])
  <2>1. 0 \in 0 .. NbSlots /\ \A n \in 1 .. NbSlots : n \in 0 .. NbSlots /\ n # 0
    BY <1>2
  <2> QED
    BY <1>8, <2>1
<1>10. \A n \in 1 .. NbSlots : F[n - 1] \in Reading => F[n] = step[n][F[n - 1]]
  BY <1>9
<1>11. Runs(NbSlots, F, Reading, Unbounded, step)
  <2> HIDE DEF step
  <2> QED
    BY <1>2, <1>4, <1>9, <1>10, IsRun
<1>12. F \in [0 .. NbSlots -> Reading]
  BY <1>11 DEF Runs
<1> QED
  BY <1>1, <1>9, <1>12, NbSlotsNat

(* What the loop of logger_get_youngest_slot_id_older_than has found after  *)
(* n slots: nothing, or the youngest of the eligible ones among them, and   *)
(* of those with one date the last.                                         *)
Eligible(t, thresh, n) == {i \in 1 .. n : t[i].id # 0 /\ t[i].createdDate < thresh}

YoungestSoFar(t, thresh, n, r) ==
  \/ Eligible(t, thresh, n) = {} /\ r = Nothing
  \/ \E i \in Eligible(t, thresh, n) :
       /\ r = [id |-> i, epoch |-> t[i].createdDate]
       /\ \A j \in Eligible(t, thresh, n) :
            \/ t[j].createdDate < t[i].createdDate
            \/ t[j].createdDate = t[i].createdDate /\ j <= i

LEMMA YoungestTurnLemma ==
  ASSUME NEW t \in Table, \A i \in Slots : t[i].id \in {0, i}, NEW thresh \in Nat,
         NEW n \in Slots, NEW r, YoungestSoFar(t, thresh, n - 1, r)
  PROVE  YoungestSoFar(t, thresh, n, YoungestTurn(t, thresh, n, r))
<1> DEFINE E == Eligible(t, thresh, n - 1)
           G == Eligible(t, thresh, n)
           D(i) == t[i].createdDate
<1>1. /\ n \in 1 .. NbSlots /\ NbSlots \in Nat
      /\ \A i \in 1 .. n : i \in Slots /\ D(i) \in Nat
      /\ \A i \in 1 .. n - 1 : i \in 1 .. n /\ i < n
      /\ t[n].id \in {0, n} /\ n # 0
  BY NbSlotsNat, SlotFields
<1>2. G = IF t[n].id # 0 /\ D(n) < thresh THEN E \cup {n} ELSE E
  BY <1>1 DEF Eligible
<1>3. E \subseteq 1 .. n - 1
  BY DEF Eligible
<1> DEFINE Best(S, i) == \A j \in S : D(j) < D(i) \/ (D(j) = D(i) /\ j <= i)
<1>4. \/ E = {} /\ r = Nothing
      \/ \E i \in E : r = [id |-> i, epoch |-> D(i)] /\ Best(E, i)
  BY DEF YoungestSoFar
<1>5. \/ G = {} /\ YoungestTurn(t, thresh, n, r) = Nothing
      \/ \E i \in G : YoungestTurn(t, thresh, n, r) = [id |-> i, epoch |-> D(i)] /\ Best(G, i)
  <2>1. CASE ~(t[n].id # 0 /\ D(n) < thresh)
    <3>1. G = E /\ YoungestTurn(t, thresh, n, r) = r
      BY <1>2, <2>1 DEF YoungestTurn
    <3> QED
      BY <1>4, <3>1
  <2>2. CASE t[n].id # 0 /\ D(n) < thresh /\ D(n) >= r.epoch
    <3>1. n \in G /\ YoungestTurn(t, thresh, n, r) = [id |-> n, epoch |-> D(n)]
      BY <1>1, <1>2, <2>2 DEF YoungestTurn
    <3>2. Best(G, n)
      <4>1. CASE E = {}
        BY <1>1, <1>2, <2>2, <4>1
      <4>2. CASE \E i \in E : r = [id |-> i, epoch |-> D(i)] /\ Best(E, i)
        <5>1. PICK i \in E : r.epoch = D(i) /\ Best(E, i)
          BY <4>2
        <5>2. \A j \in E : D(j) \in Nat /\ D(j) <= D(i) /\ j <= n
          <6>1. \A j \in E : D(j) \in Nat /\ j <= n
            BY <1>1, <1>3
          <6>2. D(i) \in Nat
            BY <1>1, <1>3, <5>1
          <6> QED
            BY <5>1, <6>1, <6>2
        <5>3. D(i) <= D(n) /\ D(i) \in Nat /\ D(n) \in Nat
          BY <1>1, <1>3, <2>2, <5>1
        <5> HIDE DEF E
        <5>4. \A j \in E : D(j) < D(n) \/ (D(j) = D(n) /\ j <= n)
          BY <5>2, <5>3
        <5> QED
          BY <1>1, <1>2, <2>2, <5>4
      <4> QED
        BY <1>4, <4>1, <4>2
    <3> QED
      BY <3>1, <3>2
  <2>3. CASE t[n].id # 0 /\ D(n) < thresh /\ ~(D(n) >= r.epoch)
    <3>1. E # {}
      BY <1>1, <1>4, <2>3 DEF Nothing
    <3>2. PICK i \in E : r = [id |-> i, epoch |-> D(i)] /\ Best(E, i)
      BY <1>4, <3>1
    <3>3. YoungestTurn(t, thresh, n, r) = r /\ i \in G
      BY <1>2, <2>3 DEF YoungestTurn
    <3>4. D(n) < D(i)
      BY <1>1, <1>3, <2>3, <3>2
    <3>5. Best(G, i)
      BY <1>2, <2>3, <3>2, <3>4
    <3> QED
      BY <3>2, <3>3, <3>5
  <2> QED
    BY <2>1, <2>2, <2>3
<1> QED
  BY <1>5 DEF YoungestSoFar

(* The lookup returns what is promised of it. *)
LEMMA YoungestScan ==
  ASSUME NEW t \in Table, \A i \in Slots : t[i].id \in {0, i}, NEW thresh \in Nat
  PROVE  LET r == ScanYoungestOlderThan(t, thresh) IN
         IF OlderThan(t, thresh) = {}
         THEN r = Nothing
         ELSE \E i \in Slots : /\ IsYoungestOlderThan(t, thresh, i)
                               /\ r = [id |-> i, epoch |-> t[i].createdDate]
<1>1. PICK f \in [0 .. NbSlots -> Reading] :
           /\ f[0] = Nothing
           /\ \A n \in Slots : f[n] = YoungestTurn(t, thresh, n, f[n - 1])
           /\ ScanYoungestOlderThan(t, thresh) = f[NbSlots]
  BY YoungestLoop
<1> DEFINE P == {n \in 0 .. NbSlots : YoungestSoFar(t, thresh, n, f[n])}
<1>2. 0 \in P
  BY <1>1, NbSlotsNat DEF YoungestSoFar, Eligible
<1>3. ASSUME NEW n \in 1 .. NbSlots, n - 1 \in P PROVE n \in P
  BY <1>1, <1>3, NbSlotsNat, YoungestTurnLemma
<1>4. \A n \in 0 .. NbSlots : n \in P
  <2> HIDE DEF P
  <2> QED
    BY <1>2, <1>3, NbSlotsNat, LoopRule
<1>5. YoungestSoFar(t, thresh, NbSlots, f[NbSlots])
  BY <1>4, NbSlotsNat
<1>6. Eligible(t, thresh, NbSlots) = OlderThan(t, thresh)
  BY NbSlotsNat DEF Eligible, OlderThan, Occupied
<1>7. OlderThan(t, thresh) \subseteq Slots
  BY DEF OlderThan, Occupied
<1> QED
  BY <1>1, <1>5, <1>6, <1>7 DEF YoungestSoFar, IsYoungestOlderThan

LEMMA DatesBounded ==
  ASSUME NEW t \in Table, NEW n \in Slots
  PROVE  t[n].createdDate <= MaxEpoch
<1>1. t[n] \in Slot
  BY DEF Table
<1>2. t[n].createdDate \in {0} \cup Dates
  BY <1>1 DEF Slot
<1>3. \A d \in Dates \cup {0} : d <= MaxEpoch
  BY LoggerAssumption DEF LoggerAssumption
<1> QED
  BY <1>2, <1>3

Taken(t, n) == {i \in 1 .. n : t[i].id # 0}

(* The scan for the youngest slot, after n slots. *)
LastSoFar(t, n, r) ==
  \/ Taken(t, n) = {} /\ r = Nothing
  \/ \E i \in Taken(t, n) :
       /\ r = [id |-> i, epoch |-> t[i].createdDate]
       /\ \A j \in Taken(t, n) : t[j].createdDate <= t[i].createdDate

LEMMA LastTurnLemma ==
  ASSUME NEW t \in Table, \A i \in Slots : t[i].id \in {0, i},
         NEW n \in Slots, NEW r, LastSoFar(t, n - 1, r)
  PROVE  LastSoFar(t, n, LastTurn(t, n, r))
<1> DEFINE E == Taken(t, n - 1)
           G == Taken(t, n)
           D(i) == t[i].createdDate
           Best(S, i) == \A j \in S : D(j) <= D(i)
<1>1. /\ n \in 1 .. NbSlots /\ NbSlots \in Nat
      /\ \A i \in 1 .. n : i \in Slots /\ D(i) \in Nat /\ D(i) <= MaxEpoch
      /\ t[n].id \in {0, n} /\ n # 0
  BY NbSlotsNat, SlotFields, DatesBounded
<1>2. G = IF t[n].id # 0 THEN E \cup {n} ELSE E
  BY <1>1 DEF Taken
<1>3. D(n) \in Nat /\ D(n) <= MaxEpoch /\ \A i \in E : D(i) \in Nat
  BY <1>1 DEF Taken
<1>4. \/ E = {} /\ r = Nothing
      \/ \E i \in E : r = [id |-> i, epoch |-> D(i)] /\ Best(E, i)
  BY DEF LastSoFar
<1>5. \/ G = {} /\ LastTurn(t, n, r) = Nothing
      \/ \E i \in G : LastTurn(t, n, r) = [id |-> i, epoch |-> D(i)] /\ Best(G, i)
  <2>1. CASE t[n].id = 0
    <3>1. G = E /\ LastTurn(t, n, r) = r
      BY <1>2, <2>1 DEF LastTurn
    <3> QED
      BY <1>4, <3>1
  <2>2. CASE t[n].id # 0 /\ D(n) >= r.epoch
    <3>1. G = E \cup {n} /\ LastTurn(t, n, r) = [id |-> n, epoch |-> D(n)]
      BY <1>1, <1>2, <2>2 DEF LastTurn
    <3>2. Best(E, n)
      <4> HIDE DEF E
      <4>1. CASE \E i \in E : r = [id |-> i, epoch |-> D(i)] /\ Best(E, i)
        <5>1. PICK i \in E : r.epoch = D(i) /\ Best(E, i)
          BY <4>1
        <5> QED
          BY <1>3, <2>2, <5>1
      <4> QED
        BY <1>4, <4>1
    <3> QED
      BY <1>3, <3>1, <3>2
  <2>3. CASE t[n].id # 0 /\ ~(D(n) >= r.epoch)
    <3>1. E # {}
      BY <1>3, <1>4, <2>3, LoggerAssumption DEF Nothing, LoggerAssumption
    <3>2. PICK i \in E : r = [id |-> i, epoch |-> D(i)] /\ Best(E, i)
      BY <1>4, <3>1
    <3>3. G = E \cup {n} /\ LastTurn(t, n, r) = r
      BY <1>2, <2>3 DEF LastTurn
    <3>4. D(n) <= D(i)
      BY <1>3, <2>3, <3>2
    <3> QED
      BY <3>2, <3>3, <3>4
  <2> QED
    BY <2>1, <2>2, <2>3
<1> QED
  BY <1>5 DEF LastSoFar

(* logger_get_youngest_slot_id returns a slot that none is younger than. *)
LEMMA LastScan ==
  ASSUME NEW t \in Table, \A i \in Slots : t[i].id \in {0, i}
  PROVE  IF Occupied(t) = {} THEN ScanYoungest(t) = 0
         ELSE /\ ScanYoungest(t) \in Occupied(t)
              /\ \A j \in Occupied(t) : t[j].createdDate <= t[ScanYoungest(t)].createdDate
<1>1. PICK f \in [0 .. NbSlots -> Reading] :
           /\ f[0] = Nothing
           /\ \A n \in Slots : f[n] = LastTurn(t, n, f[n - 1])
           /\ ScanYoungest(t) = f[NbSlots].id
  BY LastLoop
<1> DEFINE P == {n \in 0 .. NbSlots : LastSoFar(t, n, f[n])}
<1>2. 0 \in P
  BY <1>1, NbSlotsNat DEF LastSoFar, Taken
<1>3. ASSUME NEW n \in 1 .. NbSlots, n - 1 \in P PROVE n \in P
  BY <1>1, <1>3, NbSlotsNat, LastTurnLemma
<1>4. \A n \in 0 .. NbSlots : n \in P
  <2> HIDE DEF P
  <2> QED
    BY <1>2, <1>3, NbSlotsNat, LoopRule
<1>5. LastSoFar(t, NbSlots, f[NbSlots])
  BY <1>4, NbSlotsNat
<1>6. Taken(t, NbSlots) = Occupied(t)
  BY NbSlotsNat DEF Taken, Occupied
<1>7. CASE Occupied(t) = {}
  BY <1>1, <1>5, <1>6, <1>7 DEF LastSoFar, Nothing
<1>8. CASE Occupied(t) # {}
  <2>1. PICK i \in Occupied(t) : /\ f[NbSlots] = [id |-> i, epoch |-> t[i].createdDate]
                                 /\ \A j \in Occupied(t) : t[j].createdDate <= t[i].createdDate
    BY <1>5, <1>6, <1>8 DEF LastSoFar
  <2>2. ScanYoungest(t) = i
    BY <1>1, <2>1
  <2> QED
    BY <1>8, <2>1, <2>2
<1> QED
  BY <1>7, <1>8

(* The scan for the oldest slot, after n slots: no date is above the bound  *)
(* it starts from.                                                          *)
OldestSoFar(t, n, r) ==
  \/ Taken(t, n) = {} /\ r = Unbounded
  \/ \E i \in Taken(t, n) :
       /\ r = [id |-> i, epoch |-> t[i].createdDate]
       /\ \A j \in Taken(t, n) : t[i].createdDate <= t[j].createdDate

LEMMA OldestTurnLemma ==
  ASSUME NEW t \in Table, \A i \in Slots : t[i].id \in {0, i},
         NEW n \in Slots, NEW r, OldestSoFar(t, n - 1, r)
  PROVE  OldestSoFar(t, n, OldestTurn(t, n, r))
<1> DEFINE E == Taken(t, n - 1)
           G == Taken(t, n)
           D(i) == t[i].createdDate
           Best(S, i) == \A j \in S : D(i) <= D(j)
<1>1. /\ n \in 1 .. NbSlots /\ NbSlots \in Nat
      /\ \A i \in 1 .. n : i \in Slots /\ D(i) \in Nat /\ D(i) <= MaxEpoch
      /\ t[n].id \in {0, n} /\ n # 0
  BY NbSlotsNat, SlotFields, DatesBounded
<1>2. G = IF t[n].id # 0 THEN E \cup {n} ELSE E
  BY <1>1 DEF Taken
<1>3. D(n) \in Nat /\ D(n) <= MaxEpoch /\ \A i \in E : D(i) \in Nat
  BY <1>1 DEF Taken
<1>4. \/ E = {} /\ r = Unbounded
      \/ \E i \in E : r = [id |-> i, epoch |-> D(i)] /\ Best(E, i)
  BY DEF OldestSoFar
<1>5. \/ G = {} /\ OldestTurn(t, n, r) = Unbounded
      \/ \E i \in G : OldestTurn(t, n, r) = [id |-> i, epoch |-> D(i)] /\ Best(G, i)
  <2>1. CASE t[n].id = 0
    <3>1. G = E /\ OldestTurn(t, n, r) = r
      BY <1>2, <2>1 DEF OldestTurn
    <3> QED
      BY <1>4, <3>1
  <2>2. CASE t[n].id # 0 /\ D(n) <= r.epoch
    <3>1. G = E \cup {n} /\ OldestTurn(t, n, r) = [id |-> n, epoch |-> D(n)]
      BY <1>1, <1>2, <2>2 DEF OldestTurn
    <3>2. Best(E, n)
      <4> HIDE DEF E
      <4>1. CASE \E i \in E : r = [id |-> i, epoch |-> D(i)] /\ Best(E, i)
        <5>1. PICK i \in E : r.epoch = D(i) /\ Best(E, i)
          BY <4>1
        <5> QED
          BY <1>3, <2>2, <5>1
      <4> QED
        BY <1>4, <4>1
    <3> QED
      BY <1>3, <3>1, <3>2
  <2>3. CASE t[n].id # 0 /\ ~(D(n) <= r.epoch)
    <3>1. E # {}
      BY <1>3, <1>4, <2>3, LoggerAssumption DEF Unbounded, LoggerAssumption
    <3>2. PICK i \in E : r = [id |-> i, epoch |-> D(i)] /\ Best(E, i)
      BY <1>4, <3>1
    <3>3. G = E \cup {n} /\ OldestTurn(t, n, r) = r
      BY <1>2, <2>3 DEF OldestTurn
    <3>4. D(i) <= D(n)
      BY <1>3, <2>3, <3>2
    <3> QED
      BY <3>2, <3>3, <3>4
  <2> QED
    BY <2>1, <2>2, <2>3
<1> QED
  BY <1>5 DEF OldestSoFar

(* logger_get_oldest_slot_id returns a slot that none is older than. *)
LEMMA OldestScan ==
  ASSUME NEW t \in Table, \A i \in Slots : t[i].id \in {0, i}
  PROVE  IF Occupied(t) = {} THEN ScanOldest(t) = 0
         ELSE /\ ScanOldest(t) \in Occupied(t)
              /\ \A j \in Occupied(t) : t[ScanOldest(t)].createdDate <= t[j].createdDate
<1>1. PICK f \in [0 .. NbSlots -> Reading] :
           /\ f[0] = Unbounded
           /\ \A n \in Slots : f[n] = OldestTurn(t, n, f[n - 1])
           /\ ScanOldest(t) = f[NbSlots].id
  BY OldestLoop
<1> DEFINE P == {n \in 0 .. NbSlots : OldestSoFar(t, n, f[n])}
<1>2. 0 \in P
  BY <1>1, NbSlotsNat DEF OldestSoFar, Taken
<1>3. ASSUME NEW n \in 1 .. NbSlots, n - 1 \in P PROVE n \in P
  BY <1>1, <1>3, NbSlotsNat, OldestTurnLemma
<1>4. \A n \in 0 .. NbSlots : n \in P
  <2> HIDE DEF P
  <2> QED
    BY <1>2, <1>3, NbSlotsNat, LoopRule
<1>5. OldestSoFar(t, NbSlots, f[NbSlots])
  BY <1>4, NbSlotsNat
<1>6. Taken(t, NbSlots) = Occupied(t)
  BY NbSlotsNat DEF Taken, Occupied
<1>7. CASE Occupied(t) = {}
  BY <1>1, <1>5, <1>6, <1>7 DEF OldestSoFar, Unbounded
<1>8. CASE Occupied(t) # {}
  <2>1. PICK i \in Occupied(t) : /\ f[NbSlots] = [id |-> i, epoch |-> t[i].createdDate]
                                 /\ \A j \in Occupied(t) : t[i].createdDate <= t[j].createdDate
    BY <1>5, <1>6, <1>8 DEF OldestSoFar
  <2>2. ScanOldest(t) = i
    BY <1>1, <2>1
  <2> QED
    BY <1>8, <2>1, <2>2
<1> QED
  BY <1>7, <1>8

(* ScansCorrect: the three lookups by date return the slot that is promised *)
(* of them, for a table of any size and whatever calls built it.            *)
THEOREM LoggerScansCorrect == Spec => []ScansCorrect
<1>1. TypeOK => ScansCorrect
  <2> SUFFICES ASSUME TypeOK PROVE ScansCorrect
    OBVIOUS
  <2>1. logger_struct \in Table /\ \A i \in Slots : logger_struct[i].id \in {0, i}
    BY DEF TypeOK, Table
  <2>2. \A thresh \in Dates \cup {0, MaxEpoch} : thresh \in Nat
    BY LoggerAssumption DEF LoggerAssumption
  <2>3. ASSUME NEW thresh \in Dates \cup {0, MaxEpoch}
        PROVE  LET r == ScanYoungestOlderThan(logger_struct, thresh) IN
               IF OlderThan(logger_struct, thresh) = {}
               THEN r = [id |-> 0, epoch |-> 0]
               ELSE \E i \in Slots :
                      /\ IsYoungestOlderThan(logger_struct, thresh, i)
                      /\ r = [id |-> i, epoch |-> logger_struct[i].createdDate]
    BY <2>1, <2>2, YoungestScan DEF Nothing
  <2> QED
    BY <2>1, <2>3, LastScan, OldestScan DEF ScansCorrect
<1> QED
  BY <1>1, LoggerTypeCorrect, PTL

-----------------------------------------------------------------------------
(* Clearing by tag. *)
ClearTurn(tag, n, u) ==
  IF u[n].tag = tag THEN ClearSlot(u, u[n].id) ELSE u

(* The loop of logger_clear_all_slots_matching_tag is a run of its turns. *)
LEMMA ClearLoop ==
  ASSUME NEW t \in Table, NEW tag
  PROVE  \E f \in [0 .. NbSlots -> Table] :
           /\ f[0] = t
           /\ \A n \in Slots : f[n] = ClearTurn(tag, n, f[n - 1])
           /\ LoopClearMatchingTag(t, tag) = f[NbSlots]
<1> DEFINE step == [n \in 1 .. NbSlots |-> [u \in Table |-> ClearTurn(tag, n, u)]]
           F == CHOOSE f : f = [n \in 0 .. NbSlots |->
                                  IF n = 0 THEN t
                                  ELSE ClearTurn(tag, n, f[n - 1])]
<1>1. LoopClearMatchingTag(t, tag) = F[NbSlots]
  BY NbSlotsNat DEF LoopClearMatchingTag, ClearTurn
<1>2. t \in Table /\ NbSlots \in Nat
  BY NbSlotsNat
<1>3. ASSUME NEW n \in 1 .. NbSlots, NEW u \in Table
      PROVE  ClearTurn(tag, n, u) \in Table
  BY ClearSlotLemma, NbSlotsNat DEF ClearTurn
<1>4. step \in [1 .. NbSlots -> [Table -> Table]]
  BY <1>3
<1>5. PICK g : Runs(NbSlots, g, Table, t, step)
  <2> HIDE DEF step
  <2> QED
    BY <1>2, <1>4, LoopDefined
<1>6. ASSUME NEW n \in 1 .. NbSlots
      PROVE  g[n] = ClearTurn(tag, n, g[n - 1])
  <2>1. g[n - 1] \in Table /\ g[n] = step[n][g[n - 1]]
    <3> HIDE DEF step
    <3> QED
      BY <1>2, <1>5 DEF Runs
  <2> QED
    BY <2>1
<1>7. g = [n \in 0 .. NbSlots |-> IF n = 0 THEN t
                                  ELSE ClearTurn(tag, n, g[n - 1])]
  <2>1. g \in [0 .. NbSlots -> Table] /\ g[0] = t
    BY <1>5 DEF Runs
  <2> QED
    BY <1>2, <1>6, <2>1
<1>8. F = [n \in 0 .. NbSlots |-> IF n = 0 THEN t
                                  ELSE ClearTurn(tag, n, F[n - 1])]
  BY <1>7
<1> HIDE DEF F
<1>9. /\ F[0] = t /\ F = [n \in 0 .. NbSlots |-> F[n]]
      /\ \A n \in 1 .. NbSlots : F[n] = ClearTurn(tag, n, F[n - 1])
  <2>1. 0 \in 0 .. NbSlots /\ \A n \in 1 .. NbSlots : n \in 0 .. NbSlots /\ n # 0
    BY <1>2
  <2> QED
    BY <1>8, <2>1
<1>10. \A n \in 1 .. NbSlots : F[n - 1] \in Table => F[n] = step[n][F[n - 1]]
  BY <1>9
<1>11. Runs(NbSlots, F, Table, t, step)
  <2> HIDE DEF step
  <2> QED
    BY <1>2, <1>4, <1>9, <1>10, IsRun
<1>12. F \in [0 .. NbSlots -> Table]
  BY <1>11 DEF Runs
<1> QED
  BY <1>1, <1>9, <1>12, NbSlotsNat

(* The table when the loop has passed n slots. *)
ClearedUpTo(t, tag, n) ==
  [i \in Slots |-> IF i <= n /\ t[i].tag = tag THEN Cleared(t[i]) ELSE t[i]]

(* The lookup by id of each turn lands on the slot the loop is at: with the *)
(* ids in place no other slot has this id, cleared or not.                  *)
LEMMA ClearTurnLemma ==
  ASSUME NEW t \in Table,
         \A i \in Slots : t[i].id \in {0, i} /\ (t[i].id = 0 <=> t[i].tag = NoTag),
         NEW tag \in Tags, NEW n \in Slots
  PROVE  ClearTurn(tag, n, ClearedUpTo(t, tag, n - 1)) = ClearedUpTo(t, tag, n)
<1> DEFINE u == ClearedUpTo(t, tag, n - 1)
           v == ClearedUpTo(t, tag, n)
<1>1. /\ n \in Nat \ {0} /\ ~(n <= n - 1)
      /\ \A i \in Slots : i \in Nat \ {0} /\ (i <= n - 1 <=> i <= n /\ i # n)
  BY NbSlotsNat
<1>2. \A i \in Slots : Cleared(t[i]).id = 0
  BY ClearedLemma DEF Table
<1>3. /\ u = [i \in Slots |-> u[i]] /\ v = [i \in Slots |-> v[i]] /\ u[n] = t[n]
      /\ \A i \in Slots : /\ u[i] = IF i <= n - 1 /\ t[i].tag = tag THEN Cleared(t[i]) ELSE t[i]
                          /\ v[i] = IF i <= n /\ t[i].tag = tag THEN Cleared(t[i]) ELSE t[i]
  BY <1>1 DEF ClearedUpTo
<1>4. \A i \in Slots : i # n => v[i] = u[i]
  BY <1>1, <1>3
<1> HIDE DEF u, v
<1>5. CASE t[n].tag # tag
  <2>1. v[n] = u[n]
    BY <1>1, <1>3, <1>5
  <2>2. \A i \in Slots : v[i] = u[i]
    BY <1>4, <2>1
  <2>3. u = v
    BY <1>3, <2>2
  <2>4. ClearTurn(tag, n, u) = u
    BY <1>3, <1>5 DEF ClearTurn
  <2> QED
    BY <2>3, <2>4 DEF u, v
<1>6. CASE t[n].tag = tag
  <2>1. t[n].id = n /\ u[n].id = n /\ n # 0
    BY <1>1, <1>3, <1>6 DEF Tags, NoTag
  <2>2. \A i \in Slots : u[i].id \in {0, i}
    BY <1>2, <1>3
  <2>3. {j \in Slots : u[j].id = n} = {n}
    BY <2>1, <2>2
  <2>4. \A i \in Slots : Finds(u, n, i) <=> i = n
    BY <1>1, <2>3 DEF Finds, IsFirst
  <2>5. v[n] = Cleared(u[n])
    BY <1>1, <1>3, <1>6
  <2>6. ClearSlot(u, n) = [i \in Slots |-> IF i = n THEN Cleared(u[i]) ELSE u[i]]
    BY <2>4 DEF ClearSlot
  <2>7. \A i \in Slots : v[i] = IF i = n THEN Cleared(u[i]) ELSE u[i]
    BY <1>4, <2>5
  <2>8. v = ClearSlot(u, n)
    BY <1>3, <2>6, <2>7
  <2>9. ClearTurn(tag, n, u) = ClearSlot(u, n)
    BY <1>3, <1>6, <2>1 DEF ClearTurn
  <2> QED
    BY <2>8, <2>9 DEF u, v
<1> QED
  BY <1>5, <1>6

(* ClearMatchingExact: clearing by tag, slot by slot through the lookup by  *)
(* id, clears the slots that carry the tag and no other one.                *)
THEOREM LoggerClearIsExact == Spec => []ClearMatchingExact
<1>1. TypeOK => ClearMatchingExact
  <2> SUFFICES ASSUME TypeOK, NEW tag \in Tags
               PROVE  LoopClearMatchingTag(logger_struct, tag) = ClearMatchingTag(logger_struct, tag)
    BY DEF ClearMatchingExact
  <2> DEFINE t == logger_struct
  <2>1. /\ t \in Table
        /\ \A i \in Slots : t[i].id \in {0, i} /\ (t[i].id = 0 <=> t[i].tag = NoTag)
    BY DEF TypeOK, Table
  <2> HIDE DEF t
  <2>2. PICK f \in [0 .. NbSlots -> Table] :
           /\ f[0] = t
           /\ \A n \in Slots : f[n] = ClearTurn(tag, n, f[n - 1])
           /\ LoopClearMatchingTag(t, tag) = f[NbSlots]
    BY <2>1, ClearLoop
  <2> DEFINE P == {n \in 0 .. NbSlots : f[n] = ClearedUpTo(t, tag, n)}
  <2>3. 0 \in P
    <3>1. t = [i \in Slots |-> t[i]] /\ \A i \in Slots : ~(i <= 0)
      BY <2>1, NbSlotsNat DEF Table
    <3>2. ClearedUpTo(t, tag, 0) = t
      BY <3>1 DEF ClearedUpTo
    <3> QED
      BY <2>2, <3>2, NbSlotsNat
  <2>4. ASSUME NEW n \in 1 .. NbSlots, n - 1 \in P PROVE n \in P
    <3>1. f[n] = ClearTurn(tag, n, ClearedUpTo(t, tag, n - 1))
      BY <2>2, <2>4, NbSlotsNat
    <3>2. f[n] = ClearedUpTo(t, tag, n)
      BY <2>1, <3>1, ClearTurnLemma, NbSlotsNat
    <3> QED
      BY <3>2, NbSlotsNat
  <2>5. \A n \in 0 .. NbSlots : n \in P
    <3> HIDE DEF P
    <3> QED
      BY <2>3, <2>4, NbSlotsNat, LoopRule
  <2>6. f[NbSlots] = ClearedUpTo(t, tag, NbSlots)
    BY <2>5, NbSlotsNat
  <2>7. ClearedUpTo(t, tag, NbSlots) = ClearMatchingTag(t, tag)
    BY NbSlotsNat DEF ClearedUpTo, ClearMatchingTag
  <2> QED
    BY <2>2, <2>6, <2>7 DEF t
<1> QED
  BY <1>1, LoggerTypeCorrect, PTL

-----------------------------------------------------------------------------
(* The walk. *)
LEMMA LookupReading ==
  ASSUME NEW t \in Table, NEW thresh
  PROVE  ScanYoungestOlderThan(t, thresh) \in Reading
<1>1. PICK f \in [0 .. NbSlots -> Reading] : ScanYoungestOlderThan(t, thresh) = f[NbSlots]
  BY YoungestLoop
<1> QED
  BY <1>1, NbSlotsNat

(* The walk is a loop too: each turn looks below the date of the last.       *)
LEMMA WalkLoop ==
  ASSUME NEW t \in Table
  PROVE  \E f \in [0 .. NbSlots -> Reading] :
           /\ f[0] = Unbounded
           /\ \A n \in Slots : f[n] = ScanYoungestOlderThan(t, f[n - 1].epoch)
           /\ Walk(t) = [n \in Slots |-> f[n]]
<1> DEFINE step == [n \in 1 .. NbSlots |-> [r \in Reading |-> ScanYoungestOlderThan(t, r.epoch)]]
           F == CHOOSE f : f = [n \in 0 .. NbSlots |->
                                  IF n = 0 THEN Unbounded
                                  ELSE ScanYoungestOlderThan(t, f[n - 1].epoch)]
<1>1. Walk(t) = [n \in Slots |-> F[n]]
  BY NbSlotsNat DEF Walk, Unbounded
<1>2. Unbounded \in Reading /\ NbSlots \in Nat
  BY NbSlotsNat, LoggerAssumption DEF Reading, LoggerAssumption, Unbounded
<1>3. ASSUME NEW n \in 1 .. NbSlots, NEW r \in Reading
      PROVE  ScanYoungestOlderThan(t, r.epoch) \in Reading
  BY LookupReading, <1>3 DEF Reading
<1>4. step \in [1 .. NbSlots -> [Reading -> Reading]]
  BY <1>3
<1>5. PICK g : Runs(NbSlots, g, Reading, Unbounded, step)
  <2> HIDE DEF step
  <2> QED
    BY <1>2, <1>4, LoopDefined
<1>6. ASSUME NEW n \in 1 .. NbSlots
      PROVE  g[n] = ScanYoungestOlderThan(t, g[n - 1].epoch)
  <2>1. g[n - 1] \in Reading /\ g[n] = step[n][g[n - 1]]
    <3> HIDE DEF step
    <3> QED
      BY <1>2, <1>5 DEF Runs
  <2> QED
    BY <2>1
<1>7. g = [n \in 0 .. NbSlots |-> IF n = 0 THEN Unbounded
                                  ELSE ScanYoungestOlderThan(t, g[n - 1].epoch)]
  <2>1. g \in [0 .. NbSlots -> Reading] /\ g[0] = Unbounded
    BY <1>5 DEF Runs
  <2> QED
    BY <1>2, <1>6, <2>1
<1>8. F = [n \in 0 .. NbSlots |-> IF n = 0 THEN Unbounded
                                  ELSE ScanYoungestOlderThan(t, F[n - 1].epoch)]
  BY <1>7
<1> HIDE DEF F
<1>9. /\ F[0] = Unbounded /\ F = [n \in 0 .. NbSlots |-> F[n]]
      /\ \A n \in 1 .. NbSlots : F[n] = ScanYoungestOlderThan(t, F[n - 1].epoch)
  <2>1. 0 \in 0 .. NbSlots /\ \A n \in 1 .. NbSlots : n \in 0 .. NbSlots /\ n # 0
    BY <1>2
  <2> QED
    BY <1>8, <2>1
<1>10. \A n \in 1 .. NbSlots : F[n - 1] \in Reading => F[n] = step[n][F[n - 1]]
  BY <1>9
<1>11. Runs(NbSlots, F, Reading, Unbounded, step)
  <2> HIDE DEF step
  <2> QED
    BY <1>2, <1>4, <1>9, <1>10, IsRun
<1>12. F \in [0 .. NbSlots -> Reading]
  BY <1>11 DEF Runs
<1> QED
  BY <1>1, <1>9, <1>12, NbSlotsNat

(* The dates of the table, those from a bound on, and those below it. *)
DatesOf(t)    == {t[i].createdDate : i \in Occupied(t)}
From(t, e)    == {d \in DatesOf(t) : d >= e}
Below(t, e)   == {d \in DatesOf(t) : d < e}

(* A lookup returns nothing if no date is below the bound, and otherwise a  *)
(* slot with the highest of those dates.                                    *)
LEMMA NextDate ==
  ASSUME NEW t \in Table, \A i \in Slots : t[i].id \in {0, i}, NEW e \in Nat
  PROVE  LET r == ScanYoungestOlderThan(t, e) IN
         /\ Below(t, e) = {} => r = Nothing
         /\ Below(t, e) # {} =>
              /\ r.id \in Occupied(t) /\ r.epoch = t[r.id].createdDate
              /\ r.epoch \in Below(t, e) /\ \A d \in Below(t, e) : d <= r.epoch
<1> DEFINE r == ScanYoungestOlderThan(t, e)
<1>1. \A i \in Slots : t[i].createdDate \in Nat
  BY SlotFields
<1>2. Occupied(t) \subseteq Slots
  BY DEF Occupied
<1>3. CASE OlderThan(t, e) = {}
  <2>1. Below(t, e) = {} /\ r = Nothing
    BY <1>3, YoungestScan DEF Below, DatesOf, OlderThan
  <2> QED
    BY <2>1
<1>4. CASE OlderThan(t, e) # {}
  <2>1. PICK i \in Slots : /\ IsYoungestOlderThan(t, e, i)
                           /\ r = [id |-> i, epoch |-> t[i].createdDate]
    BY <1>4, YoungestScan
  <2>2. r.id = i /\ r.epoch = t[i].createdDate /\ i \in Occupied(t) /\ t[i].createdDate < e
    BY <2>1 DEF IsYoungestOlderThan, OlderThan
  <2>3. r.epoch \in Below(t, e)
    BY <2>2 DEF Below, DatesOf
  <2>4. ASSUME NEW d \in Below(t, e) PROVE d <= r.epoch
    <3>1. PICK j \in Occupied(t) : d = t[j].createdDate
      BY DEF Below, DatesOf
    <3>2. j \in OlderThan(t, e)
      BY <3>1 DEF Below, OlderThan
    <3>3. t[j].createdDate < t[i].createdDate \/ t[j].createdDate = t[i].createdDate
      BY <2>1, <3>2 DEF IsYoungestOlderThan
    <3> QED
      BY <1>1, <1>2, <2>2, <3>1, <3>3
  <2> QED
    BY <2>2, <2>3, <2>4
<1> QED
  BY <1>3, <1>4

(* There are at most as many dates as slots taken, and as many only if no   *)
(* two slots share one.                                                     *)
LEMMA DatesCounted ==
  ASSUME NEW t \in Table
  PROVE  /\ IsFiniteSet(DatesOf(t)) /\ Cardinality(DatesOf(t)) \in 0 .. NbSlots
         /\ Cardinality(DatesOf(t)) = Cardinality(Occupied(t)) =>
              \A i, j \in Occupied(t) : t[i].createdDate = t[j].createdDate => i = j
<1> DEFINE O == Occupied(t)
           D == DatesOf(t)
           f == [i \in O |-> t[i].createdDate]
<1>1. IsFiniteSet(Slots) /\ Cardinality(Slots) = NbSlots
  BY NbSlotsNat, FS_Interval, LoggerAssumption DEF LoggerAssumption
<1>2. IsFiniteSet(O) /\ Cardinality(O) <= NbSlots /\ Cardinality(O) \in Nat
  <2>1. O \in SUBSET Slots
    BY DEF Occupied
  <2> QED
    BY <1>1, <2>1, FS_Subset, FS_CardinalityType
<1>3. f \in Surjection(O, D)
  BY DEF Surjection, DatesOf
<1>4. /\ IsFiniteSet(D) /\ Cardinality(D) <= Cardinality(O)
      /\ Cardinality(D) = Cardinality(O) <=> f \in Injection(O, D)
  <2> HIDE DEF f, O, D
  <2> QED
    BY <1>2, <1>3, FS_Surjection
<1>5. Cardinality(D) \in 0 .. NbSlots
  BY <1>2, <1>4, NbSlotsNat, FS_CardinalityType
<1>6. f \in Injection(O, D) => \A i, j \in O : t[i].createdDate = t[j].createdDate => i = j
  BY DEF Injection, IsInjective
<1> QED
  BY <1>4, <1>5, <1>6

(* After n lookups, as long as there are dates left: the dates from the one *)
(* last returned on are the n dates that were returned; then nothing.       *)
WalkedSoFar(t, f, n) ==
  /\ n <= Cardinality(DatesOf(t)) =>
       /\ Cardinality(From(t, f[n].epoch)) = n
       /\ From(t, f[n].epoch) = {f[m].epoch : m \in 1 .. n}
       /\ n # 0 => f[n].id \in Occupied(t) /\ f[n].epoch = t[f[n].id].createdDate
  /\ n >= Cardinality(DatesOf(t)) => Below(t, f[n].epoch) = {}
  /\ n > Cardinality(DatesOf(t)) => f[n] = Nothing

LEMMA WalkTurnLemma ==
  ASSUME NEW t \in Table, \A i \in Slots : t[i].id \in {0, i},
         NEW f \in [0 .. NbSlots -> Reading], NEW n \in Slots,
         f[n] = ScanYoungestOlderThan(t, f[n - 1].epoch),
         WalkedSoFar(t, f, n - 1)
  PROVE  WalkedSoFar(t, f, n)
<1> DEFINE D == DatesOf(t)
           c == Cardinality(D)
           e == f[n - 1].epoch
           r == f[n]
<1>1. /\ IsFiniteSet(D) /\ c \in Nat /\ n \in Nat \ {0} /\ n - 1 \in Nat
      /\ e \in Nat /\ r.epoch \in Nat /\ n - 1 \in 0 .. NbSlots
  <2>1. n \in 0 .. NbSlots /\ n - 1 \in 0 .. NbSlots
    BY NbSlotsNat
  <2>2. f[n] \in Reading /\ f[n - 1] \in Reading
    BY <2>1
  <2> QED
    BY <2>1, <2>2, DatesCounted, NbSlotsNat DEF Reading
<1>2. D \subseteq Nat
  BY SlotFields DEF DatesOf, Occupied
<1>3. /\ Below(t, e) = {} => r = Nothing
      /\ Below(t, e) # {} =>
           /\ r.id \in Occupied(t) /\ r.epoch = t[r.id].createdDate
           /\ r.epoch \in Below(t, e) /\ \A d \in Below(t, e) : d <= r.epoch
  BY <1>1, NextDate
<1>4. From(t, e) \subseteq D /\ From(t, r.epoch) \subseteq D
      /\ Below(t, e) = D \ From(t, e) /\ Below(t, r.epoch) = D \ From(t, r.epoch)
  BY <1>1, <1>2 DEF From, Below
<1>5. CASE n <= c
  <2>1. /\ n - 1 <= c /\ Cardinality(From(t, e)) = n - 1 /\ From(t, e) # D
        /\ From(t, e) = {f[m].epoch : m \in 1 .. n - 1}
    <3>1. n - 1 <= c /\ n - 1 # c
      BY <1>1, <1>5
    <3> QED
      BY <3>1 DEF WalkedSoFar
  <2>2. Below(t, e) # {}
    BY <1>4, <2>1
  <2>3. r.epoch \in D /\ r.epoch < e /\ \A d \in D : d < e => d <= r.epoch
    BY <1>3, <2>2 DEF Below
  <2>4. From(t, r.epoch) = From(t, e) \cup {r.epoch} /\ r.epoch \notin From(t, e)
    <3>1. ASSUME NEW d \in D PROVE d >= r.epoch <=> d >= e \/ d = r.epoch
      BY <1>1, <1>2, <2>3
    <3>2. ~(r.epoch >= e)
      BY <1>1, <2>3
    <3> QED
      BY <2>3, <3>1, <3>2 DEF From
  <2>5. Cardinality(From(t, r.epoch)) = n
    <3>1. IsFiniteSet(From(t, e))
      BY <1>1, <1>4, FS_Subset
    <3>2. Cardinality(From(t, e) \cup {r.epoch}) = (n - 1) + 1
      BY <2>1, <2>4, <3>1, FS_AddElement
    <3> QED
      BY <1>1, <2>4, <3>2
  <2>6. From(t, r.epoch) = {f[m].epoch : m \in 1 .. n}
    <3>1. 1 .. n = (1 .. n - 1) \cup {n}
      BY <1>1
    <3> QED
      BY <2>1, <2>4, <3>1
  <2>7. n >= c => Below(t, r.epoch) = {}
    <3> SUFFICES ASSUME n >= c PROVE Below(t, r.epoch) = {}
      OBVIOUS
    <3>1. Cardinality(From(t, r.epoch)) = c
      BY <1>1, <1>5, <2>5
    <3>2. From(t, r.epoch) = D
      BY <1>1, <1>4, <3>1, FS_Subset
    <3> QED
      BY <1>4, <3>2
  <2>8. r.id \in Occupied(t) /\ r.epoch = t[r.id].createdDate
    BY <1>3, <2>2
  <2>9. ~(n > c)
    BY <1>1, <1>5
  <2> QED
    BY <2>5, <2>6, <2>7, <2>8, <2>9 DEF WalkedSoFar
<1>6. CASE ~(n <= c)
  <2>1. n - 1 >= c /\ ~(n <= c)
    BY <1>1, <1>6
  <2>2. r = Nothing
    BY <1>3, <2>1 DEF WalkedSoFar
  <2>3. Below(t, r.epoch) = {}
    BY <1>2, <2>2 DEF Below, Nothing
  <2> QED
    BY <2>1, <2>2, <2>3 DEF WalkedSoFar
<1> QED
  BY <1>5, <1>6

LEMMA WalkLemma ==
  ASSUME NEW t \in Table, \A i \in Slots : t[i].id \in {0, i}
  PROVE  \E f \in [0 .. NbSlots -> Reading] :
           /\ Walk(t) = [n \in Slots |-> f[n]]
           /\ \A n \in 0 .. NbSlots : WalkedSoFar(t, f, n)
<1>1. PICK f \in [0 .. NbSlots -> Reading] :
           /\ f[0] = Unbounded
           /\ \A n \in Slots : f[n] = ScanYoungestOlderThan(t, f[n - 1].epoch)
           /\ Walk(t) = [n \in Slots |-> f[n]]
  BY WalkLoop
<1> DEFINE P == {n \in 0 .. NbSlots : WalkedSoFar(t, f, n)}
<1>2. WalkedSoFar(t, f, 0)
  <2>1. f[0].epoch = MaxEpoch /\ MaxEpoch \in Nat
    BY <1>1, LoggerAssumption DEF Unbounded, LoggerAssumption
  <2>2. \A d \in DatesOf(t) : d \in Nat /\ d < MaxEpoch
    <3>1. \A i \in Slots : t[i].createdDate \in {0} \cup Dates
      BY DEF Table, Slot
    <3>2. \A d \in {0} \cup Dates : d \in Nat /\ d < MaxEpoch
      BY LoggerAssumption DEF LoggerAssumption
    <3> QED
      BY <3>1, <3>2 DEF DatesOf, Occupied
  <2>3. From(t, f[0].epoch) = {}
    BY <2>1, <2>2 DEF From
  <2>4. {f[m].epoch : m \in 1 .. 0} = {} /\ Cardinality({}) = 0
    BY FS_EmptySet
  <2>5. /\ Cardinality(DatesOf(t)) \in Nat
        /\ Cardinality(DatesOf(t)) = 0 => DatesOf(t) = {}
    BY DatesCounted, FS_EmptySet
  <2>6. ~(0 > Cardinality(DatesOf(t)))
    BY <2>5
  <2>7. 0 >= Cardinality(DatesOf(t)) => Below(t, f[0].epoch) = {}
    BY <2>5 DEF Below
  <2> QED
    BY <2>3, <2>4, <2>6, <2>7 DEF WalkedSoFar
<1>3. 0 \in P
  BY <1>2, NbSlotsNat
<1>4. ASSUME NEW n \in 1 .. NbSlots, n - 1 \in P PROVE n \in P
  <2>1. WalkedSoFar(t, f, n - 1) /\ n \in Slots /\ n \in 0 .. NbSlots
    BY <1>4, NbSlotsNat
  <2>2. f[n] = ScanYoungestOlderThan(t, f[n - 1].epoch)
    BY <1>1, <2>1
  <2> QED
    BY <2>1, <2>2, WalkTurnLemma
<1>5. \A n \in 0 .. NbSlots : n \in P
  <2> HIDE DEF P
  <2> QED
    BY <1>3, <1>4, NbSlotsNat, LoopRule
<1> QED
  BY <1>1, <1>5

(* WalkVisitsEachDateOnce: the walk over the table returns each of its      *)
(* dates once, youngest first, and then nothing; if no two slots share a    *)
(* date it returns every slot.                                              *)
THEOREM LoggerWalkIsComplete == Spec => []WalkVisitsEachDateOnce
<1>1. TypeOK => WalkVisitsEachDateOnce
  <2> SUFFICES ASSUME TypeOK PROVE WalkVisitsEachDateOnce
    OBVIOUS
  <2> DEFINE t == logger_struct
             w == Walk(t)
             c == Cardinality(DatesOf(t))
             Hits == {n \in Slots : w[n].id # 0}
  <2>1. t \in Table /\ \A i \in Slots : t[i].id \in {0, i}
    BY DEF TypeOK, Table
  <2>2. PICK f \in [0 .. NbSlots -> Reading] :
           /\ w = [n \in Slots |-> f[n]]
           /\ \A n \in 0 .. NbSlots : WalkedSoFar(t, f, n)
    BY <2>1, WalkLemma
  <2> HIDE DEF t
  <2>3. c \in 0 .. NbSlots /\ IsFiniteSet(DatesOf(t))
    BY <2>1, DatesCounted
  <2>4. \A n \in Slots : n \in 0 .. NbSlots /\ n \in Nat \ {0} /\ w[n] = f[n]
    BY <2>2, NbSlotsNat
  <2>5. ASSUME NEW n \in Slots, n <= c
        PROVE  /\ w[n].id \in Occupied(t) /\ w[n].epoch = t[w[n].id].createdDate
               /\ Cardinality(From(t, w[n].epoch)) = n
    BY <2>2, <2>4, <2>5 DEF WalkedSoFar
  <2>6. \A n \in Slots : w[n].id # 0 <=> n <= c
    <3>1. ASSUME NEW n \in Slots, ~(n <= c) PROVE w[n].id = 0
      <4>1. n > c
        BY <2>3, <2>4, <3>1
      <4> QED
        BY <2>2, <2>4, <4>1 DEF WalkedSoFar, Nothing
    <3>2. \A i \in Occupied(t) : i # 0
      BY NbSlotsNat DEF Occupied
    <3> QED
      BY <2>5, <3>1, <3>2
  <2>7. Hits = 1 .. c
    BY <2>3, <2>6, NbSlotsNat
  <2>8. {w[n].epoch : n \in Hits} = DatesOf(t)
    <3>1. /\ c <= c /\ c >= c
          /\ From(t, f[c].epoch) = {f[m].epoch : m \in 1 .. c}
          /\ Below(t, f[c].epoch) = {}
      BY <2>2, <2>3 DEF WalkedSoFar
    <3>2. \A d \in DatesOf(t) : d \in Nat
      BY <2>1, SlotFields DEF DatesOf, Occupied
    <3>3. f[c].epoch \in Nat
      BY <2>3 DEF Reading
    <3>4. From(t, f[c].epoch) = DatesOf(t)
      BY <3>1, <3>2, <3>3 DEF From, Below
    <3>5. \A m \in 1 .. c : w[m] = f[m]
      BY <2>4, <2>7
    <3> QED
      BY <2>7, <3>1, <3>4, <3>5
  <2>9. \A n \in Hits : w[n].epoch = t[w[n].id].createdDate
    BY <2>5, <2>6
  <2>10. ASSUME NEW m \in Hits, NEW n \in Hits, m < n PROVE w[n].epoch < w[m].epoch
    <3>1. /\ m \in Nat /\ n \in Nat /\ Cardinality(From(t, w[m].epoch)) = m
          /\ Cardinality(From(t, w[n].epoch)) = n
      BY <2>4, <2>5, <2>6
    <3>2. w[m].epoch \in Nat /\ w[n].epoch \in Nat /\ DatesOf(t) \subseteq Nat
      <4>1. f[m] \in Reading /\ f[n] \in Reading /\ w[m] = f[m] /\ w[n] = f[n]
        BY <2>4
      <4>2. DatesOf(t) \subseteq Nat
        BY <2>1, SlotFields DEF DatesOf, Occupied
      <4> QED
        BY <4>1, <4>2 DEF Reading
    <3>3. ASSUME w[m].epoch <= w[n].epoch PROVE FALSE
      <4>1. From(t, w[n].epoch) \in SUBSET From(t, w[m].epoch)
        BY <3>2, <3>3 DEF From
      <4>2. IsFiniteSet(From(t, w[m].epoch))
        BY <2>3, FS_Subset DEF From
      <4>3. n <= m
        BY <3>1, <4>1, <4>2, FS_Subset
      <4> QED
        BY <2>10, <3>1, <4>3
    <3> QED
      BY <3>2, <3>3
  <2>11. ASSUME Cardinality(DatesOf(t)) = Cardinality(Occupied(t))
         PROVE  {w[n].id : n \in Hits} = Occupied(t)
    <3>1. \A i, j \in Occupied(t) : t[i].createdDate = t[j].createdDate => i = j
      BY <2>1, <2>11, DatesCounted
    <3>2. ASSUME NEW i \in Occupied(t) PROVE \E n \in Hits : w[n].id = i
      <4>1. t[i].createdDate \in DatesOf(t)
        BY DEF DatesOf
      <4>2. PICK n \in Hits : w[n].epoch = t[i].createdDate
        BY <2>8, <4>1
      <4>3. w[n].id \in Occupied(t) /\ t[w[n].id].createdDate = t[i].createdDate
        BY <2>5, <2>6, <4>2
      <4> QED
        BY <3>1, <4>3
    <3>3. \A n \in Hits : w[n].id \in Occupied(t)
      BY <2>5, <2>6
    <3> QED
      BY <3>2, <3>3
  <2> HIDE DEF w, Hits, c
  <2>12. /\ Hits = 1 .. Cardinality(DatesOf(t))
         /\ \A m, n \in Hits : m < n => w[n].epoch < w[m].epoch
    BY <2>7, <2>10 DEF c
  <2>13. DatesOf(t) = {t[i].createdDate : i \in Occupied(t)}
    BY DEF DatesOf
  <2> QED
    BY <2>8, <2>9, <2>11, <2>12, <2>13 DEF WalkVisitsEachDateOnce, t, w, Hits
<1> QED
  BY <1>1, LoggerTypeCorrect, PTL

=============================================================================

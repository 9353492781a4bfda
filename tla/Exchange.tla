------------------------------ MODULE Exchange ------------------------------
(***************************************************************************)
(* What the link to the modem comes to when each exchange is one step, as  *)
(* module Uplink takes it: the modem holds payloads by id, satellites take *)
(* and acknowledge them, and the tracker reads and clears the              *)
(* acknowledgements one by one and is told an id for each.                 *)
(***************************************************************************)
EXTENDS Integers, Sequences, FiniteSets

CONSTANTS
  Ids,      \* payload ids, which are slot ids
  QueueMax  \* the number of payloads the modem holds

VARIABLES
  queue,    \* ids of the payloads the modem holds
  given,    \* ids of the payloads satellites took, in order
  acks,     \* acknowledgements waiting: n is that of given[n]
  told,     \* the id the tracker acts on as acknowledged, 0 for none
  late      \* has an answer come after its time limit

vars == <<queue, given, acks, told, late>>

InUse(i) == i \in queue \/ \E k \in DOMAIN acks : given[acks[k]] = i

Init ==
  /\ queue = {} /\ given = <<>> /\ acks = <<>>
  /\ told = 0 /\ late = FALSE

(* Nothing new is told. *)
Silent == told' \in {told, 0}

(* The modem takes a payload. *)
Enqueue(i) ==
  /\ ~InUse(i) /\ Cardinality(queue) < QueueMax
  /\ queue' = queue \cup {i}
  /\ Silent /\ UNCHANGED <<given, acks>>

(* A satellite takes it and acknowledges it. *)
Take(i) ==
  /\ i \in queue
  /\ queue' = queue \ {i}
  /\ given' = Append(given, i)
  /\ acks' = Append(acks, Len(given) + 1)
  /\ Silent

(* The first acknowledgement is read, and cleared unless the clear fails:   *)
(* Uplink's ReadAck.                                                        *)
Acknowledge ==
  /\ acks # <<>>
  /\ told' = given[Head(acks)]
  /\ acks' \in {acks, Tail(acks)}
  /\ UNCHANGED <<queue, given>>

(* The read fails, the tracker acts on whatever its variable held, and      *)
(* nothing is cleared: MisreadAck.                                          *)
Misread ==
  /\ acks # <<>> \/ late'
  /\ told' = -1
  /\ UNCHANGED <<queue, given, acks>>

(* After a late answer the tracker is told of any payload there has been,   *)
(* and what the clear removes is another acknowledgement: ClearUnreadAck.   *)
Confuse ==
  /\ late'
  /\ told' \in {given[n] : n \in DOMAIN given}
  /\ acks' \in {acks} \cup (IF acks = <<>> THEN {} ELSE {Tail(acks)})
  /\ UNCHANGED <<queue, given>>

(* A boot loses the payloads, and a reset of the modem what it would tell. *)
Lose ==
  /\ queue' = {} /\ acks' \in {acks, <<>>}
  /\ Silent /\ UNCHANGED given

(* An exchange that failed, or moved neither payload nor acknowledgement. *)
NoEffect == Silent /\ UNCHANGED <<queue, given, acks>>

Next ==
  /\ late' \in {late, TRUE}
  /\ \/ \E i \in Ids : Enqueue(i) \/ Take(i)
     \/ Acknowledge \/ Misread \/ Confuse
     \/ Lose
     \/ NoEffect

Spec == Init /\ [][Next]_vars
=============================================================================

------------------------------ MODULE Delivery ------------------------------
(***************************************************************************)
(* What the tracker promises of the messages it logs for the satellite,    *)
(* without the logger, the modem or the acknowledgements: a message that   *)
(* was accepted stays pending until the satellite has received it or the   *)
(* tracker gave it up on purpose (the user cleared it, the RAM was lost in *)
(* a reboot), and it is pending at most once.                              *)
(***************************************************************************)
CONSTANT
  Data        \* the messages

VARIABLES
  pending,    \* accepted, the tracker still has to bring them to the satellite
  delivered,  \* received by the satellite
  dropped     \* given up on purpose

vars == <<pending, delivered, dropped>>

TypeOK ==
  /\ pending \subseteq Data
  /\ delivered \subseteq Data
  /\ dropped \subseteq Data
  /\ pending \cap (delivered \cup dropped) = {}

Init ==
  /\ pending = {}
  /\ delivered = {}
  /\ dropped = {}

(* A new message is accepted. *)
Accept(d) ==
  /\ d \notin pending \cup delivered \cup dropped
  /\ pending' = pending \cup {d}
  /\ UNCHANGED <<delivered, dropped>>

(* The satellite receives a message.  One that was given up may still be    *)
(* delivered: its payload was in the modem already.                         *)
Receive(d) ==
  /\ d \in pending \cup dropped
  /\ pending' = pending \ {d}
  /\ delivered' = delivered \cup {d}
  /\ UNCHANGED dropped

(* The user clears messages, or a reboot empties the RAM. *)
GiveUp(S) ==
  /\ S \subseteq pending
  /\ pending' = pending \ S
  /\ dropped' = dropped \cup S
  /\ UNCHANGED delivered

Next ==
  \/ \E d \in Data : Accept(d) \/ Receive(d)
  \/ \E S \in SUBSET Data : GiveUp(S)

Spec == Init /\ [][Next]_vars

=============================================================================

------------------------------ MODULE MCMainSM ------------------------------
(* The main state machine with times of a few seconds in their order. *)
EXTENDS MainSM

MCBuilds == {[screen |-> FALSE, battery_low |-> FALSE], [screen |-> TRUE, battery_low |-> FALSE],
             [screen |-> FALSE, battery_low |-> TRUE]}

ScreenBuild == {[screen |-> TRUE, battery_low |-> FALSE]}
=============================================================================

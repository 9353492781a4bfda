----------------------------- MODULE MCCommand -----------------------------
(* Two messages with the same end, a request, a configuration and a packet *)
(* that is not supported.                                                  *)
EXTENDS Command

MCPackets == {"m1", "m2", "req", "conf", "odd"}
MCKind == [m1 |-> "message", m2 |-> "message", req |-> "request", conf |-> "config", odd |-> "other"]
MCData == {"a", "b", "end"}
MCBody == [m1 |-> <<"a", "end">>, m2 |-> <<"b", "end">>, req |-> <<>>, conf |-> <<"a">>, odd |-> <<>>]

=============================================================================

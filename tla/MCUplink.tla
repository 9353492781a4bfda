------------------------------ MODULE MCUplink ------------------------------
(* Instances of Uplink for TLC. *)
EXTENDS Uplink, TLC

MCDates    == 1 .. 2
MCAckDates == {1}
MCPvt      == {"PVT"}
MCSymmetry == Permutations(Data)

=============================================================================

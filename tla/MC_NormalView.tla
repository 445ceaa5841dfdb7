---------------------------- MODULE MC_NormalView ----------------------------
(* Model values for Normal mode: two overlapping ranges of two registers.  *)
EXTENDS NormalView

ThreeAddresses == 0 .. 2
TwoRanges == {[start |-> 0, quantity |-> 2], [start |-> 1, quantity |-> 2]}
ZeroAndOne == 0 .. 1
AnyOrTwo == {NoText, 2}
ThreeTypes == {"HoldingRegister", "InputRegister", "Coil"}
=============================================================================

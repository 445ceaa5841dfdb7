--------------------------- MODULE AddressConvention ---------------------------
(***************************************************************************)
(* core/format/AddressConvention: an address as the wire has it, and as    *)
(* the screen shows it and takes it.                                       *)
(***************************************************************************)
EXTENDS Integers

Conventions == {"Pdu", "Modicon"}

ModiconBaseFor(type) ==
    CASE type = "Coil"            -> 1
      [] type = "DiscreteInput"   -> 10001
      [] type = "InputRegister"   -> 30001
      [] type = "HoldingRegister" -> 40001

DisplayAddress(type, pduAddress, convention) ==
    IF convention = "Pdu" THEN pduAddress ELSE ModiconBaseFor(type) + pduAddress

PduAddress(type, displayAddress, convention) ==
    IF convention = "Pdu" THEN displayAddress ELSE displayAddress - ModiconBaseFor(type)
=============================================================================

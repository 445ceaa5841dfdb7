---------------------------- MODULE MC_DataPath ----------------------------
(* Jobs: every byte order; both 32-bit integers, plain, scaled and with an  *)
(* offset so large that six digits no longer show the unit; scaled and      *)
(* plain decimals; texts with a unit, too large and unreadable; reads of    *)
(* two registers and of nine bits, a coil written and read, an address the  *)
(* device does not have.                                                    *)
EXTENDS DataPath, ModbusCrc16

\* The check value published for this checksum: that of the characters 1 to 9.
ASSUME CrcAssumption == ComputeModbusCrc16([i \in 1 .. 9 |-> 48 + i]) = 19255

Pair(order) == Settings("Int32Signed", order, One, 0, "")
Celsius == Settings("SignedDecimal", "ABCD", 10, -500, "C")
Litres  == Settings("UnsignedDecimal", "ABCD", 2500, 0, "l")
Energy  == Settings("Int32Unsigned", "CDAB", 2500, 0, "kWh")
Level   == Settings("Int32Signed", "BADC", 50, 1500000000, "mm")

\* 0x01234500, in hundredths
FourBytes == 19088640 * One

TypedJobs ==
    {TypeValue("Tcp", 1, Pair(order), Text(FourBytes, "")) : order \in ByteOrders}
    \cup {TypeValue("Tcp", 0, Celsius, Text(n, "C")) : n \in {-4000, 1234, 2145}}
    \cup {TypeValue("Tcp", 0, Settings("SignedDecimal", "ABCD", One, 0, ""), Text(-700, "")),
          TypeValue("Tcp", 0, Settings("UnsignedDecimal", "ABCD", One, 0, ""), Text(7000000, "")),
          TypeValue("Tcp", 3, Litres, Text(12345678, "")),
          TypeValue("Tcp", 3, Litres, Text(100, "bar")),
          TypeValue("Tcp", 2, Energy, Text(1640320919, "kWh")),
          TypeValue("Tcp", 2, Level, Text(1503456011, "mm")),
          TypeValue("Rtu", 1, Level, Text(1499999923, "")),
          TypeValue("Rtu", 2, Settings("Hex", "ABCD", One, 0, "C"), Text(65535, "")),
          TypeValue("Rtu", 2, Pair("DCBA"), Text(-500, ""))}

AskLists == {<<Ask(1, 0, 9)>>, <<Ask(5, 4, CoilOn), Ask(1, 2, 3)>>, <<Ask(4, 0, 2), Ask(3, 2, 1)>>,
         <<Ask(3, 3, 2), Ask(2, 8, 1)>>}

AllJobs == TypedJobs \cup {Requests(framing, asks) : framing \in {"Tcp", "Rtu"}, asks \in AskLists}

OneBitOrTwo == {1, 128}
=============================================================================

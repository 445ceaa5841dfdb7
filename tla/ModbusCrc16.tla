---------------------------- MODULE ModbusCrc16 ----------------------------
(* core/modbus/Crc16, bit by bit.  Codec takes the checksum as a constant; *)
(* this is the one it stands for.                                          *)
EXTENDS Integers, SequencesExt, Bitwise

ShiftOut(crc) == IF crc % 2 = 1 THEN (crc \div 2) ^^ 40961 ELSE crc \div 2

ComputeModbusCrc16(bytes) ==
    FoldLeft(LAMBDA crc, byte : FoldLeft(LAMBDA c, bit : ShiftOut(c), crc ^^ byte, [bit \in 1 .. 8 |-> bit]),
             65535, bytes)
=============================================================================

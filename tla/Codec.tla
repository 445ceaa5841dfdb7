-------------------------------- MODULE Codec --------------------------------
(***************************************************************************)
(* core/modbus, byte by byte: the PDUs of the requests the program sends,  *)
(* the decoding of their answers, and the two framings.  Bytes are numbers *)
(* below 256, messages are sequences of them.                              *)
(***************************************************************************)
EXTENDS Integers, SequencesExt

CONSTANT Crc16(_)   \* computeModbusCrc16(), in module ModbusCrc16

ReadCodes  == 1 .. 4
WriteCodes == {5, 6, 15, 16}
FunctionCode == [ReadCoils |-> 1, ReadDiscreteInputs |-> 2, ReadHoldingRegisters |-> 3,
                 ReadInputRegisters |-> 4, WriteSingleCoil |-> 5, WriteSingleRegister |-> 6]

IsBitCode(code) == code \in {1, 2}
IsExceptionResponseFunctionCode(code) == code >= 128

BigEndianU16(n) == <<n \div 256, n % 256>>
ReadBigEndianU16(bytes, i) == bytes[i] * 256 + bytes[i + 1]

\* QByteArray::mid(): a negative count means the rest.
Mid(bytes, first, count) ==
    SubSeq(bytes, first, IF count < 0 \/ first + count - 1 > Len(bytes) THEN Len(bytes)
                         ELSE first + count - 1)

-----------------------------------------------------------------------------
(* PDUs.  What a request asks: a function code, an address, and a quantity *)
(* to read or a value to write.                                            *)

CoilOn == 65280   \* 0xFF00

Ask(code, address, argument) == [code |-> code, address |-> address, argument |-> argument]

\* Bug: the address goes out low byte first.
EncodeLittleEndian(ask) == <<ask.code>> \o Reverse(BigEndianU16(ask.address)) \o BigEndianU16(ask.argument)

\* encodeReadRequest(), encodeWriteSingleCoilRequest(), encodeWriteSingleRegisterRequest()
EncodeRequest(ask) == <<ask.code>> \o BigEndianU16(ask.address) \o BigEndianU16(ask.argument)

Malformed == [status |-> "malformed", values |-> <<>>]
Exception(code) == [status |-> "exception", values |-> <<code>>]
Success(values) == [status |-> "ok", values |-> values]

\* Bits, lowest first, of as many bytes as the quantity needs.
BitsIn(pdu, quantity) ==
    [i \in 1 .. quantity |-> (pdu[3 + (i - 1) \div 8] \div 2 ^ ((i - 1) % 8)) % 2]

RegistersIn(pdu) == [i \in 1 .. pdu[2] \div 2 |-> ReadBigEndianU16(pdu, 1 + 2 * i)]

\* The checks of the decode functions on an answer with the function code asked for.
IsWellFormed(ask, pdu) ==
    IF ask.code \in WriteCodes THEN Len(pdu) >= 5
    ELSE /\ Len(pdu) >= 2
         /\ Len(pdu) >= 2 + pdu[2]
         /\ IF IsBitCode(ask.code) THEN pdu[2] = (ask.argument + 7) \div 8 ELSE pdu[2] % 2 = 0

ValuesIn(ask, pdu) ==
    IF ask.code \in WriteCodes THEN <<ReadBigEndianU16(pdu, 2), ReadBigEndianU16(pdu, 4)>>
    ELSE IF IsBitCode(ask.code) THEN BitsIn(pdu, ask.argument) ELSE RegistersIn(pdu)

\* decodeRead...Response(), decodeWriteSingle...Response()
Decode(ask, pdu) ==
    IF pdu = <<>> THEN Malformed
    ELSE IF IsExceptionResponseFunctionCode(pdu[1])
         THEN IF Len(pdu) < 2 THEN Malformed ELSE Exception(pdu[2])
    ELSE IF pdu[1] = ask.code /\ IsWellFormed(ask, pdu) THEN Success(ValuesIn(ask, pdu))
    ELSE Malformed

-----------------------------------------------------------------------------
(* Modbus TCP.                                                             *)

EncodeMbapFrame(tid, unit, pdu) ==
    BigEndianU16(tid) \o BigEndianU16(0) \o BigEndianU16(1 + Len(pdu)) \o <<unit>> \o pdu

\* Bug: the length is taken for that of the PDU.
OneByteMore(length) == 7 + length

FrameSize(length) == 6 + length

\* The frame at the head of the buffer, or <<>>.
DecodeMbapFrame(buffer) ==
    IF Len(buffer) < 7 THEN <<>>
    ELSE LET length == ReadBigEndianU16(buffer, 5)
         IN  IF ReadBigEndianU16(buffer, 3) # 0 \/ Len(buffer) < FrameSize(length) THEN <<>>
             ELSE <<[tid  |-> ReadBigEndianU16(buffer, 1),
                     pdu  |-> Mid(buffer, 8, length - 1),
                     size |-> FrameSize(length)]>>

-----------------------------------------------------------------------------
(* Modbus RTU.                                                             *)

EncodeRtuFrame(unit, pdu) ==
    LET frame == <<unit>> \o pdu
    IN  frame \o Reverse(BigEndianU16(Crc16(frame)))

\* Bug: any frame is taken.
TakesAnyCrc(frame) == Len(frame) >= 3

\* decodeRtuFrame() finds a frame in these bytes.
IsRtuFrame(frame) ==
    /\ Len(frame) >= 3
    /\ Reverse(BigEndianU16(Crc16(SubSeq(frame, 1, Len(frame) - 2))))
           = SubSeq(frame, Len(frame) - 1, Len(frame))

PduOfRtuFrame(frame) == SubSeq(frame, 2, Len(frame) - 2)

\* 0 while the length is undetermined, and for function codes the program never sent.
ExpectedRtuResponseLength(partial) ==
    IF Len(partial) < 2 THEN 0
    ELSE CASE IsExceptionResponseFunctionCode(partial[2]) -> 5
           [] partial[2] \in WriteCodes -> 8
           [] partial[2] \in ReadCodes -> IF Len(partial) < 3 THEN 0 ELSE 5 + partial[3]
           [] OTHER -> 0
=============================================================================

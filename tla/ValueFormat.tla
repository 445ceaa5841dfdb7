----------------------------- MODULE ValueFormat -----------------------------
(***************************************************************************)
(* core/format/ValueFormatter: registers to the value a row shows, and the *)
(* text the user types to the registers that are written.  A text is its   *)
(* number and its unit; digits are left out.  The numbers of the decimal   *)
(* formats, their scale and offset are counted in hundredths, and are      *)
(* exact where the code has the nearest double.  Float32 is a format of a  *)
(* row and takes two registers, but what the bits of a float mean is not   *)
(* modelled: FormatValue and ParseValue are for IntegerFormats.            *)
(***************************************************************************)
EXTENDS Integers, Sequences

Byte     == 0 .. 255
Register == 0 .. 65535
Word     == Byte \X Byte \X Byte \X Byte

PairFormats  == {"Float32", "Int32Signed", "Int32Unsigned"}
PlainFormats == {"Hex", "Binary"}
Formats      == PairFormats \cup PlainFormats \cup {"SignedDecimal", "UnsignedDecimal"}
IntegerFormats == Formats \ {"Float32"}
ByteOrders   == {"ABCD", "BADC", "CDAB", "DCBA"}

Settings(format, order, scale, offset, unit) ==
    [format |-> format, byteOrder |-> order, scale |-> scale, offset |-> offset, unit |-> unit]

RegisterSpanFor(format) == IF format \in PairFormats THEN 2 ELSE 1

High(register) == register \div 256
Low(register)  == register % 256

PackBytes(r0, r1, order) ==
    CASE order = "ABCD" -> <<High(r0), Low(r0), High(r1), Low(r1)>>
      [] order = "BADC" -> <<Low(r0), High(r0), Low(r1), High(r1)>>
      [] order = "CDAB" -> <<High(r1), Low(r1), High(r0), Low(r0)>>
      [] order = "DCBA" -> <<Low(r1), High(r1), Low(r0), High(r0)>>

\* Bug: BADC and CDAB are each taken for the other.
UnpackSwapped(w, order) ==
    CASE order = "ABCD" -> <<w[1] * 256 + w[2], w[3] * 256 + w[4]>>
      [] order = "CDAB" -> <<w[2] * 256 + w[1], w[4] * 256 + w[3]>>
      [] order = "BADC" -> <<w[3] * 256 + w[4], w[1] * 256 + w[2]>>
      [] order = "DCBA" -> <<w[4] * 256 + w[3], w[2] * 256 + w[1]>>

UnpackToRegisters(w, order) ==
    CASE order = "ABCD" -> <<w[1] * 256 + w[2], w[3] * 256 + w[4]>>
      [] order = "BADC" -> <<w[2] * 256 + w[1], w[4] * 256 + w[3]>>
      [] order = "CDAB" -> <<w[3] * 256 + w[4], w[1] * 256 + w[2]>>
      [] order = "DCBA" -> <<w[4] * 256 + w[3], w[2] * 256 + w[1]>>

\* qint16(register), quint16(n)
Signed(register) == IF register >= 32768 THEN register - 65536 ELSE register
ToRegister(n) == n % 65536

\* A quint32, by its bytes, most significant first, and a qint32, and back.
WordFrom(top, w) == top * 16777216 + w[2] * 65536 + w[3] * 256 + w[4]
UnsignedWord(w) == WordFrom(w[1], w)
SignedWord(w) == WordFrom(IF w[1] >= 128 THEN w[1] - 256 ELSE w[1], w)
ToWord(n) == <<(n \div 16777216) % 256, (n \div 65536) % 256, (n \div 256) % 256, n % 256>>

Magnitude(n) == IF n < 0 THEN -n ELSE n

\* qRound64(n / d), d positive: halves away from zero.
RoundedQuotient(n, d) ==
    LET whole == Magnitude(n) \div d
        size  == whole + (IF 2 * (Magnitude(n) - d * whole) >= d THEN 1 ELSE 0)
    IN  IF n < 0 THEN -size ELSE size

-----------------------------------------------------------------------------
One == 100   \* in hundredths

Text(number, unit) == [number |-> number, unit |-> unit]

IsDefaultScaling(settings) == settings.scale = One /\ settings.offset = 0

\* numericValue() of the registers of a row, before it is scaled and after.
Unscaled(settings, registers) ==
    CASE settings.format = "SignedDecimal"   -> Signed(registers[1])
      [] settings.format = "UnsignedDecimal" -> registers[1]
      [] settings.format = "Int32Signed"   -> SignedWord(PackBytes(registers[1], registers[2], settings.byteOrder))
      [] settings.format = "Int32Unsigned" -> UnsignedWord(PackBytes(registers[1], registers[2], settings.byteOrder))

NumericValue(settings, registers) ==
    IF settings.format \in PlainFormats THEN registers[1]
    ELSE Unscaled(settings, registers) * settings.scale + settings.offset

Tens[k \in Nat] == IF k = 0 THEN 1 ELSE 10 * Tens[k - 1]

IsLong(n, k) == Magnitude(n) \div Tens[k] >= 1000000

\* QString::number(double) writes six significant digits: it rounds to the least
\* power of ten that leaves no more, and from a hundredth on.
LastDigit(n) ==
    Tens[CHOOSE k \in 0 .. Magnitude(n) \div 1000000 :
             ~IsLong(n, k) /\ \A j \in 0 .. k - 1 : IsLong(n, j)]

SixDigits(n) == RoundedQuotient(n, LastDigit(n)) * LastDigit(n)

FormatValue(settings, registers) ==
    IF settings.format \in PlainFormats THEN Text(registers[1], "")
    ELSE Text(IF IsDefaultScaling(settings) THEN Unscaled(settings, registers) * One
              ELSE SixDigits(NumericValue(settings, registers)), settings.unit)

\* A number followed by nothing or by the unit of the row; hexadecimal and
\* binary numbers have no sign.
CanParse(settings, text) ==
    /\ text.unit \in {"", settings.unit}
    /\ settings.format \in PlainFormats => text.number >= 0

ParseValue(settings, text) ==
    LET raw == RoundedQuotient(text.number - settings.offset, settings.scale)
    IN  IF settings.format \in PlainFormats THEN <<ToRegister(text.number)>>
        ELSE IF settings.format \in PairFormats THEN UnpackToRegisters(ToWord(raw), settings.byteOrder)
        ELSE <<ToRegister(raw)>>
=============================================================================

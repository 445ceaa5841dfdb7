---------------------------- MODULE RegisterTable ----------------------------
(***************************************************************************)
(* app-lib/models/RegisterTableModel: the table of Normal mode, as a value *)
(* and the operations on it.  The registers of one range are shown in      *)
(* rows; a row takes as many registers as its display format, one or two.  *)
(* Of a format only that number is kept, of a bit or register type whether *)
(* it is one of bits.  An operation returns the table and the signal it    *)
(* emits to whoever shows the table.                                       *)
(***************************************************************************)
EXTENDS AddressConvention, SequencesExt, FiniteSetsExt

CONSTANT
    Addresses   \* the addresses formats are chosen for

ASSUME TableAssumption == Addresses \subseteq Nat

BitTypes  == {"Coil", "DiscreteInput"}
WordTypes == {"HoldingRegister", "InputRegister"}

IsBitType(type) == type \in BitTypes
IsWritableType(type) == type \in {"Coil", "HoldingRegister"}

\* What the settings of an address without an entry in m_formats need.
DefaultSpan == 1
NoFormats == [a \in Addresses |-> DefaultSpan]

\* A table, its rows left to RebuildLogicalRows.  start is m_startAddress; words and
\* bits are m_rawValues and m_bitValues; formats the spans in m_formats; rowOf is
\* m_rawIndexToRowIndex.
EmptyTable(type) ==
    [type |-> type, convention |-> "Pdu", start |-> 0, words |-> <<>>, bits |-> <<>>,
     formats |-> NoFormats, rows |-> <<>>, rowOf |-> <<>>, stale |-> FALSE]

\* beginResetModel() .. endResetModel(), and dataChanged() of some roles of some rows.
ModelReset == [rows |-> {}, roles |-> {"address", "value"}]
DataChanged(rows, roles) == [rows |-> rows, roles |-> roles]
Silence == DataChanged({}, {})

-----------------------------------------------------------------------------
\* Bug: a row may reach one register beyond the range.
AlmostFits(i, span, count) == i + span <= count + 2

CanFit(i, span, count) == i + span <= count + 1

\* The row that starts at the i-th of count registers: one register when what was asked
\* for does not fit.
RowAt(start, formats, count, i) ==
    LET address == start + i - 1
        needed  == formats[address]
    IN  [address |-> address, span |-> IF CanFit(i, needed, count) THEN needed ELSE DefaultSpan]

\* The rows of the registers from the i-th on, for each i.
RowsFrom(start, formats, count) ==
    LET from[i \in 1 .. count + 2] ==
            IF i > count THEN <<>>
            ELSE <<RowAt(start, formats, count, i)>> \o from[i + RowAt(start, formats, count, i).span]
    IN  from

WordRows(start, formats, count) == RowsFrom(start, formats, count)[1]

BitRows(start, count) == [i \in 1 .. count |-> [address |-> start + i - 1, span |-> 1]]

\* The registers or bits the table is about.
Cells(table) == IF IsBitType(table.type) THEN table.bits ELSE table.words

LogicalRows(table) ==
    IF IsBitType(table.type) THEN BitRows(table.start, Len(table.bits))
    ELSE WordRows(table.start, table.formats, Len(table.words))

Takes(row, address) == address \in row.address .. row.address + row.span - 1

RowIndex(table, rows) ==
    [i \in DOMAIN Cells(table) |-> CHOOSE r \in DOMAIN rows : Takes(rows[r], table.start + i - 1)]

RebuildLogicalRows(table) ==
    [table EXCEPT !.rows = LogicalRows(table), !.rowOf = RowIndex(table, LogicalRows(table))]

Reset(table) == [table |-> RebuildLogicalRows(table), signal |-> ModelReset]

-----------------------------------------------------------------------------
Changed(old, new) == {i \in DOMAIN new : new[i] # old[i]}

\* Bug: the index of a register is taken for the index of its row.
RowsByIndex(table, changed) == Min(changed) .. Max(changed)

RowsOf(table, changed) == table.rowOf[Min(changed)] .. table.rowOf[Max(changed)]

\* setRegisters(): in place when the range is the same, so that no row is torn down.
SetRegisters(table, start, words) ==
    LET fresh   == [table EXCEPT !.stale = FALSE]
        changed == Changed(table.words, words)
    IN  IF table.start = start /\ Len(table.words) = Len(words)
        THEN [table  |-> [fresh EXCEPT !.words = words],
              signal |-> IF changed = {} THEN Silence
                         ELSE DataChanged(RowsOf(table, changed), {"value"})]
        ELSE Reset([fresh EXCEPT !.start = start, !.words = words])

\* setBits(): the same; a row is a bit, so indices need no mapping.
SetBits(table, start, bits) ==
    LET fresh   == [table EXCEPT !.stale = FALSE]
        changed == Changed(table.bits, bits)
    IN  IF table.start = start /\ Len(table.bits) = Len(bits)
        THEN [table  |-> [fresh EXCEPT !.bits = bits],
              signal |-> IF changed = {} THEN Silence
                         ELSE DataChanged(Min(changed) .. Max(changed), {"value"})]
        ELSE Reset([fresh EXCEPT !.start = start, !.bits = bits])

\* setFormatAt(), of a row of registers.
SetFormatAt(table, row, span) ==
    Reset([table EXCEPT !.formats[table.rows[row].address] = span])

\* setRegisterType(): what was shown means nothing in another address space.
SetRegisterType(table, type) ==
    Reset([table EXCEPT !.type = type, !.words = <<>>, !.bits = <<>>, !.formats = NoFormats])

MarkStale(table) == [table |-> [table EXCEPT !.stale = TRUE], signal |-> Silence]

\* setAddressConvention(): every address reads differently.
SetAddressConvention(table, convention) ==
    [table  |-> [table EXCEPT !.convention = convention],
     signal |-> DataChanged(DOMAIN table.rows, {"address"})]

-----------------------------------------------------------------------------
\* What data() returns for a row: the first and the last address,
RowText(type, convention, at) ==
    {DisplayAddress(type, n, convention) : n \in {at.address, at.address + at.span - 1}}

AddressText(table, row) == RowText(table.type, table.convention, table.rows[row])

\* and the registers behind its value.
Shown(table, row) ==
    LET first == table.rows[row].address - table.start + 1
    IN  SubSeq(Cells(table), first, Min({first + table.rows[row].span - 1, Len(Cells(table))}))
=============================================================================

----------------------------- MODULE TagImport -----------------------------
(***************************************************************************)
(* core/importer: register maps in CSV or JSON files to tags.  The two     *)
(* parsers share the check of a row.  A cell is a text whose case and      *)
(* surrounding blanks are gone; of a number only what toInt() and          *)
(* toDouble() make of it counts.  The description, the unit, and the       *)
(* wording of the errors are left out.                                     *)
(*                                                                         *)
(* A CSV file is the sequence of its lines, each split at the commas; the  *)
(* items of a JSON array are functions from keys to texts, empty for what  *)
(* is no object.                                                           *)
(***************************************************************************)
EXTENDS ValueFormat, SequencesExt

CONSTANTS
    Ints,       \* the texts toInt() accepts, with what it returns
    Doubles     \* the texts toDouble() accepts

ASSUME ImportAssumption == /\ \A text \in DOMAIN Ints : Ints[text] \in Int
                           /\ "" \notin DOMAIN Ints \cup Doubles

BitTypes      == {"Coil", "DiscreteInput"}
RegisterTypes == BitTypes \cup {"HoldingRegister", "InputRegister"}
Required      == {"label", "registertype", "address"}

Tag(label, type, address, format, order) ==
    [label |-> label, type |-> type, address |-> address, format |-> format, byteOrder |-> order]

\* registerSpan()
RegisterSpan(tag) == IF tag.type \in BitTypes THEN 1 ELSE RegisterSpanFor(tag.format)

Result(tags, errors) == [tags |-> tags, errors |-> errors]

Field(fields, name) == IF name \in DOMAIN fields THEN fields[name] ELSE ""
Given(text, default) == IF text = "" THEN default ELSE text

\* parseTagRow(): one tag or one error.
IsTag(fields) ==
    LET field(name) == Field(fields, name)
    IN  /\ field("label") # ""
        /\ field("registertype") \in RegisterTypes
        /\ field("address") \in DOMAIN Ints /\ Ints[field("address")] >= 0
        /\ field("format") \in Formats \cup {""}
        /\ field("byteorder") \in ByteOrders \cup {""}
        /\ {field("scale"), field("offset")} \subseteq Doubles \cup {""}

TagOf(fields) ==
    Tag(fields["label"], fields["registertype"], Ints[fields["address"]],
        Given(Field(fields, "format"), "UnsignedDecimal"), Given(Field(fields, "byteorder"), "ABCD"))

\* The tags of the rows, in their order, and the places of the others.
ParseRows(rows) ==
    LET kept == SelectSeq(rows, IsTag)
    IN  Result([i \in DOMAIN kept |-> TagOf(kept[i])], {i \in DOMAIN rows : ~IsTag(rows[i])})

-----------------------------------------------------------------------------
(* CSV.                                                                    *)

IsBlank(line) == line = <<"">>

\* columnIndex: of two columns of one name, the last.
ColumnIndex(header) ==
    [name \in Range(header) |-> CHOOSE i \in DOMAIN header :
        header[i] = name /\ \A j \in i + 1 .. Len(header) : header[j] # name]

\* Bug: a short line is read on from its end.
LastCell(header, line) ==
    [name \in Range(header) |-> line[IF ColumnIndex(header)[name] <= Len(line)
                                     THEN ColumnIndex(header)[name] ELSE Len(line)]]

\* The cells a short line lacks are empty.
FieldsOf(header, line) ==
    [name \in Range(header) |->
        IF ColumnIndex(header)[name] <= Len(line) THEN line[ColumnIndex(header)[name]] ELSE ""]

\* CsvTagParser::parse(); error 0 is the file's.
ParseCsv(lines) ==
    IF lines = <<>> \/ ~(Required \subseteq Range(Head(lines))) THEN Result(<<>>, {0})
    ELSE LET numbers == SelectSeq([n \in DOMAIN lines |-> n],
                                  LAMBDA n : n > 1 /\ ~IsBlank(lines[n]))
             parsed  == ParseRows([i \in DOMAIN numbers |->
                                      FieldsOf(Head(lines), lines[numbers[i]])])
         IN  Result(parsed.tags, {numbers[i] : i \in parsed.errors})

\* JsonTagParser::parse()
ParseJson(items) == ParseRows(items)

\* importUsing(): what cannot be opened, or is no JSON array, is an error.
ParseFile(file) ==
    CASE file.kind = "csv"  -> ParseCsv(file.lines)
      [] file.kind = "json" -> ParseJson(file.items)
      [] OTHER              -> Result(<<>>, {0})
=============================================================================

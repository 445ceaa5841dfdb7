-------------------------- MODULE MC_FavoritesView --------------------------
(* Model values for Favorites mode: one table of registers, written as CSV *)
(* and as JSON files.  Its last tag lies beyond the device's addresses and *)
(* wraps to the first one's.                                               *)
EXTENDS FavoritesView

TheInts == ("7" :> 7) @@ ("9" :> 9) @@ ("-1" :> -1) @@ ("65543" :> 65543)
TheDoubles == {"7", "9", "-1", "65543", "0.1"}

Row(label, type, address, format, scale) ==
    [label |-> label, registertype |-> type, address |-> address, format |-> format,
     scale |-> scale]

Level   == Row("level", "HoldingRegister", "7", "Float32", "0.1")
Running == Row("running", "Coil", "7", "Float32", "")
Beyond  == Row("beyond", "HoldingRegister", "65543", "", "")
NoLabel == Row("", "Coil", "9", "", "")
NoPlace == Row("level", "HoldingRegister", "-1", "", "")
NoType  == Row("level", "9", "9", "Hex", "0.1")
NoScale == Row("level", "HoldingRegister", "9", "Hex", "Hex")

Tables == {<<NoLabel, Level, NoType>>, <<NoPlace, Beyond, NoScale, Running>>}

Orders == {<<"label", "registertype", "address", "format", "scale">>,
           <<"scale", "format", "address", "registertype", "label">>,
           <<"unit", "address", "label", "registertype", "scale", "format">>}

\* What a table is written as: without the commas that end a line, or with them.
Cells(row, order) == [i \in DOMAIN order |-> Field(row, order[i])]
Cut(cells) ==
    LET last == CHOOSE n \in 0 .. Len(cells) :
                    /\ n = 0 \/ cells[n] # ""
                    /\ \A i \in n + 1 .. Len(cells) : cells[i] = ""
    IN  SubSeq(cells, 1, last)

CsvFile(table, order, cuts, blank) ==
    [kind  |-> "csv",
     table |-> table,
     lines |-> <<order>> \o (IF blank THEN <<<<"">>>> ELSE <<>>) \o
               [i \in DOMAIN table |->
                   IF cuts THEN Cut(Cells(table[i], order)) ELSE Cells(table[i], order)]]

JsonFile(table) ==
    [kind  |-> "json",
     table |-> table,
     items |-> [i \in DOMAIN table |->
                   [name \in {n \in DOMAIN table[i] : table[i][n] # ""} |-> table[i][name]]]]

TheFiles ==
    {CsvFile(table, order, cuts, blank) : table \in Tables, order \in Orders, cuts \in BOOLEAN,
                                          blank \in BOOLEAN}
    \cup {JsonFile(table) : table \in Tables}
    \cup {[kind |-> "csv", table |-> <<>>, lines |-> <<<<"label", "address">>, <<"level", "7">>>>],
          [kind |-> "none", table |-> <<>>]}

TheAdHoc == {Place("InputRegister", 9)}
=============================================================================

----------------------- MODULE RegisterFilterProxyModel -----------------------
(***************************************************************************)
(* app-lib/models/RegisterFilterProxyModel between the register table and  *)
(* the list on the screen.  The list is a function from the rows the       *)
(* filter lets through to what their delegates show.  It learns of changes *)
(* only by the signals of the table: QSortFilterProxyModel, external,      *)
(* refilters the rows a dataChanged() names and hands their named roles    *)
(* on; after a reset it asks for everything again.                         *)
(*                                                                         *)
(* A filter text is a digit, or empty: the text of a row is its address,   *)
(* or the addresses of its two registers, in decimal.                      *)
(***************************************************************************)
EXTENDS RegisterTable

NoText == -1

\* QString::contains() of a digit.
HasDigit(n, digit) ==
    \E k \in 0 .. 4 : (n \div 10 ^ k) % 10 = digit /\ (k = 0 \/ n >= 10 ^ k)

\* Of the searchable roles the register table has the address alone.
FilterAcceptsRow(table, row, text) ==
    text = NoText \/ \E n \in AddressText(table, row) : HasDigit(n, text)

Accepted(table, text) == {row \in DOMAIN table.rows : FilterAcceptsRow(table, row, text)}

Delegate(table, row) == [address |-> AddressText(table, row), value |-> Shown(table, row)]

Rebuilt(table, text) == [row \in Accepted(table, text) |-> Delegate(table, row)]

\* A delegate that stays takes the named roles from the table and keeps the others.
Refreshed(delegate, table, row, roles) ==
    [address |-> IF "address" \in roles THEN AddressText(table, row) ELSE delegate.address,
     value   |-> IF "value" \in roles THEN Shown(table, row) ELSE delegate.value]

\* The rows are filtered again: some go, some come, those that stay are refreshed.
Refiltered(list, table, text, rows, roles) ==
    LET left == (DOMAIN list \ rows) \cup (rows \cap Accepted(table, text))
    IN  [row \in left |-> IF row \notin DOMAIN list THEN Delegate(table, row)
                          ELSE IF row \notin rows THEN list[row]
                          ELSE Refreshed(list[row], table, row, roles)]

\* What the list becomes when the table has changed and said so.
Follows(list, table, text, signal) ==
    IF signal = ModelReset THEN Rebuilt(table, text)
    ELSE Refiltered(list, table, text, signal.rows, signal.roles)

\* setFilterText(), invalidateFilter()
SetFilterText(list, table, text) == Refiltered(list, table, text, DOMAIN table.rows, {})

\* Bug: a row of the list is taken for a row of the table.
SameRow(list, k) == k

\* mapRowToSource(): the list keeps the order of the table.
MapRowToSource(list, k) ==
    CHOOSE row \in DOMAIN list : Cardinality({r \in DOMAIN list : r <= row}) = k
=============================================================================

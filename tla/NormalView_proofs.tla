------------------------- MODULE NormalView_proofs --------------------------
(***************************************************************************)
(* What Normal mode shows, for every set of types, ranges, formats and     *)
(* filters and any number of one-shot requests.                            *)
(***************************************************************************)
EXTENDS NormalView, ListLemmas, FiniteSetTheorems

-----------------------------------------------------------------------------
(* The rows of the table.                                                  *)

Row == [address : Nat, span : 1 .. 2]

\* The rows show the registers from the i-th to the last, each once and in order.
Tile(rows, start, i, count) ==
    /\ rows \in Seq(Row)
    /\ rows = <<>> <=> i > count
    /\ rows # <<>> => /\ rows[1].address = start + i - 1
                      /\ rows[Len(rows)].address + rows[Len(rows)].span = start + count
    /\ \A r \in 1 .. Len(rows) - 1 : rows[r + 1].address = rows[r].address + rows[r].span

LEMMA TileFacts ==
    ASSUME NEW rows, NEW start, NEW i, NEW count, Tile(rows, start, i, count)
    PROVE  /\ rows \in Seq(Row) /\ Len(rows) \in Nat /\ DOMAIN rows = 1 .. Len(rows)
           /\ \A q \in DOMAIN rows : rows[q].address \in Nat /\ rows[q].span \in 1 .. 2
           /\ rows # <<>> => 1 \in DOMAIN rows /\ Len(rows) \in DOMAIN rows
<1>1. rows \in Seq(Row)
  BY DEF Tile
<1>2. \A q \in DOMAIN rows : rows[q] \in Row
  BY <1>1
<1>3. \A row \in Row : row.address \in Nat /\ row.span \in 1 .. 2
  BY DEF Row
<1>. QED  BY <1>1, <1>2, <1>3

\* A row begins at its register and does not reach beyond the last.
LEMMA RowFits ==
    ASSUME NEW start \in Nat, NEW count \in Nat, NEW formats,
           \A a \in start .. start + count - 1 : formats[a] \in 1 .. 2,
           NEW i \in 1 .. count
    PROVE  LET row == RowAt(start, formats, count, i)
           IN  row \in Row /\ row.address = start + i - 1 /\ i + row.span <= count + 1
<1>1. formats[start + i - 1] \in 1 .. 2
  OBVIOUS
<1>2. start + i - 1 \in Nat
  OBVIOUS
<1>. QED  BY <1>1, <1>2 DEF RowAt, Row, CanFit, DefaultSpan

\* There are rows that go on from each register as rebuildLogicalRows() does.
LEMMA RowsExist ==
    ASSUME NEW start \in Nat, NEW count \in Nat, NEW formats,
           \A a \in start .. start + count - 1 : formats[a] \in 1 .. 2
    PROVE  \E g : g = [i \in 1 .. count + 2 |->
                          IF i > count THEN <<>>
                          ELSE <<RowAt(start, formats, count, i)>>
                                   \o g[i + RowAt(start, formats, count, i).span]]
<1>. DEFINE Span(i) == RowAt(start, formats, count, i).span
            From(i, next) == IF i > count THEN <<>> ELSE <<RowAt(start, formats, count, i)>> \o next
            GoesOn(g, n) == \A i \in count + 2 - n .. count + 2 : g[i] = From(i, g[i + Span(i)])
            S == {n \in Nat : n <= count + 1 => \E g : GoesOn(g, n)}
<1>1. \A i \in 1 .. count : Span(i) \in 1 .. 2 /\ i + Span(i) <= count + 1
  BY RowFits DEF Row
<1>. HIDE DEF Span
<1>2. 0 \in S
  <2>1. GoesOn([i \in {count + 2} |-> <<>>], 0)
    OBVIOUS
  <2>. QED  BY <2>1
<1>3. ASSUME NEW n \in S, n + 1 <= count + 1 PROVE \E g : GoesOn(g, n + 1)
  <2>1. PICK g : GoesOn(g, n)
    BY <1>3
  <2>. DEFINE k == count + 1 - n
              h == [i \in k .. count + 2 |-> IF i = k THEN From(k, g[k + Span(k)]) ELSE g[i]]
  <2>2. k \in 1 .. count + 1
    BY <1>3
  <2>3. h[k] = From(k, h[k + Span(k)])
    BY <1>1, <2>2
  <2>4. ASSUME NEW i \in k + 1 .. count + 2 PROVE h[i] = From(i, h[i + Span(i)])
    <3>1. h[i] = g[i] /\ g[i] = From(i, g[i + Span(i)])
      BY <1>3, <2>1
    <3>2. CASE i > count
      BY <3>1, <3>2
    <3>3. CASE i <= count
      <4>1. i \in 1 .. count
        BY <2>2, <3>3
      <4>2. i + Span(i) \in k + 1 .. count + 2
        BY <1>1, <2>2, <4>1
      <4>3. h[i + Span(i)] = g[i + Span(i)]
        BY <2>2, <4>2
      <4>. QED  BY <3>1, <4>3
    <3>. QED  BY <2>2, <3>2, <3>3
  <2>5. \A i \in count + 2 - (n + 1) .. count + 2 : i = k \/ i \in k + 1 .. count + 2
    BY <1>3
  <2>6. GoesOn(h, n + 1)
    <3>. HIDE DEF h, From
    <3>. QED  BY <2>3, <2>4, <2>5
  <2>. QED  BY <2>6
<1>4. \A n \in S : n + 1 \in S
  <2>. HIDE DEF GoesOn
  <2>. QED  BY <1>3
<1>5. S = Nat
  <2>. HIDE DEF GoesOn
  <2>. QED  BY <1>2, <1>4, Upwards
<1>6. PICK g : GoesOn(g, count + 1)
  <2>. HIDE DEF GoesOn
  <2>1. count + 1 \in S
    BY <1>5
  <2>. QED  BY <2>1
<1>. DEFINE f == [i \in 1 .. count + 2 |-> g[i]]
<1>7. ASSUME NEW i \in 1 .. count + 2 PROVE f[i] = From(i, f[i + Span(i)])
  <2>1. f[i] = From(i, g[i + Span(i)])
    BY <1>6
  <2>2. CASE i > count
    BY <2>1, <2>2
  <2>3. CASE i <= count
    <3>1. i \in 1 .. count /\ i + Span(i) \in 1 .. count + 2
      BY <1>1, <2>3
    <3>. QED  BY <2>1, <3>1
  <2>. QED  BY <2>2, <2>3
<1>8. f = [i \in 1 .. count + 2 |-> From(i, f[i + Span(i)])]
  <2>. HIDE DEF From
  <2>. QED  BY <1>7
<1>. QED  BY <1>8 DEF Span

LEMMA RowsGoOn ==
    ASSUME NEW start \in Nat, NEW count \in Nat, NEW formats,
           \A a \in start .. start + count - 1 : formats[a] \in 1 .. 2
    PROVE  RowsFrom(start, formats, count) =
               [i \in 1 .. count + 2 |->
                   IF i > count THEN <<>>
                   ELSE <<RowAt(start, formats, count, i)>>
                            \o RowsFrom(start, formats, count)[i + RowAt(start, formats, count, i).span]]
<1>. DEFINE Body(g) == [i \in 1 .. count + 2 |->
                            IF i > count THEN <<>>
                            ELSE <<RowAt(start, formats, count, i)>>
                                     \o g[i + RowAt(start, formats, count, i).span]]
            rows == RowsFrom(start, formats, count)
<1>1. \E g : g = Body(g)
  BY RowsExist, Zenon
<1>2. rows = CHOOSE g : g = Body(g)
  BY Zenon DEF RowsFrom
<1>. HIDE DEF Body, rows
<1>3. rows = Body(rows)
  BY <1>1, <1>2, Zenon
<1>. QED  BY <1>3 DEF Body, rows

\* One row in front of the others.
LEMMA TileGrows ==
    ASSUME NEW start \in Nat, NEW count \in Nat, NEW i \in 1 .. count, NEW row \in Row, NEW rows,
           row.address = start + i - 1, i + row.span <= count + 1, Tile(rows, start, i + row.span, count)
    PROVE  Tile(<<row>> \o rows, start, i, count)
<1>. DEFINE more == <<row>> \o rows
<1>1. rows \in Seq(Row) /\ Len(rows) \in Nat
  BY DEF Tile
<1>2. /\ more \in Seq(Row) /\ Len(more) = Len(rows) + 1 /\ more # <<>>
      /\ more[1] = row /\ \A r \in 1 .. Len(rows) : more[r + 1] = rows[r]
  BY <1>1
<1>. HIDE DEF more
<1>3. ASSUME NEW r \in 1 .. Len(more) - 1 PROVE more[r + 1].address = more[r].address + more[r].span
  <2>1. CASE r = 1
    <3>1. rows # <<>> /\ more[r + 1] = rows[1]
      BY <1>1, <1>2, <2>1
    <3>2. rows[1].address = start + (i + row.span) - 1
      BY <3>1 DEF Tile
    <3>3. row.address = start + i - 1 /\ row.span \in Nat
      BY DEF Row
    <3>4. more[r] = row
      BY <1>2, <2>1
    <3>. QED  BY <3>1, <3>2, <3>3, <3>4
  <2>2. CASE r > 1
    <3>1. more[r] = rows[r - 1] /\ more[r + 1] = rows[r] /\ r - 1 \in 1 .. Len(rows) - 1
      <4>1. r - 1 \in 1 .. Len(rows) /\ r \in 1 .. Len(rows)
        BY <1>1, <1>2, <2>2
      <4>2. more[(r - 1) + 1] = rows[r - 1] /\ more[r + 1] = rows[r]
        BY <1>2, <4>1
      <4>3. (r - 1) + 1 = r /\ r - 1 \in 1 .. Len(rows) - 1
        BY <1>1, <1>2, <2>2
      <4>. QED  BY <4>2, <4>3
    <3>2. rows[(r - 1) + 1].address = rows[r - 1].address + rows[r - 1].span /\ (r - 1) + 1 = r
      BY <3>1 DEF Tile
    <3>. QED  BY <3>1, <3>2
  <2>. QED  BY <1>1, <1>2, <2>1, <2>2
<1>4. more[Len(more)].address + more[Len(more)].span = start + count
  <2>1. CASE rows = <<>>
    <3>1. Len(more) = 1 /\ i + row.span > count
      BY <1>2, <2>1 DEF Tile
    <3>2. row.span \in 1 .. 2 /\ more[Len(more)] = row
      BY <1>2, <3>1 DEF Row
    <3>3. i + row.span = count + 1
      BY <3>1, <3>2
    <3>. QED  BY <3>2, <3>3
  <2>2. CASE rows # <<>>
    <3>1. more[Len(more)] = rows[Len(rows)]
      BY <1>1, <1>2, <2>2
    <3>. QED  BY <2>2, <3>1 DEF Tile
  <2>. QED  BY <2>1, <2>2
<1>. QED  BY <1>2, <1>3, <1>4 DEF Tile, more

\* The rows of registers show all of them.
LEMMA WordRowsTile ==
    ASSUME NEW start \in Nat, NEW count \in Nat, NEW formats,
           \A a \in start .. start + count - 1 : formats[a] \in 1 .. 2
    PROVE  Tile(WordRows(start, formats, count), start, 1, count)
<1>. DEFINE from == RowsFrom(start, formats, count)
            row(i) == RowAt(start, formats, count, i)
            S == {n \in Nat : \A i \in 1 .. count + 1 : i + n >= count + 1 => Tile(from[i], start, i, count)}
<1>1. ASSUME NEW i \in 1 .. count + 2
      PROVE  from[i] = IF i > count THEN <<>> ELSE <<row(i)>> \o from[i + row(i).span]
  <2>1. from = [k \in 1 .. count + 2 |->
                   IF k > count THEN <<>> ELSE <<row(k)>> \o from[k + row(k).span]]
    BY RowsGoOn
  <2>. HIDE DEF from, row
  <2>. QED  BY <2>1, Zenon
<1>2. \A i \in 1 .. count : row(i) \in Row /\ row(i).address = start + i - 1 /\ i + row(i).span <= count + 1
  BY RowFits
<1>. HIDE DEF from, row
<1>3. 0 \in S
  <2>1. from[count + 1] = <<>>
    <3>1. count + 1 \in 1 .. count + 2 /\ count + 1 > count
      OBVIOUS
    <3>. QED  BY <1>1, <3>1, Zenon
  <2>2. Tile(<<>>, start, count + 1, count)
    BY DEF Tile
  <2>. QED  BY <2>1, <2>2
<1>4. ASSUME NEW n \in S PROVE n + 1 \in S
  <2>. SUFFICES ASSUME NEW i \in 1 .. count + 1, i + n + 1 >= count + 1 PROVE Tile(from[i], start, i, count)
    OBVIOUS
  <2>1. CASE i = count + 1
    BY <1>3, <2>1
  <2>2. CASE i <= count
    <3>1. i \in 1 .. count /\ row(i).span \in 1 .. 2
      BY <1>2, <2>2 DEF Row
    <3>2. i + row(i).span \in 1 .. count + 1 /\ (i + row(i).span) + n >= count + 1
      BY <1>2, <3>1
    <3>3. Tile(from[i + row(i).span], start, i + row(i).span, count)
      BY <1>4, <3>2
    <3>4. from[i] = <<row(i)>> \o from[i + row(i).span]
      <4>1. i \in 1 .. count + 2 /\ ~(i > count)
        BY <3>1
      <4>. QED  BY <1>1, <4>1, Zenon
    <3>. QED  BY <1>2, <3>1, <3>3, <3>4, TileGrows
  <2>. QED  BY <2>1, <2>2
<1>5. count \in S
  <2>1. S = Nat
    BY <1>3, <1>4, Upwards
  <2>. QED  BY <2>1
<1>. QED  BY <1>5 DEF WordRows, from

LEMMA BitRowsTile ==
    ASSUME NEW start \in Nat, NEW count \in Nat
    PROVE  Tile(BitRows(start, count), start, 1, count)
<1>1. \A i \in 1 .. count : [address |-> start + i - 1, span |-> 1] \in Row
  BY DEF Row
<1>2. /\ BitRows(start, count) \in Seq(Row) /\ Len(BitRows(start, count)) = count
      /\ \A i \in 1 .. count : BitRows(start, count)[i] = [address |-> start + i - 1, span |-> 1]
  BY <1>1 DEF BitRows
<1>. QED  BY <1>2 DEF Tile

\* Rows that come later show later registers.
LEMMA RowsAscend ==
    ASSUME NEW start \in Nat, NEW count \in Nat, NEW rows, Tile(rows, start, 1, count),
           NEW r \in DOMAIN rows, NEW s \in DOMAIN rows, r < s
    PROVE  rows[r].address + rows[r].span <= rows[s].address
<1>. DEFINE S == {n \in Nat : \A q \in DOMAIN rows : r < q /\ q <= r + n =>
                                  rows[r].address + rows[r].span <= rows[q].address}
<1>1. /\ rows \in Seq(Row) /\ Len(rows) \in Nat /\ DOMAIN rows = 1 .. Len(rows)
      /\ \A q \in DOMAIN rows : rows[q].address \in Nat /\ rows[q].span \in 1 .. 2
  BY TileFacts
<1>2. 0 \in S
  BY <1>1
<1>3. ASSUME NEW n \in S PROVE n + 1 \in S
  <2>. SUFFICES ASSUME NEW q \in DOMAIN rows, r < q, q <= r + (n + 1)
                PROVE  rows[r].address + rows[r].span <= rows[q].address
    OBVIOUS
  <2>1. q - 1 \in 1 .. Len(rows) - 1 /\ q - 1 \in DOMAIN rows /\ (q - 1) + 1 = q
    BY <1>1
  <2>2. rows[q].address = rows[q - 1].address + rows[q - 1].span
    BY <2>1 DEF Tile
  <2>3. CASE q - 1 = r
    BY <2>2, <2>3, <1>1
  <2>4. CASE q - 1 > r
    <3>1. rows[r].address + rows[r].span <= rows[q - 1].address
      BY <1>1, <1>3, <2>1, <2>4
    <3>2. /\ rows[r].address \in Nat /\ rows[r].span \in Nat /\ rows[q].address \in Nat
          /\ rows[q - 1].address \in Nat /\ rows[q - 1].span \in 1 .. 2
      BY <1>1, <2>1
    <3>. QED  BY <2>2, <3>1, <3>2
  <2>. QED  BY <1>1, <2>1, <2>3, <2>4
<1>4. s - r \in S
  <2>1. S = Nat
    BY <1>2, <1>3, Upwards
  <2>. QED  BY <1>1, <2>1
<1>. QED  BY <1>1, <1>4

\* Every register is in one row and no other.
LEMMA OneRowTakes ==
    ASSUME NEW start \in Nat, NEW count \in Nat, NEW rows, Tile(rows, start, 1, count),
           NEW i \in 1 .. count
    PROVE  \E row \in DOMAIN rows : \A r \in DOMAIN rows : Takes(rows[r], start + i - 1) <=> r = row
<1>1. /\ rows \in Seq(Row) /\ Len(rows) \in Nat /\ DOMAIN rows = 1 .. Len(rows) /\ rows # <<>>
      /\ \A q \in DOMAIN rows : rows[q].address \in Nat /\ rows[q].span \in 1 .. 2
      /\ 1 \in DOMAIN rows
  <2>1. rows # <<>>
    BY DEF Tile
  <2>. QED  BY <2>1, TileFacts
<1>. DEFINE S == {r \in DOMAIN rows : rows[r].address <= start + i - 1}
<1>2. 1 \in S
  BY <1>1 DEF Tile
<1>3. PICK row \in S : \A r \in S : row >= r
  <2>1. S \in SUBSET (0 .. Len(rows)) /\ S # {}
    BY <1>1, <1>2
  <2>. QED  BY <1>1, <2>1, GreatestNumber
<1>4. Takes(rows[row], start + i - 1)
  <2>1. CASE row = Len(rows)
    BY <1>1, <1>3, <2>1 DEF Tile, Takes
  <2>2. CASE row # Len(rows)
    <3>1. row \in 1 .. Len(rows) - 1 /\ row + 1 \in DOMAIN rows /\ row + 1 \notin S
      BY <1>1, <1>3, <2>2
    <3>2. rows[row + 1].address = rows[row].address + rows[row].span
      BY <3>1 DEF Tile
    <3>. QED  BY <1>1, <1>3, <3>1, <3>2 DEF Takes
  <2>. QED  BY <2>1, <2>2
<1>5. ASSUME NEW r \in DOMAIN rows, Takes(rows[r], start + i - 1) PROVE r = row
  <2>1. CASE r < row
    <3>1. rows[r].address + rows[r].span <= rows[row].address
      BY <1>3, <2>1, RowsAscend
    <3>. QED  BY <1>1, <1>4, <1>5, <3>1 DEF Takes
  <2>2. CASE row < r
    <3>1. rows[row].address + rows[row].span <= rows[r].address
      BY <1>3, <2>2, RowsAscend
    <3>. QED  BY <1>1, <1>4, <1>5, <3>1 DEF Takes
  <2>. QED  BY <1>1, <1>3, <2>1, <2>2
<1>. QED  BY <1>4, <1>5

\* No row reaches beyond the registers.
LEMMA RowsWithin ==
    ASSUME NEW start \in Nat, NEW count \in Nat, NEW rows, Tile(rows, start, 1, count),
           NEW r \in DOMAIN rows
    PROVE  start <= rows[r].address /\ rows[r].address + rows[r].span <= start + count
<1>1. /\ rows \in Seq(Row) /\ Len(rows) \in Nat /\ DOMAIN rows = 1 .. Len(rows) /\ rows # <<>>
      /\ \A q \in DOMAIN rows : rows[q].address \in Nat /\ rows[q].span \in 1 .. 2
      /\ 1 \in DOMAIN rows /\ Len(rows) \in DOMAIN rows
  <2>1. Len(rows) \in Nat /\ DOMAIN rows = 1 .. Len(rows)
    BY TileFacts
  <2>2. rows # <<>>
    BY <2>1
  <2>. QED  BY <2>1, <2>2, TileFacts
<1>2. start <= rows[r].address
  <2>1. CASE r = 1
    BY <1>1, <2>1 DEF Tile
  <2>2. CASE 1 < r
    <3>1. rows[1].address + rows[1].span <= rows[r].address
      BY <1>1, <2>2, RowsAscend
    <3>. QED  BY <1>1, <3>1 DEF Tile
  <2>. QED  BY <1>1, <2>1, <2>2
<1>3. rows[r].address + rows[r].span <= start + count
  <2>1. CASE r = Len(rows)
    BY <1>1, <2>1 DEF Tile
  <2>2. CASE r < Len(rows)
    <3>1. rows[r].address + rows[r].span <= rows[Len(rows)].address
      BY <1>1, <2>2, RowsAscend
    <3>2. rows[Len(rows)].address + rows[Len(rows)].span = start + count
      BY <1>1 DEF Tile
    <3>3. /\ rows[r].address \in Nat /\ rows[r].span \in 1 .. 2
          /\ rows[Len(rows)].address \in Nat /\ rows[Len(rows)].span \in 1 .. 2
      BY <1>1
    <3>. QED  BY <3>1, <3>2, <3>3
  <2>. QED  BY <1>1, <2>1, <2>2
<1>. QED  BY <1>2, <1>3

-----------------------------------------------------------------------------
(* The table and what it shows.                                            *)

\* The rows of a table show all its registers, whatever its kind.
LEMMA LogicalRowsTile ==
    ASSUME NEW t \in Table, AreFrom(Cells(t), t.start, IsBitType(t.type))
    PROVE  Tile(LogicalRows(t), t.start, 1, Len(Cells(t)))
<1>1. /\ t.start \in Nat /\ t.words \in Seq(Cell) /\ t.bits \in Seq(Cell)
      /\ t.formats \in [Addresses -> 1 .. 2]
  BY DEF Table
<1>2. CASE IsBitType(t.type)
  BY <1>1, <1>2, BitRowsTile DEF LogicalRows, Cells
<1>3. CASE ~IsBitType(t.type)
  <2>1. \A a \in t.start .. t.start + Len(t.words) - 1 : t.formats[a] \in 1 .. 2
    <3>. TAKE a \in t.start .. t.start + Len(t.words) - 1
    <3>1. a - t.start + 1 \in DOMAIN t.words
      BY <1>1
    <3>2. t.words[a - t.start + 1].address = a /\ t.words[a - t.start + 1].address \in Addresses
      BY <1>1, <1>3, <3>1 DEF AreFrom, Cells
    <3>. QED  BY <1>1, <3>2
  <2>2. Len(t.words) \in Nat
    BY <1>1
  <2>3. Tile(WordRows(t.start, t.formats, Len(t.words)), t.start, 1, Len(t.words))
    BY <1>1, <2>1, <2>2, WordRowsTile
  <2>. QED  BY <1>3, <2>3 DEF LogicalRows, Cells
<1>. QED  BY <1>2, <1>3

LEMMA CellsType ==
    ASSUME NEW t \in Table
    PROVE  /\ Cells(t) \in Seq(Cell) /\ Len(Cells(t)) \in Nat /\ DOMAIN Cells(t) = 1 .. Len(Cells(t))
           /\ t.start \in Nat /\ t.rows \in Seq(Row)
  BY DEF Table, Cells, Row

\* m_rawIndexToRowIndex finds the row of each register.
LEMMA RowIndexFinds ==
    ASSUME NEW t \in Table, NEW rows, Tile(rows, t.start, 1, Len(Cells(t)))
    PROVE  /\ RowIndex(t, rows) \in Seq(Nat)
           /\ DOMAIN RowIndex(t, rows) = DOMAIN Cells(t)
           /\ \A i \in DOMAIN Cells(t) :
                 /\ RowIndex(t, rows)[i] \in DOMAIN rows
                 /\ \A r \in DOMAIN rows : Takes(rows[r], t.start + i - 1) <=> r = RowIndex(t, rows)[i]
<1>1. /\ Len(Cells(t)) \in Nat /\ DOMAIN Cells(t) = 1 .. Len(Cells(t)) /\ t.start \in Nat
  BY CellsType
<1>2. \A i \in DOMAIN Cells(t) : RowIndex(t, rows)[i] = CHOOSE r \in DOMAIN rows : Takes(rows[r], t.start + i - 1)
  BY DEF RowIndex
<1>3. ASSUME NEW i \in DOMAIN Cells(t)
      PROVE  /\ RowIndex(t, rows)[i] \in DOMAIN rows
             /\ \A r \in DOMAIN rows : Takes(rows[r], t.start + i - 1) <=> r = RowIndex(t, rows)[i]
  <2>1. PICK row \in DOMAIN rows : \A r \in DOMAIN rows : Takes(rows[r], t.start + i - 1) <=> r = row
    <3>. DEFINE count == Len(Cells(t))
                start == t.start
    <3>1. start \in Nat /\ count \in Nat /\ i \in 1 .. count /\ Tile(rows, start, 1, count)
      BY <1>1
    <3>. HIDE DEF count, start
    <3>2. \E row \in DOMAIN rows : \A r \in DOMAIN rows : Takes(rows[r], start + i - 1) <=> r = row
      BY <3>1, OneRowTakes
    <3>. QED  BY <3>2 DEF start
  <2>2. (CHOOSE r \in DOMAIN rows : Takes(rows[r], t.start + i - 1)) = row
    BY <2>1
  <2>. QED  BY <1>2, <2>1, <2>2
<1>4. DOMAIN rows \subseteq Nat
  BY TileFacts
<1>5. RowIndex(t, rows) \in [1 .. Len(Cells(t)) -> Nat]
  BY <1>1, <1>3, <1>4 DEF RowIndex
<1>. QED  BY <1>1, <1>3, <1>5

\* What rebuildLogicalRows() makes of a table, and what it leaves alone.
LEMMA RebuiltTable ==
    ASSUME NEW t \in Table, AreFrom(Cells(t), t.start, IsBitType(t.type))
    PROVE  LET u == RebuildLogicalRows(t)
           IN  /\ u \in Table /\ IsBuilt(u)
               /\ u.type = t.type /\ u.convention = t.convention /\ u.formats = t.formats
               /\ u.start = t.start /\ u.words = t.words /\ u.bits = t.bits
<1>. DEFINE rows == LogicalRows(t)
            index == RowIndex(t, rows)
            u == RebuildLogicalRows(t)
<1>1. Tile(rows, t.start, 1, Len(Cells(t)))
  BY LogicalRowsTile
<1>2. rows \in Seq(Row) /\ index \in Seq(Nat)
  BY <1>1, TileFacts, RowIndexFinds
<1>3. u = [t EXCEPT !.rows = rows, !.rowOf = index]
  BY DEF RebuildLogicalRows
<1>. HIDE DEF rows, index, u
<1>4. /\ u \in Table
      /\ u.type = t.type /\ u.convention = t.convention /\ u.formats = t.formats
      /\ u.start = t.start /\ u.words = t.words /\ u.bits = t.bits
      /\ u.rows = rows /\ u.rowOf = index
  BY <1>2, <1>3 DEF Table, Row
<1>5. Cells(u) = Cells(t) /\ LogicalRows(u) = rows
  BY <1>4 DEF Cells, LogicalRows, rows
<1>6. RowIndex(u, rows) = index
  BY <1>4, <1>5 DEF RowIndex, index
<1>. QED  BY <1>4, <1>5, <1>6 DEF IsBuilt, u

\* The table's rows, and what each of them shows.
LEMMA TableFacts ==
    ASSUME NEW t \in Table, IsBuilt(t)
    PROVE  /\ Tile(t.rows, t.start, 1, Len(Cells(t)))
           /\ DOMAIN t.rowOf = DOMAIN Cells(t)
           /\ \A i \in DOMAIN Cells(t) :
                 /\ t.rowOf[i] \in DOMAIN t.rows
                 /\ \A r \in DOMAIN t.rows : Takes(t.rows[r], t.start + i - 1) <=> r = t.rowOf[i]
<1>1. Tile(t.rows, t.start, 1, Len(Cells(t)))
  BY LogicalRowsTile DEF IsBuilt
<1>. QED  BY <1>1, RowIndexFinds DEF IsBuilt

LEMMA ShownFacts ==
    ASSUME NEW t \in Table, IsBuilt(t), NEW row \in DOMAIN t.rows
    PROVE  LET first == t.rows[row].address - t.start + 1
               span  == t.rows[row].span
           IN  /\ first \in 1 .. Len(Cells(t)) /\ first + span - 1 \in 1 .. Len(Cells(t))
               /\ Shown(t, row) = SubSeq(Cells(t), first, first + span - 1)
               /\ Shown(t, row) \in Seq(Cell) /\ Len(Shown(t, row)) = span /\ span \in 1 .. 2
               /\ \A k \in 1 .. span : Shown(t, row)[k] = Cells(t)[first + k - 1]
               /\ t.rows[row].address \in Nat
<1>. DEFINE first == t.rows[row].address - t.start + 1
            span  == t.rows[row].span
<1>1. /\ Cells(t) \in Seq(Cell) /\ Len(Cells(t)) \in Nat /\ t.start \in Nat
      /\ Tile(t.rows, t.start, 1, Len(Cells(t)))
  BY CellsType, TableFacts
<1>2. t.rows[row].address \in Nat /\ span \in 1 .. 2
  BY <1>1, TileFacts
<1>3. t.start <= t.rows[row].address /\ t.rows[row].address + span <= t.start + Len(Cells(t))
  BY <1>1, RowsWithin
<1>4. first \in 1 .. Len(Cells(t)) /\ first + span - 1 \in 1 .. Len(Cells(t))
  BY <1>1, <1>2, <1>3
<1>5. Min({first + span - 1, Len(Cells(t))}) = first + span - 1
  BY <1>1, <1>4, MinOfTwo
<1>6. Shown(t, row) = SubSeq(Cells(t), first, first + span - 1)
  BY <1>5 DEF Shown
<1>. HIDE DEF first, span
<1>7. /\ SubSeq(Cells(t), first, first + span - 1) \in Seq(Cell)
      /\ Len(SubSeq(Cells(t), first, first + span - 1)) = span
      /\ \A k \in 1 .. span : SubSeq(Cells(t), first, first + span - 1)[k] = Cells(t)[first + k - 1]
  BY <1>1, <1>2, <1>4
<1>. QED  BY <1>2, <1>4, <1>6, <1>7 DEF first, span

-----------------------------------------------------------------------------
(* The list.                                                               *)

\* A change of the table that is told for the rows R and the roles it touches, or a
\* new filter text that is told for all rows, leaves the list as if it were built anew.
LEMMA RefilteredIsCurrent ==
    ASSUME NEW t, NEW u, NEW old, NEW text, NEW R, NEW roles,
           DOMAIN u.rows = DOMAIN t.rows,
           old = text \/ DOMAIN t.rows \subseteq R,
           \A row \in DOMAIN t.rows : row \notin R \/ "address" \notin roles =>
               AddressText(u, row) = AddressText(t, row),
           \A row \in DOMAIN t.rows : row \notin R \/ "value" \notin roles =>
               Shown(u, row) = Shown(t, row)
    PROVE  Refiltered(Rebuilt(t, old), u, text, R, roles) = Rebuilt(u, text)
<1>. DEFINE list0 == Rebuilt(t, old)
            left  == (DOMAIN list0 \ R) \cup (R \cap Accepted(u, text))
            New(row) == IF row \notin DOMAIN list0 THEN Delegate(u, row)
                        ELSE IF row \notin R THEN list0[row]
                        ELSE Refreshed(list0[row], u, row, roles)
<1>1. DOMAIN list0 = Accepted(t, old) /\ \A row \in Accepted(t, old) : list0[row] = Delegate(t, row)
  BY DEF Rebuilt
<1>2. Accepted(t, old) \subseteq DOMAIN t.rows /\ Accepted(u, text) \subseteq DOMAIN t.rows
  BY DEF Accepted
<1>3. ASSUME NEW row \in DOMAIN t.rows, row \notin R
      PROVE  (row \in Accepted(u, text) <=> row \in Accepted(t, old)) /\ Delegate(u, row) = Delegate(t, row)
  <2>1. AddressText(u, row) = AddressText(t, row) /\ Shown(u, row) = Shown(t, row) /\ old = text
    BY <1>3
  <2>2. FilterAcceptsRow(u, row, text) <=> FilterAcceptsRow(t, row, old)
    BY <2>1 DEF FilterAcceptsRow
  <2>. QED  BY <2>1, <2>2, <1>3 DEF Accepted, Delegate
<1>4. left = Accepted(u, text)
  BY <1>1, <1>2, <1>3
<1>5. ASSUME NEW row \in Accepted(u, text) PROVE New(row) = Delegate(u, row)
  <2>1. CASE row \notin DOMAIN list0
    BY <2>1
  <2>2. CASE row \in DOMAIN list0 /\ row \notin R
    <3>1. list0[row] = Delegate(t, row) /\ Delegate(u, row) = Delegate(t, row)
      BY <1>1, <1>2, <1>3, <2>2
    <3>. QED  BY <2>2, <3>1
  <2>3. CASE row \in DOMAIN list0 /\ row \in R
    <3>1. list0[row].address = AddressText(t, row) /\ list0[row].value = Shown(t, row)
      BY <1>1, <2>3 DEF Delegate
    <3>2. "address" \notin roles => AddressText(u, row) = AddressText(t, row)
      BY <1>2
    <3>3. "value" \notin roles => Shown(u, row) = Shown(t, row)
      BY <1>2
    <3>4. Refreshed(list0[row], u, row, roles) = Delegate(u, row)
      BY <3>1, <3>2, <3>3 DEF Refreshed, Delegate
    <3>. QED  BY <2>3, <3>4
  <2>. QED  BY <2>1, <2>2, <2>3
<1>6. Refiltered(list0, u, text, R, roles) = [row \in left |-> New(row)]
  BY DEF Refiltered
<1>7. Rebuilt(u, text) = [row \in Accepted(u, text) |-> Delegate(u, row)]
  BY DEF Rebuilt
<1>. HIDE DEF left, New, list0
<1>8. [row \in left |-> New(row)] = [row \in Accepted(u, text) |-> Delegate(u, row)]
  BY <1>4, <1>5
<1>. QED  BY <1>6, <1>7, <1>8 DEF list0

\* A result of an operation that leaves the kind and the formats of the table alone, and
\* tells the list of all that has changed.
Told(t, result) ==
    /\ result.table \in Table /\ IsBuilt(result.table)
    /\ result.table.type = t.type /\ result.table.convention = t.convention
    /\ result.table.formats = t.formats
    /\ \A text : Follows(Rebuilt(t, text), result.table, text, result.signal) = Rebuilt(result.table, text)

\* After a reset everything is asked for again.
LEMMA ResetIsTold ==
    ASSUME NEW t \in Table, AreFrom(Cells(t), t.start, IsBitType(t.type))
    PROVE  Told(t, Reset(t))
<1>1. Reset(t).table = RebuildLogicalRows(t) /\ Reset(t).signal = ModelReset
  BY DEF Reset
<1>2. \A list0, u, text : Follows(list0, u, text, ModelReset) = Rebuilt(u, text)
  BY DEF Follows
<1>. QED  BY <1>1, <1>2, RebuiltTable DEF Told

LEMMA NotReset ==
    ASSUME NEW R, NEW role, role \in {"address", "value"}
    PROVE  DataChanged(R, {role}) # ModelReset /\ Silence # ModelReset
<1>1. {role} # {"address", "value"} /\ {} # {"address", "value"}
  OBVIOUS
<1>2. DataChanged(R, {role}).roles = {role} /\ DataChanged({}, {}).roles = {}
  BY DEF DataChanged
<1>3. ModelReset.roles = {"address", "value"}
  BY DEF ModelReset
<1>. QED  BY <1>1, <1>2, <1>3 DEF Silence

\* Lists of registers that do not differ are the same.
LEMMA NoneChanged ==
    ASSUME NEW old \in Seq(Cell), NEW new \in Seq(Cell), Len(old) = Len(new), Changed(old, new) = {}
    PROVE  old = new
<1>1. DOMAIN old = DOMAIN new /\ \A i \in DOMAIN new : new[i] = old[i]
  BY DEF Changed
<1>. QED  BY <1>1

\* An update in place touches the rows from that of the first changed register to that
\* of the last.
LEMMA InPlaceIsTold ==
    ASSUME NEW t \in Table, IsBuilt(t), NEW u \in Table, NEW first \in Nat, NEW last \in Nat,
           u.type = t.type, u.convention = t.convention, u.formats = t.formats, u.start = t.start,
           u.rows = t.rows, u.rowOf = t.rowOf, Len(Cells(u)) = Len(Cells(t)),
           AreFrom(Cells(u), u.start, IsBitType(u.type)),
           LET changed == Changed(Cells(t), Cells(u))
           IN  \A i \in changed : first <= t.rowOf[i] /\ t.rowOf[i] <= last
    PROVE  Told(t, [table |-> u, signal |-> DataChanged(first .. last, {"value"})])
<1>1. LogicalRows(u) = LogicalRows(t)
  BY CellsType DEF LogicalRows, Cells
<1>2. DOMAIN Cells(u) = DOMAIN Cells(t)
  BY CellsType
<1>3. IsBuilt(u)
  BY <1>1, <1>2 DEF IsBuilt, RowIndex
<1>4. ASSUME NEW row \in DOMAIN t.rows, row \notin first .. last PROVE Shown(u, row) = Shown(t, row)
  <2>. DEFINE from == t.rows[row].address - t.start + 1
              span == t.rows[row].span
              count == Len(Cells(t))
  <2>1. /\ from \in 1 .. count /\ from + span - 1 \in 1 .. count /\ span \in 1 .. 2
        /\ Shown(t, row) = SubSeq(Cells(t), from, from + span - 1)
        /\ Shown(t, row) \in Seq(Cell) /\ Len(Shown(t, row)) = span
        /\ \A k \in 1 .. span : Shown(t, row)[k] = Cells(t)[from + k - 1]
        /\ t.rows[row].address \in Nat
    BY ShownFacts
  <2>2. /\ Shown(u, row) \in Seq(Cell) /\ Len(Shown(u, row)) = span
        /\ \A k \in 1 .. span : Shown(u, row)[k] = Cells(u)[from + k - 1]
    <3>1. row \in DOMAIN u.rows
      OBVIOUS
    <3>2. LET ufrom == u.rows[row].address - u.start + 1
              uspan == u.rows[row].span
          IN  /\ Shown(u, row) \in Seq(Cell) /\ Len(Shown(u, row)) = uspan
              /\ \A k \in 1 .. uspan : Shown(u, row)[k] = Cells(u)[ufrom + k - 1]
      BY <1>3, <3>1, ShownFacts
    <3>. QED  BY <3>2
  <2>3. row \in Nat /\ t.start \in Nat /\ count \in Nat /\ DOMAIN Cells(t) = 1 .. count
    BY CellsType
  <2>4. ASSUME NEW k \in 1 .. span PROVE Cells(u)[from + k - 1] = Cells(t)[from + k - 1]
    <3>. DEFINE i == from + k - 1
    <3>1. /\ t.rows[row].address \in Nat /\ t.start \in Nat /\ span \in 1 .. 2 /\ k \in 1 .. span
          /\ count \in Nat /\ from \in 1 .. count /\ from + span - 1 \in 1 .. count
      BY <2>1, <2>3
    <3>2. i \in 1 .. count
      <4>. HIDE DEF from, span, count
      <4>. QED  BY <3>1
    <3>3. t.start + i - 1 \in t.rows[row].address .. t.rows[row].address + span - 1
      <4>. DEFINE a == t.rows[row].address
                  s == t.start
      <4>1. a \in Nat /\ s \in Nat /\ span \in 1 .. 2 /\ i = (a - s + 1) + k - 1
        BY <3>1
      <4>. HIDE DEF span, a, s, i
      <4>2. s + i - 1 \in a .. a + span - 1
        BY <4>1
      <4>. QED  BY <4>2 DEF a, s
    <3>4. i \in DOMAIN Cells(t) /\ Takes(t.rows[row], t.start + i - 1)
      BY <2>3, <3>2, <3>3 DEF Takes
    <3>5. t.rowOf[i] = row
      <4>. HIDE DEF i
      <4>. QED  BY <3>4, TableFacts
    <3>6. i \notin Changed(Cells(t), Cells(u))
      <4>. HIDE DEF i
      <4>. QED  BY <1>4, <2>3, <3>5
    <3>7. Cells(u)[i] = Cells(t)[i]
      <4>. HIDE DEF i
      <4>. QED  BY <1>2, <3>4, <3>6 DEF Changed
    <3>. QED  BY <3>7
  <2>. HIDE DEF from, span, count
  <2>5. DOMAIN Shown(u, row) = 1 .. span /\ DOMAIN Shown(t, row) = 1 .. span
    BY <2>1, <2>2
  <2>6. \A k \in 1 .. span : Shown(u, row)[k] = Shown(t, row)[k]
    BY <2>1, <2>2, <2>4
  <2>. QED  BY <2>1, <2>2, <2>5, <2>6
<1>5. \A row \in DOMAIN t.rows : AddressText(u, row) = AddressText(t, row)
  BY DEF AddressText
<1>6. ASSUME NEW text
      PROVE  Follows(Rebuilt(t, text), u, text, DataChanged(first .. last, {"value"})) = Rebuilt(u, text)
  <2>1. Refiltered(Rebuilt(t, text), u, text, first .. last, {"value"}) = Rebuilt(u, text)
    BY <1>4, <1>5, RefilteredIsCurrent
  <2>2. DataChanged(first .. last, {"value"}).rows = first .. last
        /\ DataChanged(first .. last, {"value"}).roles = {"value"}
    BY DEF DataChanged
  <2>. QED  BY <2>1, <2>2, NotReset DEF Follows
<1>. QED  BY <1>3, <1>6 DEF Told

\* An operation that changes nothing the list shows need tell it nothing.
LEMMA SilenceIsTold ==
    ASSUME NEW t \in Table, IsBuilt(t), NEW u \in Table,
           u.type = t.type, u.convention = t.convention, u.formats = t.formats, u.start = t.start,
           u.rows = t.rows, u.rowOf = t.rowOf, u.words = t.words, u.bits = t.bits
    PROVE  Told(t, [table |-> u, signal |-> Silence])
<1>1. Cells(u) = Cells(t) /\ LogicalRows(u) = LogicalRows(t)
  BY DEF LogicalRows, Cells
<1>2. IsBuilt(u)
  BY <1>1 DEF IsBuilt, RowIndex
<1>3. \A row \in DOMAIN t.rows : AddressText(u, row) = AddressText(t, row) /\ Shown(u, row) = Shown(t, row)
  BY <1>1 DEF AddressText, Shown
<1>4. ASSUME NEW text PROVE Follows(Rebuilt(t, text), u, text, Silence) = Rebuilt(u, text)
  <2>1. Refiltered(Rebuilt(t, text), u, text, {}, {}) = Rebuilt(u, text)
    BY <1>3, RefilteredIsCurrent
  <2>2. Silence.rows = {} /\ Silence.roles = {} /\ Silence # ModelReset
    BY NotReset DEF Silence, DataChanged
  <2>. QED  BY <2>1, <2>2 DEF Follows
<1>. QED  BY <1>2, <1>4 DEF Told

-----------------------------------------------------------------------------
(* The operations of the table.                                            *)

\* The rows of later registers come later.
LEMMA RowOfAscends ==
    ASSUME NEW t \in Table, IsBuilt(t), NEW i \in DOMAIN Cells(t), NEW j \in DOMAIN Cells(t), i <= j
    PROVE  t.rowOf[i] \in Nat /\ t.rowOf[i] <= t.rowOf[j]
<1>. DEFINE count == Len(Cells(t))
            start == t.start
            rows  == t.rows
            r == t.rowOf[i]
            s == t.rowOf[j]
<1>1. /\ start \in Nat /\ count \in Nat /\ i \in 1 .. count /\ j \in 1 .. count
      /\ Tile(rows, start, 1, count) /\ r \in DOMAIN rows /\ s \in DOMAIN rows
      /\ Takes(rows[r], start + i - 1) /\ Takes(rows[s], start + j - 1)
  BY CellsType, TableFacts
<1>. HIDE DEF count, start, rows, r, s
<1>2. /\ r \in Nat /\ s \in Nat
      /\ rows[r].address \in Nat /\ rows[r].span \in 1 .. 2 /\ rows[s].address \in Nat /\ rows[s].span \in 1 .. 2
  <2>1. DOMAIN rows = 1 .. Len(rows) /\ Len(rows) \in Nat
    BY <1>1, TileFacts
  <2>. QED  BY <1>1, <2>1, TileFacts
<1>3. ASSUME s < r PROVE FALSE
  <2>1. rows[s].address + rows[s].span <= rows[r].address
    BY <1>1, <1>3, RowsAscend
  <2>2. rows[r].address <= start + i - 1 /\ start + j - 1 < rows[s].address + rows[s].span
    BY <1>1, <1>2 DEF Takes
  <2>. QED  BY <1>1, <1>2, <2>1, <2>2
<1>4. r <= s
  BY <1>2, <1>3
<1>. QED  BY <1>2, <1>4 DEF r, s

\* The registers that have changed are between the first and the last of them.
LEMMA ChangedBetween ==
    ASSUME NEW old \in Seq(Cell), NEW new \in Seq(Cell), Len(old) = Len(new), Changed(old, new) # {}
    PROVE  LET changed == Changed(old, new)
           IN  /\ Min(changed) \in DOMAIN old /\ Max(changed) \in DOMAIN old
               /\ \A i \in changed : i \in DOMAIN old /\ Min(changed) <= i /\ i <= Max(changed)
<1>. DEFINE changed == Changed(old, new)
<1>1. changed \subseteq DOMAIN old /\ DOMAIN old = 1 .. Len(old) /\ Len(old) \in Nat
  BY DEF Changed
<1>. HIDE DEF changed
<1>2. changed \in SUBSET Nat /\ changed \in SUBSET (0 .. Len(old))
  BY <1>1
<1>3. changed # {}
  BY DEF changed
<1>4. Min(changed) \in changed /\ \A y \in changed : Min(changed) <= y
  BY <1>2, <1>3, MinOfIndices
<1>5. Max(changed) \in changed /\ \A y \in changed : Max(changed) >= y
  BY <1>1, <1>2, <1>3, MaxOfIndices
<1>6. \A i \in changed : i <= Max(changed)
  BY <1>1, <1>5
<1>. QED  BY <1>1, <1>4, <1>5, <1>6 DEF changed

\* The row of a bit is its place.
LEMMA RowOfBit ==
    ASSUME NEW t \in Table, IsBuilt(t), IsBitType(t.type), NEW i \in DOMAIN Cells(t)
    PROVE  t.rowOf[i] = i
<1>1. Cells(t) = t.bits /\ t.rows = BitRows(t.start, Len(t.bits)) /\ t.start \in Nat
  BY DEF Cells, IsBuilt, LogicalRows, Table
<1>2. i \in 1 .. Len(t.bits) /\ Len(t.bits) \in Nat
  BY <1>1, CellsType
<1>3. i \in DOMAIN t.rows /\ t.rows[i] = [address |-> t.start + i - 1, span |-> 1]
  BY <1>1, <1>2 DEF BitRows
<1>4. Takes(t.rows[i], t.start + i - 1)
  BY <1>1, <1>2, <1>3 DEF Takes
<1>. QED  BY <1>3, <1>4, TableFacts

\* After a reset it does not matter what the list showed before.
LEMMA ResetForgets ==
    ASSUME NEW t, NEW v, Told(v, Reset(v)),
           v.type = t.type, v.convention = t.convention, v.formats = t.formats
    PROVE  Told(t, Reset(v))
<1>1. Reset(v).signal = ModelReset
  BY DEF Reset
<1>2. \A list0, u, text : Follows(list0, u, text, ModelReset) = Rebuilt(u, text)
  BY DEF Follows
<1>. QED  BY <1>1, <1>2 DEF Told

\* What an answer with registers finds: a table of registers, or one of bits that is empty.
LEMMA SetRegistersIsTold ==
    ASSUME NEW t \in Table, IsBuilt(t), NEW start \in Nat, NEW words \in Seq(Cell),
           words # <<>>, AreFrom(words, start, FALSE),
           IsBitType(t.type) => t.words = <<>> /\ t.bits = <<>>
    PROVE  Told(t, SetRegisters(t, start, words))
<1>. DEFINE fresh == [t EXCEPT !.stale = FALSE]
            u == [fresh EXCEPT !.words = words]
            v == [fresh EXCEPT !.start = start, !.words = words]
            changed == Changed(t.words, words)
<1>1. t.words \in Seq(Cell)
  BY DEF Table
<1>2. CASE t.start = start /\ Len(t.words) = Len(words)
  <2>1. ~IsBitType(t.type)
    BY <1>1, <1>2
  <2>2. /\ u \in Table /\ u.type = t.type /\ u.convention = t.convention /\ u.formats = t.formats
        /\ u.start = t.start /\ u.rows = t.rows /\ u.rowOf = t.rowOf /\ u.bits = t.bits /\ u.words = words
    BY DEF Table
  <2>3. SetRegisters(t, start, words) =
            [table |-> u, signal |-> IF changed = {} THEN Silence
                                     ELSE DataChanged(RowsOf(t, changed), {"value"})]
    BY <1>2 DEF SetRegisters
  <2>. HIDE DEF u
  <2>4. Cells(t) = t.words /\ Cells(u) = words /\ Len(Cells(u)) = Len(Cells(t))
    BY <1>2, <2>1, <2>2 DEF Cells
  <2>5. AreFrom(Cells(u), u.start, IsBitType(u.type))
    BY <1>2, <2>1, <2>2, <2>4 DEF AreFrom
  <2>6. CASE changed = {}
    <3>1. t.words = words
      BY <1>1, <1>2, <2>6, NoneChanged
    <3>. QED  BY <2>2, <2>3, <2>6, <3>1, SilenceIsTold
  <2>7. CASE changed # {}
    <3>. DEFINE first == t.rowOf[Min(changed)]
                last == t.rowOf[Max(changed)]
    <3>1. /\ Min(changed) \in DOMAIN t.words /\ Max(changed) \in DOMAIN t.words
          /\ \A i \in changed : i \in DOMAIN t.words /\ Min(changed) <= i /\ i <= Max(changed)
      BY <1>1, <1>2, <2>7, ChangedBetween
    <3>. HIDE DEF changed
    <3>2. first \in Nat /\ last \in Nat
      <4>1. DOMAIN t.words = 1 .. Len(t.words) /\ Len(t.words) \in Nat
        BY <1>1
      <4>2. Min(changed) <= Min(changed) /\ Max(changed) <= Max(changed)
        BY <3>1, <4>1
      <4>. QED  BY <2>4, <3>1, <4>2, RowOfAscends
    <3>3. \A i \in changed : first <= t.rowOf[i] /\ t.rowOf[i] <= last
      BY <2>4, <3>1, RowOfAscends
    <3>4. SetRegisters(t, start, words) = [table |-> u, signal |-> DataChanged(first .. last, {"value"})]
      BY <2>3, <2>7 DEF RowsOf
    <3>. HIDE DEF first, last
    <3>5. \A i \in Changed(Cells(t), Cells(u)) : first <= t.rowOf[i] /\ t.rowOf[i] <= last
      BY <2>4, <3>3 DEF changed
    <3>. QED  BY <2>2, <2>4, <2>5, <3>2, <3>4, <3>5, InPlaceIsTold
  <2>. QED  BY <2>6, <2>7
<1>3. CASE ~(t.start = start /\ Len(t.words) = Len(words))
  <2>1. /\ v \in Table /\ v.type = t.type /\ v.convention = t.convention /\ v.formats = t.formats
        /\ v.start = start /\ v.words = words /\ v.bits = t.bits
    BY DEF Table
  <2>2. SetRegisters(t, start, words) = Reset(v)
    BY <1>3 DEF SetRegisters
  <2>. HIDE DEF v
  <2>3. AreFrom(Cells(v), v.start, IsBitType(v.type))
    <3>1. CASE IsBitType(t.type)
      BY <2>1, <3>1 DEF Cells, AreFrom
    <3>2. CASE ~IsBitType(t.type)
      BY <2>1, <3>2 DEF Cells, AreFrom
    <3>. QED  BY <3>1, <3>2
  <2>4. Told(v, Reset(v))
    BY <2>1, <2>3, ResetIsTold
  <2>. QED  BY <2>1, <2>2, <2>4, ResetForgets
<1>. QED  BY <1>2, <1>3

\* The same of an answer with bits.
LEMMA SetBitsIsTold ==
    ASSUME NEW t \in Table, IsBuilt(t), NEW start \in Nat, NEW bits \in Seq(Cell),
           bits # <<>>, AreFrom(bits, start, TRUE),
           ~IsBitType(t.type) => t.words = <<>> /\ t.bits = <<>>
    PROVE  Told(t, SetBits(t, start, bits))
<1>. DEFINE fresh == [t EXCEPT !.stale = FALSE]
            u == [fresh EXCEPT !.bits = bits]
            v == [fresh EXCEPT !.start = start, !.bits = bits]
            changed == Changed(t.bits, bits)
<1>1. t.bits \in Seq(Cell)
  BY DEF Table
<1>2. CASE t.start = start /\ Len(t.bits) = Len(bits)
  <2>1. IsBitType(t.type)
    BY <1>1, <1>2
  <2>2. /\ u \in Table /\ u.type = t.type /\ u.convention = t.convention /\ u.formats = t.formats
        /\ u.start = t.start /\ u.rows = t.rows /\ u.rowOf = t.rowOf /\ u.words = t.words /\ u.bits = bits
    BY DEF Table
  <2>3. SetBits(t, start, bits) =
            [table |-> u, signal |-> IF changed = {} THEN Silence
                                     ELSE DataChanged(Min(changed) .. Max(changed), {"value"})]
    BY <1>2 DEF SetBits
  <2>. HIDE DEF u
  <2>4. Cells(t) = t.bits /\ Cells(u) = bits /\ Len(Cells(u)) = Len(Cells(t))
    BY <1>2, <2>1, <2>2 DEF Cells
  <2>5. AreFrom(Cells(u), u.start, IsBitType(u.type))
    BY <1>2, <2>1, <2>2, <2>4 DEF AreFrom
  <2>6. CASE changed = {}
    <3>1. t.bits = bits
      BY <1>1, <1>2, <2>6, NoneChanged
    <3>. QED  BY <2>2, <2>3, <2>6, <3>1, SilenceIsTold
  <2>7. CASE changed # {}
    <3>. DEFINE first == Min(changed)
                last == Max(changed)
    <3>1. /\ first \in DOMAIN t.bits /\ last \in DOMAIN t.bits
          /\ \A i \in changed : i \in DOMAIN t.bits /\ first <= i /\ i <= last
      BY <1>1, <1>2, <2>7, ChangedBetween
    <3>. HIDE DEF changed
    <3>2. first \in Nat /\ last \in Nat
      <4>1. DOMAIN t.bits = 1 .. Len(t.bits) /\ Len(t.bits) \in Nat
        BY <1>1
      <4>. QED  BY <3>1, <4>1
    <3>3. \A i \in changed : first <= t.rowOf[i] /\ t.rowOf[i] <= last
      BY <2>1, <2>4, <3>1, RowOfBit
    <3>4. SetBits(t, start, bits) = [table |-> u, signal |-> DataChanged(first .. last, {"value"})]
      BY <2>3, <2>7
    <3>. HIDE DEF first, last
    <3>5. \A i \in Changed(Cells(t), Cells(u)) : first <= t.rowOf[i] /\ t.rowOf[i] <= last
      BY <2>4, <3>3 DEF changed
    <3>. QED  BY <2>2, <2>4, <2>5, <3>2, <3>4, <3>5, InPlaceIsTold
  <2>. QED  BY <2>6, <2>7
<1>3. CASE ~(t.start = start /\ Len(t.bits) = Len(bits))
  <2>1. /\ v \in Table /\ v.type = t.type /\ v.convention = t.convention /\ v.formats = t.formats
        /\ v.start = start /\ v.bits = bits /\ v.words = t.words
    BY DEF Table
  <2>2. SetBits(t, start, bits) = Reset(v)
    BY <1>3 DEF SetBits
  <2>. HIDE DEF v
  <2>3. AreFrom(Cells(v), v.start, IsBitType(v.type))
    BY <2>1 DEF Cells, AreFrom
  <2>4. Told(v, Reset(v))
    BY <2>1, <2>3, ResetIsTold
  <2>. QED  BY <2>1, <2>2, <2>4, ResetForgets
<1>. QED  BY <1>2, <1>3

\* A lost target is shown as such without a word to the list.
LEMMA MarkStaleIsTold ==
    ASSUME NEW t \in Table, IsBuilt(t)
    PROVE  Told(t, MarkStale(t))
<1>. DEFINE u == [t EXCEPT !.stale = TRUE]
<1>1. /\ u \in Table /\ u.type = t.type /\ u.convention = t.convention /\ u.formats = t.formats
      /\ u.start = t.start /\ u.rows = t.rows /\ u.rowOf = t.rowOf /\ u.words = t.words /\ u.bits = t.bits
  BY DEF Table
<1>. HIDE DEF u
<1>2. Told(t, [table |-> u, signal |-> Silence])
  BY <1>1, SilenceIsTold
<1>. QED  BY <1>2 DEF MarkStale, u

\* A row's format is chosen for its address, which has one.
LEMMA RowsHaveFormats ==
    ASSUME NEW t \in Table, IsBuilt(t), NEW row \in DOMAIN t.rows
    PROVE  t.rows[row].address \in Addresses
<1>. DEFINE first == t.rows[row].address - t.start + 1
<1>1. first \in 1 .. Len(Cells(t)) /\ t.rows[row].address \in Nat /\ t.start \in Nat
  BY ShownFacts, CellsType
<1>2. DOMAIN Cells(t) = 1 .. Len(Cells(t))
  BY CellsType
<1>3. Cells(t)[first].address = t.start + first - 1 /\ Cells(t)[first].address \in Addresses
  <2>. HIDE DEF first
  <2>. QED  BY <1>1, <1>2 DEF IsBuilt, AreFrom
<1>. QED  BY <1>1, <1>3

LEMMA SetFormatAtIsTold ==
    ASSUME NEW t \in Table, IsBuilt(t), NEW row \in DOMAIN t.rows, NEW span \in 1 .. 2
    PROVE  LET result == SetFormatAt(t, row, span)
           IN  /\ result.table \in Table /\ IsBuilt(result.table)
               /\ result.table.type = t.type
               /\ result.table.words = t.words /\ result.table.bits = t.bits
               /\ \A shown, text : Follows(shown, result.table, text, result.signal) = Rebuilt(result.table, text)
<1>. DEFINE address == t.rows[row].address
            v == [t EXCEPT !.formats[address] = span]
<1>1. address \in Addresses
  BY RowsHaveFormats
<1>. HIDE DEF address
<1>2. /\ v \in Table /\ v.type = t.type /\ v.start = t.start /\ v.words = t.words /\ v.bits = t.bits
  BY <1>1 DEF Table
<1>3. SetFormatAt(t, row, span) = Reset(v)
  BY DEF SetFormatAt, address
<1>. HIDE DEF v
<1>4. AreFrom(Cells(v), v.start, IsBitType(v.type))
  BY <1>2 DEF IsBuilt, Cells
<1>. QED  BY <1>2, <1>3, <1>4, RebuiltTable DEF Reset, Follows

LEMMA SetRegisterTypeIsTold ==
    ASSUME NEW t \in Table, NEW type \in ShownTypes
    PROVE  LET result == SetRegisterType(t, type)
           IN  /\ result.table \in Table /\ IsBuilt(result.table) /\ result.table.type = type
               /\ result.table.words = <<>> /\ result.table.bits = <<>>
               /\ \A shown, text : Follows(shown, result.table, text, result.signal) = Rebuilt(result.table, text)
<1>. DEFINE v == [t EXCEPT !.type = type, !.words = <<>>, !.bits = <<>>, !.formats = NoFormats]
<1>1. NoFormats \in [Addresses -> 1 .. 2]
  BY DEF NoFormats, DefaultSpan
<1>2. v \in Table /\ v.type = type /\ v.words = <<>> /\ v.bits = <<>>
  <2>. DEFINE none == <<>>
  <2>1. none \in Seq(Cell) /\ NoFormats \in [Addresses -> 1 .. 2]
    BY <1>1
  <2>. HIDE DEF none
  <2>2. LET w == [t EXCEPT !.type = type, !.words = none, !.bits = none, !.formats = NoFormats]
        IN  w \in Table /\ w.type = type /\ w.words = none /\ w.bits = none
    BY <2>1 DEF Table
  <2>. QED  BY <2>2 DEF none
<1>3. SetRegisterType(t, type) = Reset(v)
  BY DEF SetRegisterType
<1>. HIDE DEF v
<1>4. AreFrom(Cells(v), v.start, IsBitType(v.type))
  BY <1>2 DEF Cells, AreFrom
<1>. QED  BY <1>2, <1>3, <1>4, RebuiltTable DEF Reset, Follows

\* Every row reads differently in another convention, and nothing else does.
LEMMA SetAddressConventionIsTold ==
    ASSUME NEW t \in Table, IsBuilt(t), NEW convention \in Conventions
    PROVE  LET result == SetAddressConvention(t, convention)
           IN  /\ result.table \in Table /\ IsBuilt(result.table)
               /\ result.table.type = t.type /\ result.table.start = t.start
               /\ result.table.words = t.words /\ result.table.bits = t.bits
               /\ \A text : Follows(Rebuilt(t, text), result.table, text, result.signal)
                                = Rebuilt(result.table, text)
<1>. DEFINE u == [t EXCEPT !.convention = convention]
<1>1. /\ u \in Table /\ u.type = t.type /\ u.formats = t.formats /\ u.start = t.start /\ u.rows = t.rows
      /\ u.rowOf = t.rowOf /\ u.words = t.words /\ u.bits = t.bits
  BY DEF Table
<1>2. SetAddressConvention(t, convention).table = u
      /\ SetAddressConvention(t, convention).signal = DataChanged(DOMAIN t.rows, {"address"})
  BY DEF SetAddressConvention
<1>. HIDE DEF u
<1>3. Cells(u) = Cells(t) /\ LogicalRows(u) = LogicalRows(t)
  BY <1>1 DEF LogicalRows, Cells
<1>4. IsBuilt(u)
  BY <1>1, <1>3 DEF IsBuilt, RowIndex
<1>5. \A row \in DOMAIN t.rows : Shown(u, row) = Shown(t, row)
  BY <1>1, <1>3 DEF Shown
<1>6. ASSUME NEW text
      PROVE  Follows(Rebuilt(t, text), u, text, DataChanged(DOMAIN t.rows, {"address"})) = Rebuilt(u, text)
  <2>1. Refiltered(Rebuilt(t, text), u, text, DOMAIN t.rows, {"address"}) = Rebuilt(u, text)
    BY <1>1, <1>5, RefilteredIsCurrent
  <2>2. DataChanged(DOMAIN t.rows, {"address"}).rows = DOMAIN t.rows
        /\ DataChanged(DOMAIN t.rows, {"address"}).roles = {"address"}
    BY DEF DataChanged
  <2>. QED  BY <2>1, <2>2, NotReset DEF Follows
<1>. QED  BY <1>1, <1>2, <1>4, <1>6

LEMMA SetFilterTextIsCurrent ==
    ASSUME NEW t, NEW old, NEW text
    PROVE  SetFilterText(Rebuilt(t, old), t, text) = Rebuilt(t, text)
BY RefilteredIsCurrent DEF SetFilterText

-----------------------------------------------------------------------------
(* The list on the screen and the readings.                                *)

\* mapRowToSource() finds the row a delegate shows: no other row of the list has as many
\* rows of the list up to it.
LEMMA DelegateHasItsRow ==
    ASSUME NEW bound \in Nat, DOMAIN list \in SUBSET (1 .. bound), NEW delegate \in DOMAIN list
    PROVE  RowOfDelegate(delegate) = delegate
<1>. DEFINE rows == DOMAIN list
            UpTo(row) == {r \in rows : r <= row}
<1>1. IsFiniteSet(rows) /\ \A row \in rows : IsFiniteSet(UpTo(row)) /\ row \in Nat
  <2>1. IsFiniteSet(1 .. bound)
    BY FS_Interval
  <2>2. IsFiniteSet(rows)
    BY <2>1, FS_Subset
  <2>3. \A row \in rows : UpTo(row) \in SUBSET rows
    OBVIOUS
  <2>. HIDE DEF UpTo
  <2>4. \A row \in rows : IsFiniteSet(UpTo(row))
    BY <2>2, <2>3, FS_Subset
  <2>. QED  BY <2>2, <2>4
<1>2. ASSUME NEW a \in rows, NEW b \in rows, a < b PROVE Cardinality(UpTo(a)) # Cardinality(UpTo(b))
  <2>1. UpTo(a) \in SUBSET UpTo(b) /\ b \in UpTo(b) /\ b \notin UpTo(a)
    BY <1>1, <1>2
  <2>. HIDE DEF UpTo
  <2>2. Cardinality(UpTo(a)) < Cardinality(UpTo(b))
    <3>1. UpTo(a) # UpTo(b)
      BY <2>1
    <3>. QED  BY <1>1, <2>1, <3>1, FS_Subset, FS_CardinalityType
  <2>3. Cardinality(UpTo(a)) \in Nat
    BY <1>1, FS_CardinalityType
  <2>. QED  BY <2>2, <2>3
<1>. HIDE DEF UpTo
<1>3. \A row \in rows : Cardinality(UpTo(row)) = Cardinality(UpTo(delegate)) => row = delegate
  BY <1>1, <1>2
<1>4. (CHOOSE row \in rows : Cardinality(UpTo(row)) = Cardinality(UpTo(delegate))) = delegate
  BY <1>3
<1>. QED  BY <1>4 DEF RowOfDelegate, MapRowToSource, UpTo

\* What is asked for from the screen.
LEMMA AskedFromScreen ==
    ASSUME NEW type, NEW read \in ReadsOnScreen(type)
    PROVE  /\ read.does = "read" /\ read.type = type
           /\ read.start \in Nat /\ read.quantity \in Nat \ {0}
           /\ read.start .. read.start + read.quantity - 1 \subseteq Addresses
<1>1. PICK r \in Ranges : read = Operation("read", type, r.start, r.quantity)
  BY DEF ReadsOnScreen
<1>2. r \in [start : Addresses, quantity : Nat \ {0}] /\ Addresses \subseteq Nat
  BY ViewAssumption, TableAssumption
<1>3. r.start \in Nat /\ r.quantity \in Nat \ {0}
  BY <1>2
<1>4. r.start .. r.start + r.quantity - 1 \subseteq Addresses
  BY ViewAssumption
<1>. QED  BY <1>1, <1>3, <1>4 DEF Operation

\* What comes back.
LEMMA ReadingFacts ==
    ASSUME NEW type \in BitTypes \cup WordTypes, NEW read \in ReadsOnScreen(type),
           NEW cells \in Readings(type, read.start, read.quantity)
    PROVE  /\ cells \in Seq(Cell) /\ cells # <<>> /\ Len(cells) = read.quantity
           /\ AreFrom(cells, read.start, IsBitType(type))
<1>. DEFINE start == read.start
            quantity == read.quantity
<1>1. /\ start \in Nat /\ quantity \in Nat \ {0} /\ start .. start + quantity - 1 \subseteq Addresses
      /\ cells \in Readings(type, start, quantity)
  BY AskedFromScreen
<1>. HIDE DEF start, quantity
<1>2. PICK bit \in [1 .. quantity -> {0, 1}] :
        cells = [i \in 1 .. quantity |-> [type |-> type, address |-> start + i - 1, value |-> bit[i]]]
  BY <1>1 DEF Readings
<1>3. \A i \in 1 .. quantity : start + i - 1 \in start .. start + quantity - 1 /\ start + i - 1 \in Nat
  BY <1>1
<1>4. \A i \in 1 .. quantity : cells[i] \in Cell
  BY <1>2, <1>3 DEF Cell
<1>5. cells \in Seq(Cell) /\ Len(cells) = quantity
  BY <1>1, <1>2, <1>4
<1>6. cells # <<>>
  BY <1>1, <1>5
<1>7. AreFrom(cells, start, IsBitType(type))
  BY <1>1, <1>2, <1>3 DEF AreFrom
<1>. QED  BY <1>5, <1>6, <1>7 DEF start, quantity

-----------------------------------------------------------------------------
(* The books at the start.                                                 *)

LEMMA FirstTable ==
    LET t == EmptyTable("HoldingRegister")
    IN  t \in Table /\ IsBuilt(t) /\ DOMAIN t.rows = {}
<1>. DEFINE t == EmptyTable("HoldingRegister")
            none == <<>>
<1>1. /\ t.type = "HoldingRegister" /\ t.start = 0 /\ t.words = none /\ t.bits = none
      /\ t.formats = NoFormats /\ t.rows = none /\ t.rowOf = none
  BY DEF EmptyTable
<1>2. NoFormats \in [Addresses -> 1 .. 2]
  BY DEF NoFormats, DefaultSpan
<1>3. none \in Seq(Cell) /\ none \in Seq([address : Nat, span : 1 .. 2]) /\ none \in Seq(Nat)
  OBVIOUS
<1>4. Len(none) = 0 /\ DOMAIN none = {}
  OBVIOUS
<1>5. t = [type |-> "HoldingRegister", convention |-> "Pdu", start |-> 0, words |-> none, bits |-> none,
           formats |-> NoFormats, rows |-> none, rowOf |-> none, stale |-> FALSE]
  BY DEF EmptyTable
<1>. HIDE DEF t
<1>6. t \in Table
  <2>. HIDE DEF none
  <2>. QED  BY <1>2, <1>3, <1>5 DEF Table, ShownTypes, Conventions
<1>7. ~IsBitType(t.type)
  BY <1>1 DEF IsBitType, BitTypes
<1>8. Cells(t) = none /\ AreFrom(Cells(t), t.start, IsBitType(t.type))
  BY <1>1, <1>4, <1>7 DEF Cells, AreFrom
<1>9. LogicalRows(t) = none
  <2>1. Tile(LogicalRows(t), t.start, 1, Len(Cells(t)))
    BY <1>6, <1>8, LogicalRowsTile
  <2>. QED  BY <1>4, <1>8, <2>1 DEF Tile
<1>10. RowIndex(t, LogicalRows(t)) = none
  <2>1. RowIndex(t, LogicalRows(t)) \in Seq(Nat) /\ DOMAIN RowIndex(t, LogicalRows(t)) = DOMAIN Cells(t)
    BY <1>6, <1>8, RowIndexFinds, LogicalRowsTile
  <2>2. DOMAIN RowIndex(t, LogicalRows(t)) = {}
    BY <1>4, <1>8, <2>1
  <2>. QED  BY <2>1, <2>2
<1>. QED  BY <1>1, <1>4, <1>6, <1>8, <1>9, <1>10 DEF IsBuilt, t

LEMMA InitBooks == Init => ViewBooks
<1>. SUFFICES ASSUME Init PROVE ViewBooks
  OBVIOUS
<1>1. table \in Table /\ IsBuilt(table) /\ DOMAIN table.rows = {}
  BY FirstTable DEF Init
<1>2. ListIsCurrent
  <2>1. DOMAIN Rebuilt(table, filterText) = {}
    BY <1>1 DEF Rebuilt, Accepted
  <2>2. Rebuilt(table, filterText) = [row \in {} |-> Delegate(table, row)]
    BY <1>1 DEF Rebuilt, Accepted
  <2>3. list = <<>> /\ DOMAIN <<>> = {}
    BY DEF Init
  <2>4. [row \in {} |-> Delegate(table, row)] = <<>>
    OBVIOUS
  <2>. QED  BY <2>2, <2>3, <2>4 DEF ListIsCurrent
<1>3. TypeOK
  <2>1. picker \in [row : Nat, range : {picker.range}, address : {picker.address}]
    BY DEF Init, Closed
  <2>2. Nothing \in Operations
    BY DEF Operations
  <2>3. polling \in [running : BOOLEAN, favorites : BOOLEAN, target : Operations]
    BY <2>2 DEF Init, Idle
  <2>4. reading \in Seq(Cell)
    BY DEF Init
  <2>. QED  BY <1>1, <2>1, <2>2, <2>3, <2>4 DEF Init, TypeOK
<1>. QED  BY <1>1, <1>2, <1>3
          DEF Init, ViewBooks, TableIsBuilt, PollIsOnScreen, ReadIsAwaited, PickerIsOpen, PollsTable, Idle

-----------------------------------------------------------------------------
(* The steps.                                                              *)

LEMMA TypesAreKnown == \A type \in ShownTypes : type \in BitTypes \cup WordTypes
BY ViewAssumption DEF ShownTypes, WordTypes

\* What a step has to keep of the table and what shows it.
ScreenBooks ==
    /\ table \in Table /\ filterText \in FilterTexts \cup {NoText}
    /\ picker \in [row : Nat, range : {picker.range}, address : {picker.address}]
    /\ TableIsBuilt /\ ListIsCurrent /\ PickerIsOpen

\* And of what is asked for.
PollBooks ==
    /\ favoritesMode \in BOOLEAN
    /\ polling \in [running : BOOLEAN, favorites : BOOLEAN, target : Operations]
    /\ reading \in Seq(Cell)
    /\ PollIsOnScreen

ShotBooks ==
    /\ pending \in Operations /\ pendingId \in Nat
    /\ requests \subseteq [id : Nat, asks : Operations]
    /\ ReadIsAwaited

LEMMA BooksInParts == ViewBooks <=> ScreenBooks /\ PollBooks /\ ShotBooks
BY DEF ViewBooks, TypeOK, ScreenBooks, PollBooks, ShotBooks

\* What the table may be told while the picker keeps its row.
LEMMA ShowBooks ==
    ASSUME ScreenBooks, NEW result, Told(table, result), Show(result)
    PROVE  ScreenBooks' /\ table'.type = table.type
<1>1. /\ table' = result.table /\ list' = Follows(list, result.table, filterText, result.signal)
      /\ filterText' = filterText /\ picker' = picker
  BY DEF Show
<1>2. /\ table' \in Table /\ IsBuilt(table') /\ table'.type = table.type
      /\ table'.convention = table.convention /\ table'.formats = table.formats
  BY <1>1 DEF Told
<1>3. list' = Rebuilt(table', filterText')
  BY <1>1 DEF Told, ScreenBooks, ListIsCurrent
<1>4. PickerIsOpen'
  BY <1>1, <1>2 DEF ScreenBooks, PickerIsOpen
<1>. QED  BY <1>1, <1>2, <1>3, <1>4 DEF ScreenBooks, TableIsBuilt, ListIsCurrent

LEMMA ScreenStays ==
    ASSUME ScreenBooks, UNCHANGED tableVars
    PROVE  ScreenBooks'
BY DEF ScreenBooks, tableVars, TableIsBuilt, ListIsCurrent, PickerIsOpen

LEMMA PollStays ==
    ASSUME PollBooks, UNCHANGED pollVars, table'.type = table.type
    PROVE  PollBooks'
BY DEF PollBooks, pollVars, PollIsOnScreen, PollsTable

\* Requests that stay do so while nothing is polled anew and the table keeps its type.
LEMMA ShotsStay ==
    ASSUME ShotBooks, UNCHANGED shotVars, polling'.running = polling.running,
           table' = table
    PROVE  ShotBooks'
BY DEF ShotBooks, shotVars, ReadIsAwaited, IsLatest

\* An engine that begins polls what is on the screen and has cancelled every request.
LEMMA BeginBooks ==
    ASSUME NEW favorites \in BOOLEAN, NEW type \in ShownTypes, ShotBooks,
           StartWhatIsShown(favorites, type)
    PROVE  /\ polling' \in [running : BOOLEAN, favorites : BOOLEAN, target : Operations]
           /\ polling'.running /\ polling'.favorites = favorites
           /\ ~favorites => polling'.target \in ReadsOnScreen(type)
           /\ reading' = <<>> /\ reading' \in Seq(Cell) /\ ShotBooks'
<1>1. PICK target \in Operations :
         /\ BeginPolling(favorites, target)
         /\ ~favorites => target \in ReadsOnScreen(type)
  <2>1. Nothing \in Operations /\ ReadsOnScreen(type) \subseteq Operations
    BY DEF Operations
  <2>2. CASE favorites
    BY <2>1, <2>2 DEF StartWhatIsShown
  <2>3. CASE ~favorites
    <3>1. \E read \in ReadsOnScreen(type) : BeginPolling(FALSE, read)
      BY <2>3 DEF StartWhatIsShown
    <3>2. favorites = FALSE
      BY <2>3
    <3>. QED  BY <2>1, <2>3, <3>1, <3>2
  <2>. QED  BY <2>2, <2>3
<1>2. /\ polling' = [running |-> TRUE, favorites |-> favorites, target |-> target]
      /\ reading' = <<>> /\ requests' = {} /\ pending' = pending /\ pendingId' = pendingId
  BY <1>1 DEF BeginPolling
<1>3. ShotBooks'
  BY <1>2 DEF ShotBooks, ReadIsAwaited
<1>4. <<>> \in Seq(Cell)
  OBVIOUS
<1>. QED  BY <1>1, <1>2, <1>3, <1>4

LEMMA StartPollingBooks ==
    ASSUME ScreenBooks, PollBooks, ShotBooks, StartPolling
    PROVE  ScreenBooks' /\ PollBooks' /\ ShotBooks'
<1>1. /\ favoritesMode \in BOOLEAN /\ table.type \in ShownTypes
      /\ StartWhatIsShown(favoritesMode, table.type) /\ UNCHANGED <<tableVars, favoritesMode>>
  BY DEF StartPolling, PollBooks, ScreenBooks, Table
<1>2. table' = table
  BY <1>1 DEF tableVars
<1>3. ScreenBooks'
  BY <1>1, ScreenStays
<1>. QED  BY <1>1, <1>2, <1>3, BeginBooks DEF PollBooks, PollIsOnScreen, PollsTable

LEMMA StopPollingBooks ==
    ASSUME ScreenBooks, PollBooks, ShotBooks, StopPolling
    PROVE  ScreenBooks' /\ PollBooks' /\ ShotBooks'
<1>1. /\ polling' = Idle /\ reading' = <<>> /\ requests' = {} /\ pending' = pending
      /\ pendingId' = pendingId /\ UNCHANGED tableVars /\ favoritesMode' = favoritesMode
  BY DEF StopPolling
<1>2. ScreenBooks'
  BY <1>1, ScreenStays
<1>3. Idle \in [running : BOOLEAN, favorites : BOOLEAN, target : Operations] /\ <<>> \in Seq(Cell)
  BY DEF Idle, Operations
<1>4. PollBooks'
  BY <1>1, <1>3 DEF PollBooks, PollIsOnScreen, PollsTable, Idle
<1>. QED  BY <1>1, <1>2, <1>4 DEF ShotBooks, ReadIsAwaited

LEMMA SetModeBooks ==
    ASSUME ScreenBooks, PollBooks, ShotBooks, SetMode
    PROVE  ScreenBooks' /\ PollBooks' /\ ShotBooks'
<1>1. /\ favoritesMode \in BOOLEAN /\ favoritesMode' = ~favoritesMode /\ favoritesMode' \in BOOLEAN
      /\ UNCHANGED tableVars /\ table' = table /\ table.type \in ShownTypes
  BY DEF SetMode, PollBooks, ScreenBooks, Table, tableVars
<1>2. ScreenBooks'
  BY <1>1, ScreenStays
<1>3. CASE polling.running
  <2>1. StartWhatIsShown(favoritesMode', table.type)
    BY <1>3 DEF SetMode
  <2>. QED  BY <1>1, <1>2, <2>1, BeginBooks DEF PollBooks, PollIsOnScreen, PollsTable
<1>4. CASE ~polling.running
  <2>1. polling' = polling /\ reading' = reading /\ UNCHANGED shotVars
    BY <1>4 DEF SetMode
  <2>2. PollBooks'
    BY <1>1, <1>4, <2>1 DEF PollBooks, PollIsOnScreen, PollsTable
  <2>. QED  BY <1>1, <1>2, <2>1, <2>2, ShotsStay
<1>. QED  BY <1>3, <1>4

LEMMA SetTypeBooks ==
    ASSUME ScreenBooks, PollBooks, ShotBooks, picker = Closed, SetType
    PROVE  ScreenBooks' /\ PollBooks' /\ ShotBooks'
<1>1. PICK type \in Types \ {table.type} :
         /\ Show(SetRegisterType(table, type))
         /\ IF RetargetsOnType THEN StartWhatIsShown(FALSE, type)
            ELSE UNCHANGED <<polling, reading, shotVars>>
  BY DEF SetType
<1>2. type \in ShownTypes /\ table \in Table /\ favoritesMode' = favoritesMode
  BY DEF ShownTypes, ScreenBooks, SetType
<1>3. /\ table' \in Table /\ IsBuilt(table') /\ table'.type = type
      /\ table'.words = <<>> /\ table'.bits = <<>>
      /\ list' = Rebuilt(table', filterText) /\ filterText' = filterText /\ picker' = picker
  BY <1>1, <1>2, SetRegisterTypeIsTold DEF Show
<1>4. ScreenBooks'
  BY <1>3 DEF ScreenBooks, TableIsBuilt, ListIsCurrent, PickerIsOpen, Closed
<1>5. CASE RetargetsOnType
  <2>1. StartWhatIsShown(FALSE, type) /\ favoritesMode = FALSE
    BY <1>1, <1>5 DEF RetargetsOnType, PollBooks
  <2>. QED  BY <1>2, <1>3, <1>4, <2>1, BeginBooks DEF PollBooks, PollIsOnScreen, PollsTable
<1>6. CASE ~RetargetsOnType
  <2>1. polling' = polling /\ reading' = reading /\ UNCHANGED shotVars
    BY <1>1, <1>6
  <2>2. ~PollsTable
    BY <1>6 DEF RetargetsOnType, PollsTable, PollBooks, PollIsOnScreen
  <2>3. PollBooks'
    BY <1>2, <2>1, <2>2 DEF PollBooks, PollIsOnScreen, PollsTable
  <2>4. ShotBooks'
    BY <1>3, <2>1 DEF ShotBooks, ReadIsAwaited, shotVars, IsLatest
  <2>. QED  BY <1>4, <2>3, <2>4
<1>. QED  BY <1>5, <1>6

LEMMA PollAnsweredBooks ==
    ASSUME ScreenBooks, PollBooks, ShotBooks, PollAnswered
    PROVE  ScreenBooks' /\ PollBooks' /\ ShotBooks'
<1>1. /\ PollsTable /\ UNCHANGED tableVars /\ favoritesMode' = favoritesMode /\ polling' = polling
      /\ UNCHANGED shotVars /\ table' = table
      /\ reading' \in Readings(polling.target.type, polling.target.start, polling.target.quantity)
  BY DEF PollAnswered, tableVars
<1>2. polling.target \in ReadsOnScreen(table.type) /\ table.type \in BitTypes \cup WordTypes
  BY <1>1, TypesAreKnown DEF PollBooks, PollIsOnScreen, ScreenBooks, Table
<1>3. polling.target.type = table.type
  BY <1>2, AskedFromScreen
<1>. DEFINE target == polling.target
<1>4. reading' \in Seq(Cell)
  <2>1. reading' \in Readings(table.type, target.start, target.quantity)
    BY <1>1, <1>3
  <2>2. target \in ReadsOnScreen(table.type)
    BY <1>2
  <2>. HIDE DEF target
  <2>. QED  BY <1>2, <2>1, <2>2, ReadingFacts
<1>5. ScreenBooks'
  BY <1>1, ScreenStays
<1>6. PollBooks'
  BY <1>1, <1>4 DEF PollBooks, PollIsOnScreen, PollsTable
<1>. QED  BY <1>1, <1>5, <1>6, ShotsStay

LEMMA PollFailsBooks ==
    ASSUME ScreenBooks, PollBooks, ShotBooks, PollFails
    PROVE  ScreenBooks' /\ PollBooks' /\ ShotBooks'
<1>1. PollsTable /\ Show(MarkStale(table)) /\ UNCHANGED pollVars /\ UNCHANGED shotVars
  BY DEF PollFails
<1>2. table \in Table /\ IsBuilt(table)
  BY DEF ScreenBooks, TableIsBuilt
<1>3. Told(table, MarkStale(table))
  BY <1>2, MarkStaleIsTold
<1>4. ScreenBooks' /\ table'.type = table.type
  BY <1>1, <1>3, ShowBooks
<1>5. PollBooks'
  BY <1>1, <1>4, PollStays
<1>6. ShotBooks'
  BY <1>1, <1>4 DEF ShotBooks, shotVars, pollVars, ReadIsAwaited, IsLatest, PollsTable
<1>. QED  BY <1>4, <1>5, <1>6

\* A reading finds a table of its kind, or an empty one.
LEMMA ShowReadingBooks ==
    ASSUME ScreenBooks, NEW type \in BitTypes \cup WordTypes, NEW start \in Nat, NEW cells \in Seq(Cell),
           cells # <<>>, AreFrom(cells, start, IsBitType(type)),
           (IsBitType(type) <=> IsBitType(table.type)) \/ (table.words = <<>> /\ table.bits = <<>>),
           ShowReading(type, start, cells)
    PROVE  ScreenBooks' /\ table'.type = table.type
<1>1. table \in Table /\ IsBuilt(table)
  BY DEF ScreenBooks, TableIsBuilt
<1>2. CASE IsBitType(type)
  <2>1. AreFrom(cells, start, TRUE)
    BY <1>2 DEF AreFrom
  <2>2. Told(table, SetBits(table, start, cells))
    BY <1>1, <1>2, <2>1, SetBitsIsTold
  <2>3. Show(SetBits(table, start, cells))
    BY <1>2 DEF ShowReading
  <2>. QED  BY <2>2, <2>3, ShowBooks
<1>3. CASE ~IsBitType(type)
  <2>1. AreFrom(cells, start, FALSE)
    BY <1>3 DEF AreFrom
  <2>2. Told(table, SetRegisters(table, start, cells))
    BY <1>1, <1>3, <2>1, SetRegistersIsTold
  <2>3. Show(SetRegisters(table, start, cells))
    BY <1>3 DEF ShowReading
  <2>. QED  BY <2>2, <2>3, ShowBooks
<1>. QED  BY <1>2, <1>3

LEMMA FlushBooks ==
    ASSUME ScreenBooks, PollBooks, ShotBooks, Flush
    PROVE  ScreenBooks' /\ PollBooks' /\ ShotBooks'
<1>. DEFINE target == polling.target
<1>1. /\ reading # <<>> /\ ShowReading(target.type, target.start, reading) /\ reading' = <<>>
      /\ favoritesMode' = favoritesMode /\ polling' = polling /\ UNCHANGED shotVars
  BY DEF Flush
<1>2. /\ PollsTable /\ target \in ReadsOnScreen(table.type)
      /\ reading \in Readings(target.type, target.start, target.quantity)
      /\ table.type \in BitTypes \cup WordTypes
  BY <1>1, TypesAreKnown DEF PollBooks, PollIsOnScreen, ScreenBooks, Table
<1>3. polling.running /\ <<>> \in Seq(Cell)
  BY <1>2 DEF PollsTable
<1>. HIDE DEF target
<1>4. target.type = table.type /\ target.start \in Nat
  BY <1>2, AskedFromScreen
<1>5. reading \in Seq(Cell) /\ AreFrom(reading, target.start, IsBitType(target.type))
  BY <1>2, <1>4, ReadingFacts
<1>6. ScreenBooks' /\ table'.type = table.type
  BY <1>1, <1>2, <1>4, <1>5, ShowReadingBooks
<1>7. PollBooks'
  BY <1>1, <1>3, <1>6 DEF PollBooks, PollIsOnScreen, PollsTable
<1>8. ShotBooks'
  BY <1>1, <1>3 DEF ShotBooks, shotVars, ReadIsAwaited, IsLatest
<1>. QED  BY <1>6, <1>7, <1>8

\* The operations there are.
LEMMA OperationsAre ==
    \A operation : operation \in Operations <=>
        \/ operation = Nothing
        \/ \E type \in ShownTypes : operation \in ReadsOnScreen(type)
        \/ \E type \in ShownTypes : operation = Operation("write", type, 0, 0)
<1>. DEFINE reads  == UNION {ReadsOnScreen(type) : type \in ShownTypes}
            writes == {Operation("write", type, 0, 0) : type \in ShownTypes}
<1>1. Operations = {Nothing} \cup reads \cup writes
  BY DEF Operations
<1>2. \A operation : operation \in reads <=> \E type \in ShownTypes : operation \in ReadsOnScreen(type)
  BY Zenon
<1>3. \A operation : operation \in writes <=> \E type \in ShownTypes : operation = Operation("write", type, 0, 0)
  BY Zenon
<1>. HIDE DEF reads, writes
<1>. QED  BY <1>1, <1>2, <1>3

\* The screen and the engine when only a request is sent or settled.
LEMMA OnlyShots ==
    ASSUME ScreenBooks, PollBooks, UNCHANGED <<tableVars, pollVars>>
    PROVE  ScreenBooks' /\ PollBooks' /\ table' = table /\ polling' = polling
<1>1. UNCHANGED tableVars /\ UNCHANGED pollVars /\ table' = table /\ polling' = polling
  BY DEF tableVars, pollVars
<1>. QED  BY <1>1, ScreenStays, PollStays

LEMMA ReadRegistersBooks ==
    ASSUME ScreenBooks, PollBooks, ShotBooks, ReadRegisters
    PROVE  ScreenBooks' /\ PollBooks' /\ ShotBooks'
<1>1. /\ ~polling.running /\ pending' \in ReadsOnScreen(table.type)
      /\ requests' = requests \cup {Request(pendingId + 1, pending')} /\ pendingId' = pendingId + 1
      /\ UNCHANGED <<tableVars, pollVars>>
  BY DEF ReadRegisters
<1>2. ScreenBooks' /\ PollBooks' /\ table' = table /\ polling' = polling
  BY <1>1, OnlyShots
<1>3. pending' \in Operations /\ pending'.type = table.type /\ pendingId \in Nat
  BY <1>1, AskedFromScreen DEF Operations, ScreenBooks, Table, ShotBooks
<1>4. \A r \in requests : r.id \in Nat /\ r.id <= pendingId
  BY DEF ShotBooks, ReadIsAwaited
<1>5. \A r \in requests' : r \in requests \/ r = Request(pendingId + 1, pending')
  BY <1>1
<1>6. requests' \subseteq [id : Nat, asks : Operations]
  BY <1>1, <1>3 DEF ShotBooks, Request
<1>7. ASSUME NEW r \in requests'
      PROVE  r.id <= pendingId' /\ (r.id = pendingId' => r.asks = pending')
  BY <1>1, <1>3, <1>4, <1>5 DEF Request
<1>8. ReadIsAwaited'
  BY <1>1, <1>2, <1>3, <1>7 DEF ReadIsAwaited, IsLatest
<1>. QED  BY <1>1, <1>2, <1>3, <1>6, <1>8 DEF ShotBooks

\* A write is waited for as its last request.
LEMMA WriteBooks ==
    ASSUME ScreenBooks, PollBooks, ShotBooks, NEW type \in ShownTypes, NEW count \in 1 .. 2,
           Write(type, count)
    PROVE  ScreenBooks' /\ PollBooks' /\ ShotBooks'
<1>. DEFINE ask == Operation("write", type, 0, 0)
<1>1. /\ pending' = ask /\ pendingId' = pendingId + count
      /\ requests' = requests \cup {Request(pendingId + k, ask) : k \in 1 .. count}
      /\ UNCHANGED <<tableVars, pollVars>>
  BY DEF Write
<1>2. ScreenBooks' /\ PollBooks' /\ table' = table /\ polling' = polling
  BY <1>1, OnlyShots
<1>3. ask \in Operations /\ ask.does = "write" /\ pendingId \in Nat
  <2>1. ask.does = "write"
    BY DEF Operation
  <2>. QED  BY <2>1, OperationsAre DEF ShotBooks
<1>. HIDE DEF ask
<1>4. \A r \in requests : r.id \in Nat /\ r.id <= pendingId
  BY DEF ShotBooks, ReadIsAwaited
<1>5. \A r \in requests' : r \in requests \/ \E k \in 1 .. count : r = Request(pendingId + k, ask)
  BY <1>1
<1>6. \A r \in requests' : r \in [id : Nat, asks : Operations]
  BY <1>3, <1>5 DEF ShotBooks, Request
<1>7. ASSUME NEW r \in requests'
      PROVE  r.id <= pendingId' /\ (r.id = pendingId' => r.asks = pending')
  BY <1>1, <1>3, <1>4, <1>5 DEF Request
<1>8. ReadIsAwaited'
  BY <1>1, <1>3, <1>7 DEF ReadIsAwaited, IsLatest
<1>. QED  BY <1>1, <1>2, <1>3, <1>6, <1>8 DEF ShotBooks

\* The rows of the list are rows of the table.
LEMMA ListFacts ==
    ASSUME ScreenBooks
    PROVE  /\ DOMAIN list \subseteq DOMAIN table.rows
           /\ \A delegate \in DOMAIN list :
                 /\ RowOfDelegate(delegate) = delegate
                 /\ list[delegate].address = AddressText(table, delegate)
           /\ \A row \in DOMAIN table.rows : row \in Nat /\ table.rows[row].span \in 1 .. 2
<1>1. /\ table \in Table /\ IsBuilt(table)
      /\ list = [row \in Accepted(table, filterText) |-> Delegate(table, row)]
  BY DEF ScreenBooks, TableIsBuilt, ListIsCurrent, Rebuilt
<1>2. DOMAIN list \subseteq DOMAIN table.rows
  BY <1>1 DEF Accepted
<1>3. DOMAIN table.rows = 1 .. Len(table.rows) /\ Len(table.rows) \in Nat
  BY <1>1, CellsType
<1>4. \A delegate \in DOMAIN list : RowOfDelegate(delegate) = delegate
  BY <1>2, <1>3, DelegateHasItsRow
<1>5. \A delegate \in DOMAIN list : list[delegate].address = AddressText(table, delegate)
  BY <1>1 DEF Delegate
<1>6. \A row \in DOMAIN table.rows : row \in Nat /\ table.rows[row].span \in 1 .. 2
  BY <1>1, <1>3, ShownFacts
<1>. QED  BY <1>2, <1>4, <1>5, <1>6

LEMMA WriteRowBooks ==
    ASSUME ScreenBooks, PollBooks, ShotBooks, WriteRow
    PROVE  ScreenBooks' /\ PollBooks' /\ ShotBooks'
<1>1. PICK delegate \in DOMAIN list : Write(table.type, table.rows[RowOfDelegate(delegate)].span)
  BY DEF WriteRow
<1>2. table.rows[RowOfDelegate(delegate)].span \in 1 .. 2 /\ table.type \in ShownTypes
  BY ListFacts DEF ScreenBooks, Table
<1>. QED  BY <1>1, <1>2, WriteBooks

LEMMA WriteFavoriteBooks ==
    ASSUME ScreenBooks, PollBooks, ShotBooks, WriteFavorite
    PROVE  ScreenBooks' /\ PollBooks' /\ ShotBooks'
<1>1. "HoldingRegister" \in ShownTypes /\ 1 \in 1 .. 2
  BY DEF ShownTypes
<1>. QED  BY <1>1, WriteBooks DEF WriteFavorite

\* When a request is settled the others still ask what they asked.
LEMMA SettleBooks ==
    ASSUME ShotBooks, NEW r \in requests, Settle(r),
           pending' = Nothing \/ (pending' = pending /\ table' = table)
    PROVE  ShotBooks' /\ UNCHANGED pollVars
<1>1. requests' = requests \ {r} /\ UNCHANGED pollVars /\ pendingId' = pendingId /\ polling' = polling
  BY DEF Settle, pollVars
<1>2. Nothing \in Operations /\ Nothing.does = "nothing"
  BY DEF Operations, Nothing
<1>3. ReadIsAwaited'
  BY <1>1, <1>2 DEF ShotBooks, ReadIsAwaited, IsLatest
<1>. QED  BY <1>1, <1>2, <1>3 DEF ShotBooks

LEMMA AnswerIgnoredBooks ==
    ASSUME ScreenBooks, PollBooks, ShotBooks, NEW r \in requests, AnswerIgnored(r)
    PROVE  ScreenBooks' /\ PollBooks' /\ ShotBooks'
<1>1. /\ Settle(r) /\ UNCHANGED tableVars /\ table' = table
      /\ pending' = Nothing \/ (pending' = pending /\ table' = table)
  BY DEF AnswerIgnored, tableVars
<1>. QED  BY <1>1, SettleBooks, ScreenStays, PollStays

LEMMA RefusedBooks ==
    ASSUME ScreenBooks, PollBooks, ShotBooks, NEW r \in requests, Refused(r)
    PROVE  ScreenBooks' /\ PollBooks' /\ ShotBooks'
<1>1. Settle(r) /\ UNCHANGED tableVars /\ table' = table /\ pending' = Nothing
  BY DEF Refused, tableVars
<1>. QED  BY <1>1, SettleBooks, ScreenStays, PollStays

\* The answer to a read that is waited for is of what was asked, and of the table's kind
\* or for an empty table.
LEMMA ReadAnsweredBooks ==
    ASSUME ScreenBooks, PollBooks, ShotBooks, NEW r \in requests, ReadAnswered(r)
    PROVE  ScreenBooks' /\ PollBooks' /\ ShotBooks'
<1>1. PICK cells \in Readings(r.asks.type, r.asks.start, r.asks.quantity) :
        ShowReading(pending.type, pending.start, cells)
  BY DEF ReadAnswered
<1>2. IsLatest(r) /\ pending.does = "read" /\ pending' = Nothing /\ Settle(r)
  BY DEF ReadAnswered, Ignored
<1>3. /\ r.asks = pending /\ pending \in Operations
      /\ IsBitType(pending.type) # IsBitType(table.type) => table.words = <<>> /\ table.bits = <<>>
  BY <1>2 DEF ShotBooks, ReadIsAwaited
<1>4. PICK type \in ShownTypes : pending \in ReadsOnScreen(type)
  <2>1. pending # Nothing
    BY <1>2 DEF Nothing
  <2>2. ASSUME NEW known \in ShownTypes PROVE pending # Operation("write", known, 0, 0)
    BY <1>2 DEF Operation
  <2>. QED  BY <1>3, <2>1, <2>2, OperationsAre
<1>5. pending.type = type /\ pending.start \in Nat /\ type \in BitTypes \cup WordTypes
  BY <1>4, AskedFromScreen, TypesAreKnown
<1>. DEFINE read == pending
<1>6. cells \in Seq(Cell) /\ cells # <<>> /\ AreFrom(cells, pending.start, IsBitType(type))
  <2>1. read \in ReadsOnScreen(type) /\ cells \in Readings(type, read.start, read.quantity)
    BY <1>1, <1>3, <1>4, <1>5
  <2>. QED  BY <1>5, <2>1, ReadingFacts
<1>7. (IsBitType(type) <=> IsBitType(table.type)) \/ (table.words = <<>> /\ table.bits = <<>>)
  BY <1>3, <1>5 DEF IsBitType
<1>8. ScreenBooks' /\ table'.type = table.type
  BY <1>1, <1>5, <1>6, <1>7, ShowReadingBooks
<1>9. ShotBooks' /\ UNCHANGED pollVars
  BY <1>2, SettleBooks
<1>. QED  BY <1>8, <1>9, PollStays

LEMMA WriteAnsweredBooks ==
    ASSUME ScreenBooks, PollBooks, ShotBooks, NEW r \in requests, WriteAnswered(r)
    PROVE  ScreenBooks' /\ PollBooks' /\ ShotBooks'
<1>1. PICK reread \in ReadsOnScreen(table.type) :
        requests' = (requests \ {r}) \cup {Request(pendingId + 1, reread)}
  BY DEF WriteAnswered
<1>2. pending' = Nothing /\ pendingId' = pendingId + 1 /\ UNCHANGED <<tableVars, pollVars>>
  BY DEF WriteAnswered
<1>3. ScreenBooks' /\ PollBooks' /\ table' = table /\ polling' = polling
  BY <1>2, OnlyShots
<1>4. reread \in Operations /\ Nothing \in Operations /\ pendingId \in Nat
  BY OperationsAre DEF ScreenBooks, Table, ShotBooks
<1>5. \A q \in requests : q.id \in Nat /\ q.id <= pendingId /\ q \in [id : Nat, asks : Operations]
  BY DEF ShotBooks, ReadIsAwaited
<1>6. \A q \in requests' : q \in requests \/ q = Request(pendingId + 1, reread)
  BY <1>1
<1>7. \A q \in requests' : q \in [id : Nat, asks : Operations] /\ q.id <= pendingId'
  BY <1>2, <1>4, <1>5, <1>6 DEF Request
<1>8. ReadIsAwaited'
  BY <1>2, <1>7 DEF ReadIsAwaited, Nothing
<1>. QED  BY <1>2, <1>3, <1>4, <1>7, <1>8 DEF ShotBooks

\* What only changes how the table is shown leaves what is asked for alone.
LEMMA OnlyScreen ==
    ASSUME PollBooks, ShotBooks, UNCHANGED <<pollVars, shotVars>>,
           table'.type = table.type, table'.words = table.words, table'.bits = table.bits
    PROVE  PollBooks' /\ ShotBooks'
<1>1. UNCHANGED pollVars /\ UNCHANGED shotVars /\ polling' = polling
  BY DEF pollVars
<1>2. ShotBooks'
  BY <1>1 DEF ShotBooks, shotVars, ReadIsAwaited, IsLatest
<1>. QED  BY <1>1, <1>2, PollStays

LEMMA SearchTextChangedBooks ==
    ASSUME ScreenBooks, PollBooks, ShotBooks, SearchTextChanged
    PROVE  ScreenBooks' /\ PollBooks' /\ ShotBooks'
<1>1. /\ filterText' \in FilterTexts /\ list' = SetFilterText(list, table, filterText')
      /\ table' = table /\ picker' = picker /\ UNCHANGED <<pollVars, shotVars>>
  BY DEF SearchTextChanged
<1>2. list' = Rebuilt(table', filterText')
  BY <1>1, SetFilterTextIsCurrent DEF ScreenBooks, ListIsCurrent
<1>3. ScreenBooks'
  BY <1>1, <1>2 DEF ScreenBooks, TableIsBuilt, ListIsCurrent, PickerIsOpen
<1>. QED  BY <1>1, <1>3, OnlyScreen

LEMMA SetConventionBooks ==
    ASSUME ScreenBooks, PollBooks, ShotBooks, picker = Closed, SetConvention
    PROVE  ScreenBooks' /\ PollBooks' /\ ShotBooks'
<1>1. PICK convention \in Conventions : Show(SetAddressConvention(table, convention))
  BY DEF SetConvention
<1>2. table \in Table /\ IsBuilt(table) /\ list = Rebuilt(table, filterText)
  BY DEF ScreenBooks, TableIsBuilt, ListIsCurrent
<1>3. /\ table' \in Table /\ IsBuilt(table') /\ table'.type = table.type
      /\ table'.words = table.words /\ table'.bits = table.bits
      /\ list' = Rebuilt(table', filterText') /\ filterText' = filterText /\ picker' = picker
  BY <1>1, <1>2, SetAddressConventionIsTold DEF Show
<1>4. ScreenBooks'
  BY <1>3 DEF ScreenBooks, TableIsBuilt, ListIsCurrent, PickerIsOpen
<1>. QED  BY <1>3, <1>4, OnlyScreen DEF SetConvention

LEMMA OpenPickerBooks ==
    ASSUME ScreenBooks, PollBooks, ShotBooks, OpenPicker
    PROVE  ScreenBooks' /\ PollBooks' /\ ShotBooks'
<1>1. /\ ~IsBitType(table.type) /\ UNCHANGED <<table, filterText, list>>
      /\ UNCHANGED <<pollVars, shotVars>>
  BY DEF OpenPicker
<1>2. PICK delegate \in DOMAIN list :
        picker' = [row |-> RowOfDelegate(delegate), range |-> RangeOf(table),
                   address |-> list[delegate].address]
  BY DEF OpenPicker
<1>3. /\ delegate \in DOMAIN table.rows /\ delegate \in Nat
      /\ picker'.row = delegate /\ picker'.range = <<table.start, Len(table.words)>>
      /\ picker'.address = AddressText(table, delegate)
      /\ picker' \in [row : Nat, range : {picker'.range}, address : {picker'.address}]
  BY <1>2, ListFacts DEF RangeOf
<1>4. picker'.range[1] = table.start /\ picker'.range[2] = Len(table.words)
  BY <1>3
<1>5. table.rows = WordRows(table.start, table.formats, Len(table.words))
  BY <1>1 DEF ScreenBooks, TableIsBuilt, IsBuilt, LogicalRows
<1>6. picker'.address = RowText(table.type, table.convention, table.rows[picker'.row])
  BY <1>3 DEF AddressText
<1>7. PickerIsOpen'
  BY <1>1, <1>3, <1>4, <1>5, <1>6 DEF PickerIsOpen
<1>8. ScreenBooks'
  BY <1>1, <1>3, <1>7 DEF ScreenBooks, TableIsBuilt, ListIsCurrent
<1>. QED  BY <1>1, <1>8, OnlyScreen

LEMMA ApplyFormatBooks ==
    ASSUME ScreenBooks, PollBooks, ShotBooks, ApplyFormat
    PROVE  ScreenBooks' /\ PollBooks' /\ ShotBooks'
<1>1. picker' = Closed /\ filterText' = filterText /\ UNCHANGED <<pollVars, shotVars>>
  BY DEF ApplyFormat
<1>2. /\ Closed \in [row : Nat, range : {Closed.range}, address : {Closed.address}]
      /\ PickerIsOpen'
  BY <1>1 DEF Closed, PickerIsOpen
<1>3. table \in Table /\ IsBuilt(table) /\ list = Rebuilt(table, filterText)
  BY DEF ScreenBooks, TableIsBuilt, ListIsCurrent
<1>4. /\ table' \in Table /\ IsBuilt(table') /\ list' = Rebuilt(table', filterText)
      /\ table'.type = table.type /\ table'.words = table.words /\ table'.bits = table.bits
  <2>1. CASE picker.row \in DOMAIN table.rows
    <3>1. PICK span \in 1 .. 2 :
             LET result == SetFormatAt(table, picker.row, span)
             IN  /\ table' = result.table
                 /\ list' = Follows(list, result.table, filterText, result.signal)
      BY <2>1 DEF ApplyFormat
    <3>. DEFINE result == SetFormatAt(table, picker.row, span)
    <3>2. table' = result.table /\ list' = Follows(list, result.table, filterText, result.signal)
      BY <3>1
    <3>3. /\ result.table \in Table /\ IsBuilt(result.table) /\ result.table.type = table.type
          /\ result.table.words = table.words /\ result.table.bits = table.bits
          /\ \A shown, text : Follows(shown, result.table, text, result.signal) = Rebuilt(result.table, text)
      BY <1>3, <2>1, SetFormatAtIsTold
    <3>. HIDE DEF result
    <3>. QED  BY <1>1, <3>2, <3>3
  <2>2. CASE picker.row \notin DOMAIN table.rows
    BY <1>3, <2>2 DEF ApplyFormat
  <2>. QED  BY <2>1, <2>2
<1>5. ScreenBooks'
  BY <1>1, <1>2, <1>4 DEF ScreenBooks, TableIsBuilt, ListIsCurrent
<1>. QED  BY <1>1, <1>4, <1>5, OnlyScreen

LEMMA ClosePickerBooks ==
    ASSUME ScreenBooks, PollBooks, ShotBooks, ClosePicker
    PROVE  ScreenBooks' /\ PollBooks' /\ ShotBooks'
<1>1. picker' = Closed /\ UNCHANGED <<table, filterText, list>> /\ UNCHANGED <<pollVars, shotVars>>
  BY DEF ClosePicker
<1>2. /\ Closed \in [row : Nat, range : {Closed.range}, address : {Closed.address}]
      /\ PickerIsOpen'
  BY <1>1 DEF Closed, PickerIsOpen
<1>3. ScreenBooks'
  BY <1>1, <1>2 DEF ScreenBooks, TableIsBuilt, ListIsCurrent
<1>. QED  BY <1>1, <1>3, OnlyScreen

-----------------------------------------------------------------------------
(* The books are kept, and what follows from them.                         *)

LEMMA NextBooks == ViewBooks /\ [Next]_vars => ViewBooks'
<1>. SUFFICES ASSUME ViewBooks, [Next]_vars PROVE ViewBooks'
  OBVIOUS
<1>1. ScreenBooks /\ PollBooks /\ ShotBooks
  BY BooksInParts
<1>2. SUFFICES ScreenBooks' /\ PollBooks' /\ ShotBooks'
  <2>1. ScreenBooks' /\ PollBooks' /\ ShotBooks' => ViewBooks'
    BY DEF ViewBooks, TypeOK, ScreenBooks, PollBooks, ShotBooks
  <2>. QED  BY <2>1
<1>3. CASE UNCHANGED vars
  <2>1. UNCHANGED <<tableVars, pollVars, shotVars>>
    BY <1>3 DEF vars
  <2>2. table' = table
    BY <2>1 DEF tableVars
  <2>. QED  BY <1>1, <2>1, <2>2, OnlyShots, ShotsStay
<1>4. CASE picker = Closed /\ OnMainScreen
  BY <1>1, <1>4, StartPollingBooks, StopPollingBooks, SetModeBooks, SetTypeBooks, ReadRegistersBooks,
     WriteRowBooks, WriteFavoriteBooks, SearchTextChangedBooks, SetConventionBooks, OpenPickerBooks
     DEF OnMainScreen
<1>5. CASE ApplyFormat \/ ClosePicker
  BY <1>1, <1>5, ApplyFormatBooks, ClosePickerBooks
<1>6. CASE Engine
  BY <1>1, <1>6, PollAnsweredBooks, PollFailsBooks, FlushBooks DEF Engine
<1>7. CASE Manager
  BY <1>1, <1>7, AnswerIgnoredBooks, ReadAnsweredBooks, WriteAnsweredBooks, RefusedBooks DEF Manager
<1>. QED  BY <1>3, <1>4, <1>5, <1>6, <1>7 DEF Next, User

\* The table, the list, the picker, the engine and the controller agree with each other
\* in every state of Normal mode.
THEOREM ViewCorrect == Spec => []ViewBooks
<1>1. Init => ViewBooks
  BY InitBooks
<1>2. ViewBooks /\ [Next]_vars => ViewBooks'
  BY NextBooks
<1>. QED  BY <1>1, <1>2, PTL DEF Spec

\* Each row shows the registers at its address, of the kind the type box says, never those
\* of an earlier range or request: whatever setRegisters() and setBits() are given is of
\* the table's kind or meets a table that setRegisterType() has emptied.
THEOREM RowsCorrect == Spec => []RowsAreTrue
<1>1. ViewBooks => RowsAreTrue
  <2>. SUFFICES ASSUME ViewBooks, NEW row \in DOMAIN table.rows, NEW k \in DOMAIN Shown(table, row)
                PROVE  /\ IsBitType(Shown(table, row)[k].type) <=> IsBitType(table.type)
                       /\ Shown(table, row)[k].address = table.rows[row].address + k - 1
    BY DEF RowsAreTrue
  <2>. DEFINE cells == Cells(table)
              first == table.rows[row].address - table.start + 1
              span  == table.rows[row].span
  <2>1. table \in Table /\ IsBuilt(table)
    BY DEF ViewBooks, TypeOK, TableIsBuilt
  <2>2. /\ first \in 1 .. Len(cells) /\ first + span - 1 \in 1 .. Len(cells)
        /\ Shown(table, row) \in Seq(Cell) /\ Len(Shown(table, row)) = span /\ span \in 1 .. 2
        /\ \A n \in 1 .. span : Shown(table, row)[n] = cells[first + n - 1]
        /\ table.rows[row].address \in Nat
    BY <2>1, ShownFacts
  <2>3. k \in 1 .. span
    BY <2>2
  <2>4. Len(cells) \in Nat /\ DOMAIN cells = 1 .. Len(cells) /\ table.start \in Nat
    BY <2>1, CellsType
  <2>. DEFINE i == first + k - 1
  <2>5. i \in DOMAIN cells /\ Shown(table, row)[k] = cells[i]
    <3>1. Shown(table, row)[k] = cells[i]
      BY <2>2, <2>3
    <3>. HIDE DEF first, span, cells
    <3>. QED  BY <2>2, <2>3, <2>4, <3>1
  <2>6. (IsBitType(cells[i].type) <=> IsBitType(table.type)) /\ cells[i].address = table.start + i - 1
    <3>. HIDE DEF i
    <3>. QED  BY <2>1, <2>5 DEF IsBuilt, AreFrom
  <2>7. table.start + i - 1 = table.rows[row].address + k - 1
    <3>. DEFINE a == table.rows[row].address
                s == table.start
    <3>1. a \in Nat /\ s \in Nat /\ k \in Nat /\ i = (a - s + 1) + k - 1
      BY <2>2, <2>3, <2>4
    <3>. HIDE DEF a, s, i
    <3>2. s + i - 1 = a + k - 1
      BY <3>1
    <3>. QED  BY <3>2 DEF a, s
  <2>. QED  BY <2>5, <2>6, <2>7
<1>. QED  BY <1>1, ViewCorrect, PTL

\* rebuildLogicalRows() gives formatValue() as many registers as the format of the row
\* takes, every register one row, and the rows the order of the addresses.
THEOREM FormatsCorrect == Spec => []RowsFitTheirFormat
<1>1. ViewBooks => RowsFitTheirFormat
  <2>. SUFFICES ASSUME ViewBooks PROVE RowsFitTheirFormat
    OBVIOUS
  <2>. DEFINE rows == table.rows
  <2>1. table \in Table /\ IsBuilt(table)
    BY DEF ViewBooks, TypeOK, TableIsBuilt
  <2>2. \A row \in DOMAIN rows : Len(Shown(table, row)) = rows[row].span
    BY <2>1, ShownFacts
  <2>3. \A i \in DOMAIN Cells(table) :
          \E row \in DOMAIN rows :
              \A r \in DOMAIN rows : Takes(rows[r], table.start + i - 1) <=> r = row
    BY <2>1, TableFacts
  <2>4. ASSUME NEW r \in DOMAIN rows, NEW s \in DOMAIN rows, r < s
        PROVE  rows[r].address < rows[s].address
    <3>. DEFINE count == Len(Cells(table))
                start == table.start
    <3>1. start \in Nat /\ count \in Nat /\ Tile(rows, start, 1, count)
      BY <2>1, CellsType, TableFacts
    <3>. HIDE DEF count, start, rows
    <3>2. rows[r].address + rows[r].span <= rows[s].address
      BY <2>4, <3>1, RowsAscend
    <3>3. rows[r].address \in Nat /\ rows[s].address \in Nat /\ rows[r].span \in 1 .. 2
      BY <3>1, TileFacts
    <3>. QED  BY <3>2, <3>3
  <2>. QED  BY <2>2, <2>3, <2>4 DEF RowsFitTheirFormat
<1>. QED  BY <1>1, ViewCorrect, PTL

\* Every change of the table reaches the list through the signal that goes with it.
THEOREM ListCorrect == Spec => []ListIsCurrent
<1>1. ViewBooks => ListIsCurrent
  BY DEF ViewBooks
<1>. QED  BY <1>1, ViewCorrect, PTL

\* The row the chosen format will go to is the row that was clicked, while the table
\* keeps its range.
THEOREM PickerCorrect == Spec => []PickerKeepsItsRow
<1>1. ViewBooks => PickerKeepsItsRow
  <2>. SUFFICES ASSUME ViewBooks, picker.row \in DOMAIN table.rows, picker.range = RangeOf(table)
                PROVE  picker.address = AddressText(table, picker.row)
    BY DEF PickerKeepsItsRow
  <2>1. table \in Table /\ IsBuilt(table) /\ PickerIsOpen
    BY DEF ViewBooks, TypeOK, TableIsBuilt
  <2>2. picker # Closed
    <3>1. DOMAIN table.rows = 1 .. Len(table.rows)
      BY <2>1, CellsType
    <3>. QED  BY <2>1, <3>1, CellsType DEF Closed
  <2>3. picker.range[1] = table.start /\ picker.range[2] = Len(table.words)
    BY DEF RangeOf
  <2>4. table.rows = WordRows(table.start, table.formats, Len(table.words))
    BY <2>1, <2>2 DEF PickerIsOpen, IsBuilt, LogicalRows
  <2>. QED  BY <2>1, <2>2, <2>3, <2>4 DEF PickerIsOpen, AddressText
<1>. QED  BY <1>1, ViewCorrect, PTL

\* While the table is polled the reading to be flushed is of its type; and whatever comes,
\* an awaited answer included, an update in place finds a row for every register it changes.
\* (The type of an awaited answer is demanded only of a polled table: else it is its kind,
\* bits or words, that RowsAreTrue compares.)
THEOREM DeliveriesCorrect == Spec => []DeliveriesFitTheTable
<1>1. ViewBooks => DeliveriesFitTheTable
  <2>. SUFFICES ASSUME ViewBooks, NEW d \in Deliveries
                PROVE  /\ PollsTable => d.type = table.type
                       /\ ~IsBitType(d.type) /\ table.start = d.start /\ Len(table.words) = d.count
                              => DOMAIN table.words \subseteq DOMAIN table.rowOf
    BY DEF DeliveriesFitTheTable
  <2>1. table \in Table /\ IsBuilt(table)
    BY DEF ViewBooks, TypeOK, TableIsBuilt
  <2>2. ~IsBitType(table.type) => DOMAIN table.words = DOMAIN table.rowOf
    BY <2>1, TableFacts DEF Cells
  <2>3. CASE \E cells \in {reading} \ {<<>>} :
               d = [type |-> polling.target.type, start |-> polling.target.start, count |-> Len(cells)]
    <3>1. reading # <<>> /\ d.type = polling.target.type
      BY <2>3
    <3>2. polling.target \in ReadsOnScreen(table.type)
      BY <3>1 DEF ViewBooks, PollIsOnScreen
    <3>3. d.type = table.type
      BY <3>1, <3>2, AskedFromScreen
    <3>. QED  BY <2>2, <3>3
  <2>4. CASE \E r \in {q \in requests : IsLatest(q) /\ pending.does = "read"} :
               d = [type |-> pending.type, start |-> pending.start, count |-> r.asks.quantity]
    <3>1. PICK r \in requests : IsLatest(r) /\ pending.does = "read" /\ d.type = pending.type
      BY <2>4
    <3>2. /\ ~polling.running
          /\ IsBitType(pending.type) # IsBitType(table.type) => table.words = <<>> /\ table.bits = <<>>
      BY <3>1 DEF ViewBooks, ReadIsAwaited
    <3>3. CASE table.words = <<>>
      BY <3>2, <3>3 DEF PollsTable
    <3>4. CASE table.words # <<>>
      <4>1. IsBitType(d.type) <=> IsBitType(table.type)
        BY <3>1, <3>2, <3>4 DEF IsBitType
      <4>. QED  BY <2>2, <3>2, <4>1 DEF PollsTable
    <3>. QED  BY <3>3, <3>4
  <2>. QED  BY <2>3, <2>4 DEF Deliveries
<1>. QED  BY <1>1, ViewCorrect, PTL
=============================================================================

------------------------ MODULE FavoritesView_proofs ------------------------
(***************************************************************************)
(* What the rows of Favorites mode show, for every set of files and of     *)
(* favorites, every length of the sparkline and every bound.               *)
(***************************************************************************)
EXTENDS FavoritesView, SequenceTheorems, TLAPS

-----------------------------------------------------------------------------
(* Lists and rows.                                                         *)

\* A function on 1 .. n is a sequence of its values.
LEMMA FunctionIsList ==
    ASSUME NEW n \in Nat, NEW f, f = [i \in 1 .. n |-> f[i]]
    PROVE  f \in Seq(Range(f)) /\ Len(f) = n /\ DOMAIN f = 1 .. n
<1>1. f \in [1 .. n -> {f[i] : i \in 1 .. n}]
  OBVIOUS
<1>2. f \in Seq({f[i] : i \in 1 .. n})
  BY <1>1
<1>. QED  BY <1>1, <1>2, SeqOfRange

LEMMA ListIsFunction ==
    ASSUME NEW f, f \in Seq(Range(f))
    PROVE  Len(f) \in Nat /\ DOMAIN f = 1 .. Len(f) /\ f = [i \in 1 .. Len(f) |-> f[i]]
  OBVIOUS

LEMMA InRange == \A n \in Register : n % 65536 = n
<1>. DEFINE top == 65535
<1>1. Register = 0 .. top
  BY SMT DEF Register
<1>2. top \in Nat
  OBVIOUS
<1>. HIDE DEF top
<1>3. \A n \in Register : n \in Int /\ 0 <= n /\ n <= top
  BY <1>1, <1>2
<1>. QED  BY <1>3, SMTT(30) DEF top

\* A new row shows zeros and has no sparkline.
LEMMA EntryIsTrue ==
    ASSUME NEW favorite, favorite = Place(favorite.type, favorite.address),
           NEW span, IsBit(favorite) => span = 1
    PROVE  LET row == Entry(favorite, span)
           IN  IsRow(row) /\ row.favorite = favorite /\ ~row.stale /\ IsTrue(row)
<1>. DEFINE row == Entry(favorite, span)
<1>1. /\ row.favorite = favorite /\ row.span = span /\ row.value = Zeros(span)
      /\ row.history = <<>> /\ row.stale = FALSE
  BY DEF Entry
<1>2. IsRow(row)
  BY <1>1 DEF IsRow, Entry
<1>3. IsTrue(row)
  BY <1>1, FavoritesAssumption DEF IsTrue
<1>. QED  BY <1>1, <1>2, <1>3

\* A row in another format starts anew.
LEMMA ReformattedIsTrue ==
    ASSUME NEW entry, IsRow(entry), ~IsBit(entry.favorite), NEW span
    PROVE  LET row == Reformatted(entry, span)
           IN  /\ IsRow(row) /\ row.favorite = entry.favorite /\ row.stale = entry.stale
               /\ IsTrue(row)
<1>. DEFINE row == Reformatted(entry, span)
<1>1. row \in [favorite : {entry.favorite}, span : {span}, value : {Zeros(span)}, history : {<<>>},
              stale : {entry.stale}]
  BY DEF Reformatted, IsRow
<1>2. /\ row.favorite = entry.favorite /\ row.span = span /\ row.value = Zeros(span)
      /\ row.history = <<>> /\ row.stale = entry.stale
  BY <1>1
<1>3. entry.favorite = Place(entry.favorite.type, entry.favorite.address)
  BY DEF IsRow
<1>4. IsRow(row)
  BY <1>1, <1>2, <1>3 DEF IsRow
<1>5. IsTrue(row)
  BY <1>2, FavoritesAssumption DEF IsTrue
<1>. QED  BY <1>2, <1>4, <1>5

\* A row marked stale shows what it showed.
LEMMA MarkedIsTrue ==
    ASSUME NEW entry, IsRow(entry)
    PROVE  LET row == [entry EXCEPT !.stale = TRUE]
           IN  /\ IsRow(row) /\ row.favorite = entry.favorite /\ row.span = entry.span /\ row.stale
               /\ IsTrue(entry) => IsTrue(row)
<1>. DEFINE row == [entry EXCEPT !.stale = TRUE]
<1>1. row \in [favorite : {entry.favorite}, span : {entry.span}, value : {entry.value},
              history : {entry.history}, stale : {TRUE}]
  BY DEF IsRow
<1>2. /\ row.favorite = entry.favorite /\ row.span = entry.span /\ row.value = entry.value
      /\ row.history = entry.history /\ row.stale
  BY <1>1
<1>3. IsRow(row)
  BY <1>1, <1>2 DEF IsRow
<1>4. IsTrue(entry) => IsTrue(row)
  BY <1>2 DEF IsTrue
<1>. QED  BY <1>2, <1>3, <1>4

\* A point more on a sparkline that is at most Capacity long, the first one going.
LEMMA PointAdded ==
    ASSUME NEW point, NEW history \in Seq({point}), Len(history) <= Capacity
    PROVE  LET points == Append(history, point)
               kept   == IF Len(points) > Capacity THEN Tail(points) ELSE points
           IN  kept \in Seq({point}) /\ Len(kept) <= Capacity
<1>. DEFINE points == Append(history, point)
<1>1. points \in Seq({point}) /\ points # <<>> /\ Len(points) = Len(history) + 1
  BY AppendProperties
<1>2. Tail(points) \in Seq({point}) /\ Len(Tail(points)) = Len(points) - 1
  BY <1>1, HeadTailProperties
<1>. QED  BY <1>1, <1>2, FavoritesAssumption

\* The answer to the poll built from a row is shown in that row.
LEMMA AppliedIsTrue ==
    ASSUME NEW entry, IsRow(entry), NEW target,
           target = [reading |-> Reading(entry), favorite |-> entry.favorite]
    PROVE  LET row == Applied(entry, target)
           IN  /\ IsRow(row) /\ row.favorite = entry.favorite /\ row.span = entry.span /\ ~row.stale
               /\ entry.favorite.address \in Register /\ IsTrue(entry) => IsTrue(row)
<1>. DEFINE row == Applied(entry, target)
            points == Append(entry.history, target.reading)
            history == IF IsBit(entry.favorite) THEN entry.history
                       ELSE IF Len(points) > Capacity THEN Tail(points) ELSE points
<1>1. target.reading = Reading(entry) /\ Reading(entry).span = entry.span
  BY DEF Reading
<1>2. row = [entry EXCEPT !.value = Reading(entry), !.stale = FALSE, !.history = history]
  BY <1>1 DEF Applied
<1>. HIDE DEF history, row
<1>3. row \in [favorite : {entry.favorite}, span : {entry.span}, value : {Reading(entry)},
              history : {history}, stale : {FALSE}]
  BY <1>2 DEF IsRow
<1>4. /\ row.favorite = entry.favorite /\ row.span = entry.span /\ row.value = Reading(entry)
      /\ row.history = history /\ ~row.stale
  BY <1>3
<1>5. IsRow(row)
  BY <1>3, <1>4 DEF IsRow
<1>6. ASSUME entry.favorite.address \in Register, IsTrue(entry) PROVE IsTrue(row)
  <2>. DEFINE own == [of |-> entry.favorite, span |-> entry.span]
  <2>1. entry.favorite.address % 65536 = entry.favorite.address
    BY <1>6, InRange
  <2>2. Reading(entry) = own
    BY <2>1 DEF Reading, IsRow
  <2>3. entry.history \in Seq({own}) /\ Len(entry.history) <= Capacity
    BY <1>6 DEF IsTrue
  <2>. HIDE DEF own
  <2>4. history \in Seq({own}) /\ Len(history) <= Capacity
    BY <1>1, <2>2, <2>3, PointAdded DEF history
  <2>. QED  BY <1>4, <2>2, <2>4 DEF IsTrue, own
<1>. QED  BY <1>4, <1>5, <1>6 DEF row

\* The engine's targets depend on the favorites and their spans, not on what is shown.
LEMMA SameTargets ==
    ASSUME NEW old, NEW new, DOMAIN new = DOMAIN old,
           \A i \in DOMAIN old : new[i].favorite = old[i].favorite /\ new[i].span = old[i].span
    PROVE  BuildPollTargets(new) = BuildPollTargets(old)
  BY DEF BuildPollTargets, Reading

-----------------------------------------------------------------------------
(* The steps.                                                              *)

LEMMA InitBooks == Init => FavoritesBooks
<1>. SUFFICES ASSUME Init PROVE FavoritesBooks
  OBVIOUS
<1>1. entries = <<>> /\ ~running /\ ~resume /\ dirty = {} /\ targets = <<>>
  BY DEF Init
<1>2. entries \in Seq(Range(entries)) /\ DOMAIN entries = {}
  BY <1>1
<1>. QED  BY <1>1, <1>2 DEF FavoritesBooks, RowsAreDistinct, RowsAreTrue, TargetsAreTheRows, ModeIsPolled,
                            StaleMarksAreDeserved

\* The steps that leave the rows alone.
LEMMA EngineBooks ==
    ASSUME FavoritesBooks,
           \/ StartPolling \/ StopPolling \/ SetMode \/ ConnectionLost \/ ConnectionRestored
           \/ \E file \in Files : Import(file)
           \/ \E i \in DOMAIN targets : TargetAnswered(i)
           \/ UNCHANGED vars
    PROVE  FavoritesBooks'
<1>1. UNCHANGED <<entries, failing>>
  BY DEF StartPolling, StopPolling, SetMode, ConnectionLost, ConnectionRestored, Import, TargetAnswered,
         vars
<1>2. RowsAreDistinct' /\ RowsAreTrue' /\ StaleMarksAreDeserved'
  BY <1>1 DEF FavoritesBooks, RowsAreDistinct, RowsAreTrue, StaleMarksAreDeserved
<1>3. TargetsAreTheRows' /\ ModeIsPolled'
  <2>. USE DEF FavoritesBooks, TargetsAreTheRows, ModeIsPolled
  <2>1. CASE StartPolling
    BY <1>1, <2>1 DEF StartPolling, BeginPolling
  <2>2. CASE StopPolling
    BY <1>1, <2>2 DEF StopPolling, Stop
  <2>3. CASE SetMode
    BY <1>1, <2>3 DEF SetMode, BeginPolling, pollVars
  <2>4. CASE ConnectionLost
    BY <1>1, <2>4 DEF ConnectionLost, Stop, pollVars
  <2>5. CASE ConnectionRestored
    BY <1>1, <2>5 DEF ConnectionRestored, BeginPolling, pollVars
  <2>6. CASE \E file \in Files : Import(file)
    BY <1>1, <2>6 DEF Import, pollVars
  <2>7. CASE \E i \in DOMAIN targets : TargetAnswered(i)
    BY <1>1, <2>7 DEF TargetAnswered
  <2>8. CASE UNCHANGED vars
    BY <2>8 DEF vars, pollVars
  <2>. QED  BY <2>1, <2>2, <2>3, <2>4, <2>5, <2>6, <2>7, <2>8
<1>. QED  BY <1>2, <1>3 DEF FavoritesBooks

\* After an edit the engine has the targets of the rows there are.
LEMMA EditBooks ==
    ASSUME FavoritesBooks, NEW rows, Edit(rows)
    PROVE  TargetsAreTheRows' /\ ModeIsPolled' /\ entries' = rows
<1>1. entries' = rows /\ UNCHANGED <<favoritesMode, lost, resume>>
  BY DEF Edit
<1>2. CASE running /\ favoritesMode
  BY <1>1, <1>2 DEF Edit, Retarget, BeginPolling, FavoritesBooks, TargetsAreTheRows, ModeIsPolled
<1>3. CASE ~(running /\ favoritesMode)
  <2>1. UNCHANGED <<running, active, targets, dirty>>
    BY <1>3 DEF Edit, Retarget, pollVars
  <2>. QED  BY <1>1, <1>3, <2>1 DEF FavoritesBooks, TargetsAreTheRows, ModeIsPolled
<1>. QED  BY <1>2, <1>3

LEMMA AddBooks ==
    ASSUME FavoritesBooks, NEW favorite, favorite = Place(favorite.type, favorite.address),
           NEW span, IsBit(favorite) => span = 1, Add(favorite, span)
    PROVE  FavoritesBooks'
<1>. DEFINE row == Entry(favorite, span)
            n == Len(entries)
<1>1. /\ \A i \in DOMAIN entries : entries[i].favorite # favorite
      /\ Edit(Append(entries, row)) /\ UNCHANGED failing
  BY DEF Add
<1>2. IsRow(row) /\ row.favorite = favorite /\ ~row.stale /\ IsTrue(row)
  BY EntryIsTrue
<1>. HIDE DEF row
<1>3. entries \in Seq(Range(entries)) /\ n \in Nat /\ DOMAIN entries = 1 .. n
  BY ListIsFunction DEF FavoritesBooks, RowsAreDistinct
<1>4. entries' = Append(entries, row) /\ TargetsAreTheRows' /\ ModeIsPolled'
  BY <1>1, EditBooks
<1>5. /\ entries' \in Seq(Range(entries')) /\ DOMAIN entries' = 1 .. n + 1
      /\ \A i \in 1 .. n : entries'[i] = entries[i]
      /\ entries'[n + 1] = row
  <2>1. /\ entries \in Seq(Range(entries) \cup {row}) /\ row \in Range(entries) \cup {row}
    BY <1>3, SeqMonotonic
  <2>2. /\ entries' \in Seq(Range(entries) \cup {row}) /\ Len(entries') = n + 1
        /\ \A i \in 1 .. n : entries'[i] = entries[i]
        /\ entries'[n + 1] = row
    BY <1>4, <2>1, AppendProperties
  <2>. QED  BY <1>3, <2>2, SeqOfRange, LenProperties
<1>6. \A i \in DOMAIN entries' : (i \in DOMAIN entries /\ entries'[i] = entries[i]) \/ (i = n + 1 /\ entries'[i] = row)
  BY <1>3, <1>5
<1>7. RowsAreDistinct'
  BY <1>1, <1>2, <1>5, <1>6 DEF FavoritesBooks, RowsAreDistinct
<1>8. RowsAreTrue'
  BY <1>2, <1>6 DEF FavoritesBooks, RowsAreTrue
<1>9. StaleMarksAreDeserved'
  BY <1>1, <1>2, <1>6 DEF FavoritesBooks, StaleMarksAreDeserved
<1>. QED  BY <1>4, <1>7, <1>8, <1>9 DEF FavoritesBooks

LEMMA AddedBooks ==
    ASSUME FavoritesBooks,
           (\E row \in DOMAIN tags : AddFromTag(row)) \/ (\E place \in AdHoc : AddAdHoc(place))
    PROVE  FavoritesBooks'
<1>1. ASSUME NEW row \in DOMAIN tags, AddFromTag(row) PROVE FavoritesBooks'
  <2>. DEFINE favorite == Place(TagAt(row).type, TagAt(row).address)
              span == RegisterSpan(TagAt(row))
  <2>1. favorite = Place(favorite.type, favorite.address) /\ (IsBit(favorite) => span = 1)
    BY DEF Place, IsBit, RegisterSpan
  <2>2. Add(favorite, span)
    BY <1>1 DEF AddFromTag
  <2>. HIDE DEF favorite, span
  <2>. QED  BY <2>1, <2>2, AddBooks
<1>2. ASSUME NEW place \in AdHoc, AddAdHoc(place) PROVE FavoritesBooks'
  <2>1. place = Place(place.type, place.address)
    BY FavoritesAssumption DEF Place
  <2>. QED  BY <1>2, <2>1, AddBooks DEF AddAdHoc
<1>. QED  BY <1>1, <1>2

\* What is left of a list when one element is removed.
LEMMA Removed ==
    ASSUME NEW list, list \in Seq(Range(list)), NEW k \in DOMAIN list
    PROVE  LET rest == RemoveAt(list, k)
           IN  /\ rest \in Seq(Range(rest)) /\ DOMAIN rest = 1 .. Len(list) - 1
               /\ \A i \in DOMAIN rest : rest[i] = list[IF i < k THEN i ELSE i + 1]
<1>. DEFINE n == Len(list)
            S == Range(list)
            before == SubSeq(list, 1, k - 1)
            after == SubSeq(list, k + 1, n)
            rest == RemoveAt(list, k)
<1>1. n \in Nat /\ k \in 1 .. n /\ \A i \in 1 .. n : list[i] \in S
  BY LenProperties, RangeEquality
<1>2. /\ before \in Seq(S) /\ Len(before) = k - 1
      /\ \A i \in 1 .. k - 1 : before[i] = list[i]
  BY <1>1, SubSeqProperties
<1>3. /\ after \in Seq(S) /\ Len(after) = n - k
      /\ \A i \in 1 .. n - k : after[i] = list[k + i]
  BY <1>1, SubSeqProperties
<1>4. rest = before \o after
  BY DEF RemoveAt
<1>. HIDE DEF before, after, rest, S
<1>5. /\ rest \in Seq(S) /\ Len(rest) = n - 1
      /\ \A i \in 1 .. n - 1 : rest[i] = IF i <= k - 1 THEN before[i] ELSE after[i - (k - 1)]
  <2>1. /\ before \o after \in Seq(S) /\ Len(before \o after) = Len(before) + Len(after)
        /\ \A i \in 1 .. Len(before) + Len(after) :
               (before \o after)[i] = IF i <= Len(before) THEN before[i] ELSE after[i - Len(before)]
    BY <1>2, <1>3, ConcatProperties, Zenon
  <2>2. Len(before) + Len(after) = n - 1
    BY <1>1, <1>2, <1>3
  <2>. QED  BY <1>2, <1>4, <2>1, <2>2, Zenon
<1>6. rest \in Seq(Range(rest)) /\ DOMAIN rest = 1 .. n - 1
  BY <1>5, SeqOfRange, LenProperties
<1>7. ASSUME NEW i \in 1 .. n - 1 PROVE rest[i] = list[IF i < k THEN i ELSE i + 1]
  <2>1. CASE i < k
    <3>1. i \in 1 .. k - 1
      BY <1>1, <2>1
    <3>. QED  BY <1>2, <1>5, <2>1, <3>1
  <2>2. CASE i >= k
    <3>1. rest[i] = after[i - (k - 1)] /\ i - (k - 1) \in 1 .. n - k
      BY <1>1, <1>5, <2>2
    <3>2. after[i - (k - 1)] = list[k + (i - (k - 1))]
      BY <1>3, <3>1
    <3>3. k + (i - (k - 1)) = i + 1
      BY <1>1
    <3>. QED  BY <1>1, <2>2, <3>1, <3>2, <3>3
  <2>. QED  BY <1>1, <2>1, <2>2
<1>. QED  BY <1>6, <1>7 DEF rest

LEMMA RemoveBooks ==
    ASSUME FavoritesBooks, NEW k \in DOMAIN entries, RemoveRow(k)
    PROVE  FavoritesBooks'
<1>. DEFINE old(i) == IF i < k THEN i ELSE i + 1
<1>1. /\ Edit(RemoveAt(entries, k)) /\ failing' = failing \ {entries[k].favorite}
  BY DEF RemoveRow
<1>2. entries \in Seq(Range(entries)) /\ Len(entries) \in Nat /\ DOMAIN entries = 1 .. Len(entries)
  BY ListIsFunction DEF FavoritesBooks, RowsAreDistinct
<1>3. entries' = RemoveAt(entries, k) /\ TargetsAreTheRows' /\ ModeIsPolled'
  BY <1>1, EditBooks
<1>4. /\ entries' \in Seq(Range(entries')) /\ DOMAIN entries' = 1 .. Len(entries) - 1
      /\ \A i \in DOMAIN entries' : entries'[i] = entries[old(i)]
  BY <1>2, <1>3, Removed
<1>5. \A i \in DOMAIN entries' : old(i) \in DOMAIN entries /\ old(i) # k
  BY <1>2, <1>4
<1>6. \A i, j \in DOMAIN entries' : old(i) = old(j) => i = j
  BY <1>2, <1>4
<1>. HIDE DEF old
<1>7. RowsAreDistinct'
  BY <1>4, <1>5, <1>6 DEF FavoritesBooks, RowsAreDistinct
<1>8. RowsAreTrue'
  BY <1>4, <1>5 DEF FavoritesBooks, RowsAreTrue
<1>9. StaleMarksAreDeserved'
  BY <1>1, <1>4, <1>5 DEF FavoritesBooks, RowsAreDistinct, StaleMarksAreDeserved
<1>. QED  BY <1>3, <1>7, <1>8, <1>9 DEF FavoritesBooks

\* One row in place of another for the same favorite.
LEMMA Replaced ==
    ASSUME FavoritesBooks, NEW k \in DOMAIN entries, NEW row, IsRow(row),
           row.favorite = entries[k].favorite,
           entries[k].favorite.address \in Register => IsTrue(row),
           entries' = [entries EXCEPT ![k] = row]
    PROVE  RowsAreDistinct' /\ RowsAreTrue'
<1>1. /\ Len(entries) \in Nat /\ DOMAIN entries = 1 .. Len(entries)
      /\ entries = [i \in 1 .. Len(entries) |-> entries[i]]
  BY ListIsFunction DEF FavoritesBooks, RowsAreDistinct
<1>2. /\ entries' = [i \in 1 .. Len(entries) |-> entries'[i]]
      /\ \A i \in DOMAIN entries : entries'[i] = IF i = k THEN row ELSE entries[i]
  BY <1>1
<1>3. entries' \in Seq(Range(entries')) /\ DOMAIN entries' = DOMAIN entries
  BY <1>1, <1>2, FunctionIsList
<1>4. RowsAreDistinct'
  BY <1>2, <1>3 DEF FavoritesBooks, RowsAreDistinct
<1>5. RowsAreTrue'
  BY <1>2, <1>3 DEF FavoritesBooks, RowsAreTrue
<1>. QED  BY <1>4, <1>5

LEMMA FormatBooks ==
    ASSUME FavoritesBooks, NEW k \in DOMAIN entries, SetFormatAt(k)
    PROVE  FavoritesBooks'
<1>1. PICK span \in {1, 2} : Edit([entries EXCEPT ![k] = Reformatted(@, span)])
  BY DEF SetFormatAt
<1>. DEFINE row == Reformatted(entries[k], span)
<1>2. /\ ~IsBit(entries[k].favorite) /\ UNCHANGED failing /\ IsRow(entries[k])
  BY DEF SetFormatAt, FavoritesBooks, RowsAreDistinct
<1>3. IsRow(row) /\ row.favorite = entries[k].favorite /\ row.stale = entries[k].stale /\ IsTrue(row)
  BY <1>2, ReformattedIsTrue
<1>4. entries' = [entries EXCEPT ![k] = row] /\ TargetsAreTheRows' /\ ModeIsPolled'
  BY <1>1, EditBooks
<1>. HIDE DEF row
<1>5. RowsAreDistinct' /\ RowsAreTrue'
  BY <1>3, <1>4, Replaced
<1>6. StaleMarksAreDeserved'
  <2>1. DOMAIN entries' = DOMAIN entries /\ \A i \in DOMAIN entries : entries'[i] = IF i = k THEN row ELSE entries[i]
    BY <1>4
  <2>. QED  BY <1>2, <1>3, <2>1 DEF FavoritesBooks, StaleMarksAreDeserved
<1>. QED  BY <1>4, <1>5, <1>6 DEF FavoritesBooks

LEMMA FailsBooks ==
    ASSUME FavoritesBooks, NEW k \in DOMAIN targets, TargetFails(k)
    PROVE  FavoritesBooks'
<1>. DEFINE row == [entries[k] EXCEPT !.stale = TRUE]
<1>1. /\ running /\ active /\ failing' = failing \cup {targets[k].favorite}
      /\ entries' = IF k \in DOMAIN entries THEN [entries EXCEPT ![k].stale = TRUE] ELSE entries
      /\ UNCHANGED <<favoritesMode, running, active, targets, dirty, lost, resume>>
  BY DEF TargetFails, pollVars
<1>2. targets = BuildPollTargets(entries)
  BY <1>1 DEF FavoritesBooks, TargetsAreTheRows
<1>3. k \in DOMAIN entries /\ targets[k].favorite = entries[k].favorite
  BY <1>2 DEF BuildPollTargets
<1>4. IsRow(entries[k]) /\ entries' = [entries EXCEPT ![k] = row]
  BY <1>1, <1>3 DEF FavoritesBooks, RowsAreDistinct
<1>5. /\ IsRow(row) /\ row.favorite = entries[k].favorite /\ row.span = entries[k].span /\ row.stale
      /\ IsTrue(entries[k]) => IsTrue(row)
  BY <1>4, MarkedIsTrue
<1>. HIDE DEF row
<1>6. RowsAreDistinct' /\ RowsAreTrue'
  BY <1>3, <1>4, <1>5, Replaced DEF FavoritesBooks, RowsAreTrue
<1>7. DOMAIN entries' = DOMAIN entries /\ \A i \in DOMAIN entries : entries'[i] = IF i = k THEN row ELSE entries[i]
  BY <1>4
<1>8. StaleMarksAreDeserved'
  BY <1>1, <1>3, <1>5, <1>7 DEF FavoritesBooks, StaleMarksAreDeserved
<1>9. BuildPollTargets(entries') = BuildPollTargets(entries)
  BY <1>5, <1>7, SameTargets
<1>10. TargetsAreTheRows' /\ ModeIsPolled'
  BY <1>1, <1>2, <1>9 DEF FavoritesBooks, TargetsAreTheRows, ModeIsPolled
<1>. QED  BY <1>6, <1>8, <1>10 DEF FavoritesBooks

LEMMA FlushBooks ==
    ASSUME FavoritesBooks, Flush
    PROVE  FavoritesBooks'
<1>1. /\ entries' = [i \in DOMAIN entries |->
                         IF i \in dirty THEN Applied(entries[i], targets[i]) ELSE entries[i]]
      /\ dirty # {} /\ dirty' = {} /\ failing' = failing \ {targets[i].favorite : i \in dirty}
      /\ UNCHANGED <<favoritesMode, running, active, targets, lost, resume>>
  BY DEF Flush
<1>2. running /\ active /\ targets = BuildPollTargets(entries) /\ dirty \subseteq DOMAIN targets
  BY <1>1 DEF FavoritesBooks, TargetsAreTheRows
<1>3. /\ DOMAIN targets = DOMAIN entries
      /\ \A i \in dirty : targets[i] = [reading |-> Reading(entries[i]), favorite |-> entries[i].favorite]
  BY <1>2 DEF BuildPollTargets
<1>4. /\ Len(entries) \in Nat /\ DOMAIN entries = 1 .. Len(entries)
      /\ \A i \in DOMAIN entries : IsRow(entries[i])
  BY ListIsFunction DEF FavoritesBooks, RowsAreDistinct
<1>5. entries' \in Seq(Range(entries')) /\ DOMAIN entries' = DOMAIN entries
  <2>1. entries' = [i \in 1 .. Len(entries) |-> entries'[i]]
    BY <1>1, <1>4
  <2>. QED  BY <1>4, <2>1, FunctionIsList
<1>6. ASSUME NEW i \in DOMAIN entries
      PROVE  /\ IsRow(entries'[i]) /\ entries'[i].favorite = entries[i].favorite
             /\ entries'[i].span = entries[i].span
             /\ entries[i].favorite.address \in Register /\ IsTrue(entries[i]) => IsTrue(entries'[i])
             /\ entries'[i].stale => entries[i].stale /\ i \notin dirty
  <2>1. CASE i \in dirty
    <3>1. entries'[i] = Applied(entries[i], targets[i])
      BY <1>1, <2>1
    <3>2. targets[i] = [reading |-> Reading(entries[i]), favorite |-> entries[i].favorite]
      BY <1>3, <2>1
    <3>3. LET row == Applied(entries[i], targets[i])
          IN  /\ IsRow(row) /\ row.favorite = entries[i].favorite /\ row.span = entries[i].span
              /\ ~row.stale
              /\ entries[i].favorite.address \in Register /\ IsTrue(entries[i]) => IsTrue(row)
      BY <1>4, <3>2, AppliedIsTrue
    <3>. QED  BY <3>1, <3>3
  <2>2. CASE i \notin dirty
    BY <1>1, <1>4, <2>2
  <2>. QED  BY <2>1, <2>2
<1>7. RowsAreDistinct'
  BY <1>5, <1>6 DEF FavoritesBooks, RowsAreDistinct
<1>8. RowsAreTrue'
  BY <1>5, <1>6 DEF FavoritesBooks, RowsAreTrue
<1>9. StaleMarksAreDeserved'
  <2>. SUFFICES ASSUME NEW i \in DOMAIN entries, entries'[i].stale PROVE entries'[i].favorite \in failing'
    BY <1>5 DEF StaleMarksAreDeserved
  <2>1. entries[i].stale /\ i \notin dirty /\ entries[i].favorite \in failing
    BY <1>6 DEF FavoritesBooks, StaleMarksAreDeserved
  <2>2. \A j \in dirty : targets[j].favorite # entries[i].favorite
    <3>. TAKE j \in dirty
    <3>1. j \in DOMAIN entries
      BY <1>2, <1>3
    <3>2. j # i
      BY <2>1
    <3>3. targets[j] = [reading |-> Reading(entries[j]), favorite |-> entries[j].favorite]
      BY <1>3
    <3>4. targets[j].favorite = entries[j].favorite
      BY <3>3
    <3>. QED  BY <3>1, <3>2, <3>4 DEF FavoritesBooks, RowsAreDistinct
  <2>. QED  BY <1>1, <1>6, <2>1, <2>2
<1>10. BuildPollTargets(entries') = BuildPollTargets(entries)
  BY <1>5, <1>6, SameTargets
<1>11. TargetsAreTheRows' /\ ModeIsPolled'
  BY <1>1, <1>2, <1>10 DEF FavoritesBooks, TargetsAreTheRows, ModeIsPolled
<1>. QED  BY <1>7, <1>8, <1>9, <1>11 DEF FavoritesBooks

LEMMA NextBooks == FavoritesBooks /\ [Next]_vars => FavoritesBooks'
<1>. SUFFICES ASSUME FavoritesBooks, [Next]_vars PROVE FavoritesBooks'
  OBVIOUS
<1>1. CASE User
  BY <1>1, EngineBooks, AddedBooks, RemoveBooks, FormatBooks DEF User
<1>2. CASE ConnectionLost \/ ConnectionRestored \/ UNCHANGED vars
  BY <1>2, EngineBooks
<1>3. CASE \E i \in DOMAIN targets : TargetAnswered(i) \/ TargetFails(i)
  BY <1>3, EngineBooks, FailsBooks
<1>4. CASE Flush
  BY <1>4, FlushBooks
<1>. QED  BY <1>1, <1>2, <1>3, <1>4 DEF Next

-----------------------------------------------------------------------------
(* What the rows show.                                                     *)

\* The engine's targets are those of the rows, and the rows show what was read for
\* them, between any two events.
THEOREM FavoritesCorrect == Spec => []FavoritesBooks
  BY InitBooks, NextBooks, PTL DEF Spec

\* No row, and no point of a sparkline, ever shows what was read for another favorite
\* or in another format, although the engine knows the rows by index only.
THEOREM RowsCorrect == Spec => []RowsShowTheirFavorite
<1>1. FavoritesBooks => RowsShowTheirFavorite
  <2>. SUFFICES ASSUME FavoritesBooks, NEW i \in DOMAIN entries, entries[i].favorite.address \in Register
                PROVE  LET own == [of |-> entries[i].favorite, span |-> entries[i].span]
                       IN  /\ entries[i].value \in {own, Zeros(entries[i].span)}
                           /\ Len(entries[i].history) <= Capacity
                           /\ \A p \in DOMAIN entries[i].history : entries[i].history[p] = own
    BY DEF RowsShowTheirFavorite
  <2>. DEFINE own == [of |-> entries[i].favorite, span |-> entries[i].span]
  <2>1. /\ entries[i].value \in {own, Zeros(entries[i].span)}
        /\ entries[i].history \in Seq({own}) /\ Len(entries[i].history) <= Capacity
    BY DEF FavoritesBooks, RowsAreTrue, IsTrue
  <2>. HIDE DEF own
  <2>2. \A p \in DOMAIN entries[i].history : entries[i].history[p] = own
    BY <2>1
  <2>. QED  BY <2>1, <2>2 DEF own
<1>. QED  BY <1>1, FavoritesCorrect, PTL

\* A mark of a failure is on the row whose own poll failed, and goes with its next value.
THEOREM StaleMarksCorrect == Spec => []StaleMarksAreDeserved
<1>1. FavoritesBooks => StaleMarksAreDeserved
  BY DEF FavoritesBooks
<1>. QED  BY <1>1, FavoritesCorrect, PTL
=============================================================================

---------------------------- MODULE FavoritesView ----------------------------
(***************************************************************************)
(* Favorites mode: app-lib/models/TagDatabaseModel, the imported tags, and *)
(* FavoritesModel, whose rows the engine knows only by the index they had  *)
(* when its targets were built, with the calls MainScreen makes after each *)
(* edit and the pauses of a lost connection.                               *)
(*                                                                         *)
(* The engine is what PollEngine promises: while it runs it may have read  *)
(* any of its targets, or have failed to.  A value is known by the place   *)
(* on the device and the number of registers it was read from.             *)
(***************************************************************************)
EXTENDS TagImport

CONSTANTS
    Files,          \* the files the user imports, each with the table it was written from
    AdHoc,          \* the [type, address] the user adds by hand
    Capacity,       \* kHistoryCapacity
    MaxImported,    \* bound: rows of tables imported
    MaxRows         \* bound: favorites at a time

ASSUME FavoritesAssumption ==
    /\ AdHoc \subseteq [type : RegisterTypes, address : Register]
    /\ Capacity \in Nat \ {0} /\ MaxImported \in Nat /\ MaxRows \in Nat

VARIABLES
    tags,           \* m_tags
    entries,        \* m_entries
    favoritesMode,  \* PollModeController.mode
    running,        \* the engine runs
    active,         \* m_activeFavoritesModel is set
    targets,        \* the engine's targets, as built from the rows
    dirty,          \* targets read and not flushed yet
    lost,           \* the connection is lost, the watermark covers the screen
    resume,         \* m_resumePollingOnReconnect
    failing,        \* history: favorites whose last poll shown was a failure
    imported,       \* history: the rows of the tables imported
    complaints      \* history: how many rows the imports reported as errors

importVars == <<tags, imported, complaints>>
pollVars == <<running, active, targets, dirty>>
vars == <<importVars, entries, favoritesMode, pollVars, lost, resume, failing>>

\* A type of registers and an address; IsBit says whether the registers are bits.
Place(type, address) == [type |-> type, address |-> address]
IsBit(favorite) == favorite.type \in BitTypes

\* A row: its value holds span registers, zeros until it is read.
Zeros(n) == [of |-> Place("none", 0), span |-> n]
Entry(favorite, span) ==
    [favorite |-> favorite, span |-> span, value |-> Zeros(span), history |-> <<>>, stale |-> FALSE]

\* What the device is asked for: the address as a quint16.
Reading(entry) ==
    [of |-> Place(entry.favorite.type, entry.favorite.address % 65536), span |-> entry.span]

\* buildPollTargets(), each with the favorite it is for.
BuildPollTargets(rows) ==
    [i \in DOMAIN rows |-> [reading |-> Reading(rows[i]), favorite |-> rows[i].favorite]]

Init ==
    /\ tags = <<>> /\ imported = <<>> /\ complaints = 0
    /\ entries = <<>> /\ favoritesMode = FALSE
    /\ running = FALSE /\ active = FALSE /\ targets = <<>> /\ dirty = {}
    /\ lost = FALSE /\ resume = FALSE
    /\ failing = {}

-----------------------------------------------------------------------------
(* Polling.                                                                *)

\* startPollingFavorites() or startPolling(), whose one target is the table's.
BeginPolling(favorites, rows) ==
    /\ running' = TRUE
    /\ active' = favorites
    /\ targets' = IF favorites THEN BuildPollTargets(rows) ELSE <<>>
    /\ dirty' = {}

StartPolling ==
    /\ ~lost /\ ~running
    /\ BeginPolling(favoritesMode, entries)
    /\ UNCHANGED <<importVars, entries, favoritesMode, lost, resume, failing>>

\* stop() also stops the flush timer.
Stop == running' = FALSE /\ dirty' = {} /\ UNCHANGED <<active, targets>>

StopPolling ==
    /\ ~lost /\ running
    /\ Stop
    /\ UNCHANGED <<importVars, entries, favoritesMode, lost, resume, failing>>

\* setMode(), and onModeChanged(), which retargets a running engine.
SetMode ==
    /\ ~lost
    /\ favoritesMode' = ~favoritesMode
    /\ IF running THEN BeginPolling(favoritesMode', entries) ELSE UNCHANGED pollVars
    /\ UNCHANGED <<importVars, entries, lost, resume, failing>>

\* handleTransportConnectionStateChanged()
ConnectionLost ==
    /\ ~lost
    /\ lost' = TRUE /\ resume' = running
    /\ IF running THEN Stop ELSE UNCHANGED pollVars
    /\ UNCHANGED <<importVars, entries, favoritesMode, failing>>

ConnectionRestored ==
    /\ lost
    /\ lost' = FALSE /\ resume' = FALSE
    /\ IF resume THEN BeginPolling(active, entries) ELSE UNCHANGED pollVars
    /\ UNCHANGED <<importVars, entries, favoritesMode, failing>>

-----------------------------------------------------------------------------
(* Edits, each with the call the screen makes after it.                    *)

\* Bug: the engine keeps the targets it has.
KeepsTargets(rows) == UNCHANGED pollVars

\* retargetFavoritesPollingIfActive()
Retarget(rows) ==
    IF running /\ favoritesMode THEN BeginPolling(TRUE, rows) ELSE UNCHANGED pollVars

Edit(rows) ==
    /\ ~lost
    /\ entries' = rows
    /\ Retarget(rows)
    /\ UNCHANGED <<importVars, favoritesMode, lost, resume>>

AddTags(new) == tags' = tags \o new
TagAt(row)   == tags[row]

\* "Import Tags...": addTags() and importFinished().  (Bound: before anything is added
\* or polled.  An import touches nothing else, and a later one may as well come first.)
Import(file) ==
    /\ Len(imported) + Len(file.table) <= MaxImported /\ entries = <<>> /\ ~running
    /\ LET result == ParseFile(file)
       IN  /\ AddTags(result.tags)
           /\ complaints' = complaints + Cardinality(result.errors \ {0})
    /\ imported' = imported \o file.table
    /\ UNCHANGED <<entries, favoritesMode, pollVars, lost, resume, failing>>

\* (Bound: a place is added at most once at a time.)
Add(favorite, span) ==
    /\ Len(entries) < MaxRows
    /\ \A i \in DOMAIN entries : entries[i].favorite # favorite
    /\ Edit(Append(entries, Entry(favorite, span)))
    /\ UNCHANGED failing

AddFromTag(row) ==
    Add(Place(TagAt(row).type, TagAt(row).address), RegisterSpan(TagAt(row)))

AddAdHoc(place) == Add(place, 1)

RemoveRow(row) ==
    /\ Edit(RemoveAt(entries, row))
    /\ failing' = failing \ {entries[row].favorite}

\* Bug: the points computed under the old format stay in the sparkline.
KeepsHistory(entry, span) == [entry EXCEPT !.span = span, !.value = Zeros(span)]

Reformatted(entry, span) ==
    [entry EXCEPT !.span = span, !.value = Zeros(span), !.history = <<>>]

\* setFormatAt(), from the format picker.
SetFormatAt(row) ==
    /\ ~IsBit(entries[row].favorite)
    /\ \E span \in {1, 2} : Edit([entries EXCEPT ![row] = Reformatted(@, span)])
    /\ UNCHANGED failing

-----------------------------------------------------------------------------
(* The engine's signals.                                                   *)

TargetAnswered(i) ==
    /\ running /\ active
    /\ dirty' = dirty \cup {i}
    /\ UNCHANGED <<importVars, entries, favoritesMode, running, active, targets, lost, resume, failing>>

\* applyRegisterUpdate(), applyBitUpdate(): an answer of another size is stale.
Applied(entry, target) ==
    IF ~IsBit(entry.favorite) /\ target.reading.span # entry.span THEN entry
    ELSE [entry EXCEPT
            !.value = target.reading,
            !.stale = FALSE,
            !.history = IF IsBit(entry.favorite) THEN @
                        ELSE LET points == Append(@, target.reading)
                             IN  IF Len(points) > Capacity THEN Tail(points) ELSE points]

\* flushPendingUpdates(), whose signals the controller relays to the favorites.
Flush ==
    /\ dirty # {}
    /\ entries' = [i \in DOMAIN entries |->
                       IF i \in dirty THEN Applied(entries[i], targets[i]) ELSE entries[i]]
    /\ dirty' = {}
    /\ failing' = failing \ {targets[i].favorite : i \in dirty}
    /\ UNCHANGED <<importVars, favoritesMode, running, active, targets, lost, resume>>

\* targetFailed, markStale()
TargetFails(i) ==
    /\ running /\ active
    /\ entries' = IF i \in DOMAIN entries THEN [entries EXCEPT ![i].stale = TRUE] ELSE entries
    /\ failing' = failing \cup {targets[i].favorite}
    /\ UNCHANGED <<importVars, favoritesMode, pollVars, lost, resume>>

-----------------------------------------------------------------------------
User ==
    \/ StartPolling \/ StopPolling \/ SetMode
    \/ \E file \in Files : Import(file)
    \/ \E row \in DOMAIN tags : AddFromTag(row)
    \/ \E place \in AdHoc : AddAdHoc(place)
    \/ \E row \in DOMAIN entries : RemoveRow(row) \/ SetFormatAt(row)

Next ==
    \/ User
    \/ ConnectionLost \/ ConnectionRestored
    \/ \E i \in DOMAIN targets : TargetAnswered(i) \/ TargetFails(i)
    \/ Flush

Spec == Init /\ [][Next]_vars

-----------------------------------------------------------------------------
(* Properties.                                                             *)

\* A row shows zeros or what was read from its own place in its present format, and
\* so does each point of its sparkline, although the engine knows rows by index only
\* and rows come, go and change while answers are under way.  (An imported address
\* may be beyond the device's; the row then shows what another place holds.)
RowsShowTheirFavorite ==
    \A i \in {j \in DOMAIN entries : entries[j].favorite.address \in Register} :
        LET own == [of |-> entries[i].favorite, span |-> entries[i].span]
        IN  /\ entries[i].value \in {own, Zeros(entries[i].span)}
            /\ Len(entries[i].history) <= Capacity
            /\ \A p \in DOMAIN entries[i].history : entries[i].history[p] = own

\* A row is marked stale only if it was its own poll that failed, and it has not been
\* shown a value since; a failure elsewhere, or one before it was removed and added
\* again, leaves no mark.
StaleMarksAreDeserved ==
    \A i \in DOMAIN entries : entries[i].stale => entries[i].favorite \in failing

\* What the two properties above rest on, invariants by induction.
\* A row has the parts Entry() gives it; a bit takes one place.
IsRow(row) ==
    /\ row \in [favorite : {Place(row.favorite.type, row.favorite.address)}, span : {row.span},
               value : {row.value}, history : {row.history}, stale : {row.stale}]
    /\ IsBit(row.favorite) => row.span = 1

\* The rows are a list, of favorites that differ.
RowsAreDistinct ==
    /\ entries \in Seq(Range(entries))
    /\ \A i \in DOMAIN entries : IsRow(entries[i])
    /\ \A i, j \in DOMAIN entries : entries[i].favorite = entries[j].favorite => i = j

\* What a row on the device's side of the address space shows, and its sparkline.
IsTrue(row) ==
    LET own == [of |-> row.favorite, span |-> row.span]
    IN  /\ row.value \in {own, Zeros(row.span)}
        /\ row.history \in Seq({own}) /\ Len(row.history) <= Capacity

RowsAreTrue == \A i \in DOMAIN entries : entries[i].favorite.address \in Register => IsTrue(entries[i])

\* While favorites are polled the engine's targets are those of the present rows, in
\* their order, and what is to be flushed was read for them.
TargetsAreTheRows ==
    /\ running /\ active => targets = BuildPollTargets(entries)
    /\ dirty # {} => running /\ active
    /\ dirty \subseteq DOMAIN targets

\* The engine polls favorites exactly in Favorites mode, also after a loss.
ModeIsPolled ==
    /\ running \/ resume => (active <=> favoritesMode)
    /\ resume => lost /\ ~running

FavoritesBooks ==
    RowsAreDistinct /\ RowsAreTrue /\ TargetsAreTheRows /\ ModeIsPolled /\ StaleMarksAreDeserved

\* The database holds the tags that the rows of the imported tables describe, in
\* their order, and every other row was complained of: the same from a CSV file,
\* whatever the order of its columns, its blank lines and the commas missing at the
\* ends of its lines, as from a JSON file of the same rows.  A file without the
\* columns an import needs, or that is no table at all, adds nothing.
TagsAreTheTables ==
    LET rows == ParseRows(imported)
    IN  tags = rows.tags /\ complaints = Cardinality(rows.errors)
=============================================================================

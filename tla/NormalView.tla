----------------------------- MODULE NormalView -----------------------------
(***************************************************************************)
(* Normal mode end to end: the register table and the filtered list that   *)
(* shows it, the format picker, the controller's one-shot reads and        *)
(* writes, and the readings of the poll engine, with the calls MainScreen  *)
(* makes between them.                                                     *)
(*                                                                         *)
(* Engine and one-shots share one transaction manager.  The engine is what *)
(* PollEngine promises: while it runs it may at any time have read its     *)
(* target again.  The one-shot requests are what the manager promises:     *)
(* answered, failed, or dropped by cancelAll().  A register's value is its *)
(* type, its address and a bit that changes.                               *)
(***************************************************************************)
EXTENDS RegisterFilterProxyModel

CONSTANTS
    Types,          \* the register types the user looks at
    Ranges,         \* what the address and quantity fields may hold
    FilterTexts,    \* what the search field may hold
    Formattable,    \* bound: the addresses whose format the user changes
    MaxOneShots     \* bound: one-shot requests in all

ASSUME ViewAssumption ==
    /\ Types \subseteq BitTypes \cup WordTypes
    /\ Ranges \subseteq [start : Addresses, quantity : Nat \ {0}]
    /\ \A r \in Ranges : r.start .. r.start + r.quantity - 1 \subseteq Addresses
    /\ FilterTexts \subseteq {NoText} \cup 0 .. 9
    /\ Formattable \subseteq Addresses
    /\ MaxOneShots \in Nat

VARIABLES
    table,          \* the RegisterTableModel
    filterText,     \* the filter of the list
    list,           \* what the delegates of the list show
    picker,         \* the format picker: its target row, or 0 when it is closed, and
                    \* the range of the table and the clicked address at its opening
    favoritesMode,  \* PollModeController.mode
    polling,        \* the engine runs; its target and whether favorites are polled
    reading,        \* what the engine has read and not flushed yet, or <<>>
    pending,        \* the controller's m_pending... fields
    pendingId,      \* m_pendingCorrelationId
    requests        \* its one-shot requests the manager has not settled

tableVars == <<table, filterText, list, picker>>
pollVars  == <<favoritesMode, polling, reading>>
shotVars  == <<pending, pendingId, requests>>
vars == <<tableVars, pollVars, shotVars>>

\* A pending operation, and a request on its way.  What the fields of the controller
\* keep when nothing is pending is not read again.
Nothing == [does |-> "nothing", type |-> "HoldingRegister", start |-> 0, quantity |-> 0]
Operation(does, type, start, quantity) ==
    [does |-> does, type |-> type, start |-> start, quantity |-> quantity]
Request(id, operation) == [id |-> id, asks |-> operation]

Idle == [running |-> FALSE, favorites |-> FALSE, target |-> Nothing]
RangeOf(t) == <<t.start, Len(t.words)>>
Closed == [row |-> 0, range |-> <<>>, address |-> {}]

\* What a device may answer to a read.
Readings(type, start, quantity) ==
    { [i \in 1 .. quantity |-> [type |-> type, address |-> start + i - 1, value |-> bit[i]]] :
        bit \in [1 .. quantity -> {0, 1}] }

Init ==
    /\ table = EmptyTable("HoldingRegister") /\ filterText = NoText /\ list = <<>>
    /\ picker = Closed
    /\ favoritesMode = FALSE
    /\ polling = Idle
    /\ reading = <<>>
    /\ pending = Nothing /\ pendingId = 0
    /\ requests = {}

\* What the address and quantity fields ask to read.
ReadsOnScreen(type) == {Operation("read", type, r.start, r.quantity) : r \in Ranges}

\* An operation on the table, and what its signal does to the list.
Show(result) ==
    /\ table' = result.table
    /\ list' = Follows(list, result.table, filterText, result.signal)
    /\ UNCHANGED <<filterText, picker>>

-----------------------------------------------------------------------------
(* ConnectionController: polling.                                          *)

\* beginPolling(): setTargets() clears the caches and cancels every request.
BeginPolling(favorites, target) ==
    /\ polling' = [running |-> TRUE, favorites |-> favorites, target |-> target]
    /\ reading' = <<>>
    /\ requests' = {}
    /\ UNCHANGED <<pending, pendingId>>

\* startPolling() with what the screen shows, or startPollingFavorites().
StartWhatIsShown(favorites, type) ==
    IF favorites THEN BeginPolling(TRUE, Nothing)
    ELSE \E read \in ReadsOnScreen(type) : BeginPolling(FALSE, read)

StartPolling ==
    /\ ~polling.running
    /\ StartWhatIsShown(favoritesMode, table.type)
    /\ UNCHANGED <<tableVars, favoritesMode>>

StopPolling ==
    /\ polling.running
    /\ polling' = Idle
    /\ reading' = <<>>
    /\ requests' = {}
    /\ UNCHANGED <<tableVars, favoritesMode, pending, pendingId>>

\* onModeChanged() retargets a running engine.
SetMode ==
    /\ favoritesMode' = ~favoritesMode
    /\ IF polling.running
       THEN StartWhatIsShown(favoritesMode', table.type)
       ELSE UNCHANGED <<polling, reading, shotVars>>
    /\ UNCHANGED tableVars

\* Bug: a running poll goes on with the old type.
PollsOldType == FALSE

\* The type box retargets a running poll of the table.
RetargetsOnType == polling.running /\ ~favoritesMode

\* registerModel.registerType = index, and what the type box does after it.
SetType ==
    /\ \E type \in Types \ {table.type} :
          /\ Show(SetRegisterType(table, type))
          /\ IF RetargetsOnType
             THEN StartWhatIsShown(FALSE, type)
             ELSE UNCHANGED <<polling, reading, shotVars>>
    /\ UNCHANGED favoritesMode

PollsTable == polling.running /\ ~polling.favorites

PollAnswered ==
    /\ PollsTable
    /\ reading' \in Readings(polling.target.type, polling.target.start, polling.target.quantity)
    /\ UNCHANGED <<tableVars, favoritesMode, polling, shotVars>>

\* targetFailed, registerReadFailed
PollFails ==
    /\ PollsTable
    /\ Show(MarkStale(table))
    /\ UNCHANGED <<pollVars, shotVars>>

\* onHoldingRegistersRead(), onBitsRead()
ShowReading(type, start, cells) ==
    Show(IF IsBitType(type) THEN SetBits(table, start, cells) ELSE SetRegisters(table, start, cells))

\* flushPendingUpdates()
Flush ==
    /\ reading # <<>>
    /\ ShowReading(polling.target.type, polling.target.start, reading)
    /\ reading' = <<>>
    /\ UNCHANGED <<favoritesMode, polling, shotVars>>

-----------------------------------------------------------------------------
(* ConnectionController: one-shot requests.                                *)

\* readRegisters() with the type, address and quantity on the screen.
ReadRegisters ==
    /\ ~polling.running
    /\ pendingId < MaxOneShots
    /\ pending' \in ReadsOnScreen(table.type)
    /\ requests' = requests \cup {Request(pendingId + 1, pending')}
    /\ pendingId' = pendingId + 1
    /\ UNCHANGED <<tableVars, pollVars>>

\* writeSingleRegister() or writeSingleCoil(), once for each of several registers.  The
\* address of a write is not kept: its answer is not shown in a row.
Write(type, count) ==
    /\ pendingId + count <= MaxOneShots
    /\ LET ask == Operation("write", type, 0, 0)
       IN  /\ pending' = ask
           /\ requests' = requests \cup {Request(pendingId + k, ask) : k \in 1 .. count}
    /\ pendingId' = pendingId + count
    /\ UNCHANGED <<tableVars, pollVars>>

\* The row of the table that a click on a delegate of the list is for.
RowOfDelegate(delegate) ==
    MapRowToSource(list, Cardinality({row \in DOMAIN list : row <= delegate}))

\* setValueAt(), setBitAt(): from a row of a writable table.
WriteRow ==
    /\ IsWritableType(table.type)
    /\ \E delegate \in DOMAIN list : Write(table.type, table.rows[RowOfDelegate(delegate)].span)

\* The same from a favorite, whatever the table shows.
WriteFavorite == Write("HoldingRegister", 1)

\* Bug: every answer is taken for the answer to the latest request.
TakesAny(r) == TRUE

IsLatest(r) == r.id = pendingId

Settle(r) == requests' = requests \ {r} /\ UNCHANGED <<pollVars, pendingId>>

\* An answer or failure of a request that is not the latest, or that nobody waits
\* for any more: the controller ignores it.
Ignored(r) == ~IsLatest(r) \/ pending.does = "nothing"

AnswerIgnored(r) ==
    /\ Ignored(r)
    /\ Settle(r)
    /\ pending' = IF IsLatest(r) THEN Nothing ELSE pending
    /\ UNCHANGED tableVars

\* handleResponseReceived() of a read: shown where the pending operation says.
ReadAnswered(r) ==
    /\ ~Ignored(r) /\ r.asks.does = "read" /\ pending.does = "read"
    /\ \E cells \in Readings(r.asks.type, r.asks.start, r.asks.quantity) :
          ShowReading(pending.type, pending.start, cells)
    /\ pending' = Nothing
    /\ Settle(r)

\* handleResponseReceived() of a write.  Inside the signal the screen reads its range
\* again; on return the pending operation is cleared.
WriteAnswered(r) ==
    /\ ~Ignored(r) /\ r.asks.does = "write" /\ pending.does = "write"
    /\ pendingId < MaxOneShots
    /\ \E reread \in ReadsOnScreen(table.type) :
          requests' = (requests \ {r}) \cup {Request(pendingId + 1, reread)}
    /\ pending' = Nothing
    /\ pendingId' = pendingId + 1
    /\ UNCHANGED <<tableVars, pollVars>>

\* An exception, an answer of another kind than the pending one, or a timeout: shown
\* on the status line.
Refused(r) ==
    /\ ~Ignored(r)
    /\ pending' = Nothing
    /\ Settle(r)
    /\ UNCHANGED tableVars

-----------------------------------------------------------------------------
(* What is shown, and how.                                                 *)

SearchTextChanged ==
    /\ filterText' \in FilterTexts \ {filterText}
    /\ list' = SetFilterText(list, table, filterText')
    /\ UNCHANGED <<table, picker, pollVars, shotVars>>

\* DisplaySettings.addressConvention, to which the table's is bound.
SetConvention ==
    /\ \E convention \in Conventions \ {table.convention} : Show(SetAddressConvention(table, convention))
    /\ UNCHANGED <<pollVars, shotVars>>

\* openFor(), from the button on a row of registers.
OpenPicker ==
    /\ ~IsBitType(table.type)
    /\ \E delegate \in DOMAIN list :
          picker' = [row |-> RowOfDelegate(delegate), range |-> RangeOf(table),
                     address |-> list[delegate].address]
    /\ UNCHANGED <<table, filterText, list, pollVars, shotVars>>

\* OK: the row is the one of the opening, whatever the table shows by now.
ApplyFormat ==
    /\ IF picker.row \in DOMAIN table.rows
       THEN \E span \in 1 .. 2 :
              LET result == SetFormatAt(table, picker.row, span)
              IN  /\ span # DefaultSpan => table.rows[picker.row].address \in Formattable
                  /\ table' = result.table
                  /\ list' = Follows(list, result.table, filterText, result.signal)
       ELSE UNCHANGED <<table, list>>
    /\ picker' = Closed
    /\ UNCHANGED <<filterText, pollVars, shotVars>>

\* Cancel, Escape, or a click beside it.
ClosePicker ==
    /\ picker' = Closed
    /\ UNCHANGED <<table, filterText, list, pollVars, shotVars>>

OnMainScreen ==
    \/ StartPolling \/ StopPolling \/ SetMode \/ SetType
    \/ ReadRegisters \/ WriteRow \/ WriteFavorite
    \/ SearchTextChanged \/ SetConvention \/ OpenPicker

\* The picker is modal.
User ==
    \/ picker = Closed /\ OnMainScreen
    \/ picker # Closed /\ (ApplyFormat \/ ClosePicker)

Engine == PollAnswered \/ PollFails \/ Flush

Manager ==
    \E r \in requests :
        AnswerIgnored(r) \/ ReadAnswered(r) \/ WriteAnswered(r) \/ Refused(r)

Next == User \/ Engine \/ Manager

Spec == Init /\ [][Next]_vars

-----------------------------------------------------------------------------
(* Properties.                                                             *)

\* Each row shows the registers at its address, of the kind the type box says, never
\* those of an earlier range or request.  The code does not keep the type itself:
\* between two register types, or two bit types, the answer to a read that was sent
\* before the type was changed is shown under the new one.
RowsAreTrue ==
    \A row \in DOMAIN table.rows :
        LET cells == Shown(table, row)
        IN  \A k \in DOMAIN cells :
                /\ IsBitType(cells[k].type) <=> IsBitType(table.type)
                /\ cells[k].address = table.rows[row].address + k - 1

\* formatValue() gets as many registers as the format of the row takes, every register
\* is shown in exactly one row, and the rows are in the order of the addresses.  (It
\* asserts the first.)
RowsFitTheirFormat ==
    /\ \A row \in DOMAIN table.rows : Len(Shown(table, row)) = table.rows[row].span
    /\ \A i \in DOMAIN Cells(table) :
          \E row \in DOMAIN table.rows :
              \A r \in DOMAIN table.rows : Takes(table.rows[r], table.start + i - 1) <=> r = row
    /\ \A r \in DOMAIN table.rows : \A s \in DOMAIN table.rows :
          r < s => table.rows[r].address < table.rows[s].address

\* The list shows the rows the filter lets through, in order, each as the table has
\* it now: every change of the table, in place or not, is told to the list for all the
\* rows and roles it touches (setRegisters(), setAddressConvention(), setFilterText()).
ListIsCurrent == list = Rebuilt(table, filterText)

\* While the picker is open and the table keeps its range, the row the format will go
\* to is the row that was clicked, however the list is filtered (mapRowToSource()).
\* The code does not keep this across a change of the range: a reading of another
\* range that arrives in between renumbers the rows.
PickerKeepsItsRow ==
    picker.row \in DOMAIN table.rows /\ picker.range = RangeOf(table)
        => picker.address = AddressText(table, picker.row)

\* What the table may be given next: an unflushed reading, the answer to a read.
Deliveries ==
    {[type |-> polling.target.type, start |-> polling.target.start, count |-> Len(cells)] :
        cells \in {reading} \ {<<>>}}
    \cup
    {[type |-> pending.type, start |-> pending.start, count |-> r.asks.quantity] :
        r \in {q \in requests : IsLatest(q) /\ pending.does = "read"}}

\* Whatever comes finds a table it was meant for: while the table is polled it is of the
\* type in the type box, and an update in place finds a row for every register it
\* changes, also when the table was one of bits in between.
DeliveriesFitTheTable ==
    \A d \in Deliveries :
        /\ PollsTable => d.type = table.type
        /\ ~IsBitType(d.type) /\ table.start = d.start /\ Len(table.words) = d.count
               => DOMAIN table.words \subseteq DOMAIN table.rowOf

\* What the properties above rest on, invariants by induction.
Cell == [type : BitTypes \cup WordTypes, address : Nat, value : {0, 1}]

ShownTypes == Types \cup {"HoldingRegister"}

Operations ==
    {Nothing} \cup {Operation("write", type, 0, 0) : type \in ShownTypes}
        \cup UNION {ReadsOnScreen(type) : type \in ShownTypes}

Table ==
    [type : ShownTypes, convention : Conventions, start : Nat, words : Seq(Cell), bits : Seq(Cell),
     formats : [Addresses -> 1 .. 2], rows : Seq([address : Nat, span : 1 .. 2]), rowOf : Seq(Nat),
     stale : BOOLEAN]

\* The variables keep their types.
TypeOK ==
    /\ table \in Table
    /\ filterText \in FilterTexts \cup {NoText}
    /\ picker \in [row : Nat, range : {picker.range}, address : {picker.address}]
    /\ favoritesMode \in BOOLEAN
    /\ polling \in [running : BOOLEAN, favorites : BOOLEAN, target : Operations]
    /\ reading \in Seq(Cell)
    /\ pending \in Operations /\ pendingId \in Nat
    /\ requests \subseteq [id : Nat, asks : Operations]

\* The registers of a list are those from start on, of one kind.
AreFrom(cells, start, bits) ==
    \A i \in DOMAIN cells :
        /\ IsBitType(cells[i].type) <=> bits
        /\ cells[i].address = start + i - 1 /\ cells[i].address \in Addresses

\* The rows are those of the present range, formats and type, and every register in
\* them is where its place in the list says.
IsBuilt(t) ==
    /\ t.rows = LogicalRows(t) /\ t.rowOf = RowIndex(t, LogicalRows(t))
    /\ AreFrom(Cells(t), t.start, IsBitType(t.type))

TableIsBuilt == IsBuilt(table)

\* Polling goes for what is on the screen, and what it has read is what it was to read.
PollIsOnScreen ==
    /\ polling.running => polling.favorites = favoritesMode
    /\ PollsTable => polling.target \in ReadsOnScreen(table.type)
    /\ reading # <<>> =>
           /\ PollsTable
           /\ reading \in Readings(polling.target.type, polling.target.start, polling.target.quantity)

\* The latest request asks what the controller waits for; a read is only waited for
\* while nothing is polled, and finds an empty table if the type was changed since.
ReadIsAwaited ==
    \A r \in requests :
        /\ r.id <= pendingId
        /\ IsLatest(r) /\ pending.does # "nothing" => r.asks = pending
        /\ IsLatest(r) /\ pending.does = "read" =>
               /\ ~polling.running
               /\ IsBitType(pending.type) # IsBitType(table.type) => table.words = <<>> /\ table.bits = <<>>

\* The open picker is for the row that was clicked, as the range it was opened on would
\* be shown.
PickerIsOpen ==
    picker # Closed =>
        /\ ~IsBitType(table.type)
        /\ LET rows == WordRows(picker.range[1], table.formats, picker.range[2])
           IN  /\ picker.row \in DOMAIN rows
               /\ picker.address = RowText(table.type, table.convention, rows[picker.row])

ViewBooks == TypeOK /\ TableIsBuilt /\ ListIsCurrent /\ PollIsOnScreen /\ ReadIsAwaited /\ PickerIsOpen

\* The controller waits for the answer to the latest request it sent.  The code does
\* not keep this for the read that confirms a write: it is sent from inside the
\* handler of the write's answer, which then clears the pending operation.
LatestRequestIsAwaited ==
    \A r \in requests : IsLatest(r) => pending.does = r.asks.does
=============================================================================

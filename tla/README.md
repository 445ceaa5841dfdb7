# ModbusViewer in TLA+

ModbusViewer is a desktop Modbus master: it polls registers of a device over Modbus
TCP or a serial line (RTU), shows them live, and writes single registers and coils.
This directory holds TLA+ models of its core, the TLC configurations that check them
on small instances, and proofs about them that TLAPS checks for every value of the
constants. `PROJECT.json` maps each definition to the lines it models.

    tlc -workers 2 -config TM_tcp.cfg MC_TransactionManager    # one run
    tlapm TransactionManager_proofs.tla                        # the proofs about it

## 1. The system

All of the program runs in one thread, the Qt event loop. What makes it hard is that
Qt signals are direct calls: a slot runs inside the `emit`, may call back into the
emitter, and several signals may be emitted one after the other within one call. The
other actors are the device, the link, the operating system's sockets and the user.

| Component | State it keeps | Operations | Hard behaviour |
|---|---|---|---|
| `core/modbus/ModbusTransactionManager` | pending requests, attempts and deadlines, one timer, receive buffer, last transaction id | `sendRequest`, `cancelAll`, `setTransport`, `handleDataReceived`, `handleTimeout` | late, repeated, reordered, torn and damaged answers; retransmission; reentrant slots |
| Framers, `Crc16` | none | encode, decode, expected length of an RTU answer | lengths counted from different places, resynchronisation after damaged bytes |
| PDU codec | none | encode requests, decode answers and exceptions | lengths the device chooses |
| `core/transport` | socket or port | `open`, `close`, `write`, signals | asynchronous connects, errors followed by disconnections, synchronous serial opens |
| `core/poll/PollEngine` | targets, plans, generation, next plan, requests outstanding, two timers, caches | `setTargets`, `start`, `stop`, answers, failures, flush | retargeting with requests in flight, a count kept by hand, requests of another caller on the same manager |
| `core/poll/ReadCoalescer` | none | `coalesce` | nested, overlapping, oversized targets; end of the address space |
| `core/format/ValueFormatter` | none | `formatValue`, `numericValue`, `parseValue` | four byte orders both ways, signs, scaling, six digits |
| `core/importer` | none | `CsvTagParser`, `JsonTagParser`, `parseTagRow` | columns in any order, short and blank lines, bad rows among good ones |
| `app-lib/ConnectionController` | session state, resume flag, reconnect timer, connection type, favorites pointer, pending one-shot operation | connect, disconnect, polling, one-shot reads and writes, transport signals | loss and recovery, signals in unexpected states, user calls while an attempt is pending |
| `RegisterTableModel` | range, raw values, formats, rows | updates, formats, type, writes | rows of two registers, updates in place |
| `FavoritesModel`, `TagDatabaseModel` | rows, values, history; tags | edits, updates by target index, writes; import | indices that have shifted, spans that have changed |
| `SessionLogger` | a file, two counts | start, stop, losses, recoveries | one loss reported several times |
| `RegisterFilterProxyModel` | a search text | set the text, map a row | rows of the list are not rows of the table, changes arrive as signals |
| `CommunicationLogModel` | the last 500 lines | append, clear | the limit |
| Settings, `AddressConvention` | settings | get, set | an address is shown and typed in one of two ways |
| QML screens | a stack of two screens | which calls are possible when | calls in states nobody tested, calls from inside signals |

They interact as follows. The controller owns both transports, the manager and the
engine. `connectToDevice()` hands the transport of the connection type to the manager
and opens it. The engine turns targets into plans (coalescer), sends one request per
plan through the manager within a window (one for RTU), and hears of answers and
failures by correlation id, generation in the upper half. The controller sends its own
one-shot requests through the same manager with ids of generation 0, so that both
hear all answers. Transport signals go to the controller, which pauses and resumes the
engine; data goes to the manager. Readings reach the table or the favorites through the
controller; `MainScreen.qml` ties models, log and controller together, and calls the
controller from inside its signals. `Main.qml` pushes and pops that screen on the
controller's state.

What makes each correct: the manager ends every request exactly once, with the answer
to that request or after all attempts; the engine runs one cycle at a time within its
window, for ever, and shows only current values; the coalescer reads every wanted
register exactly once; what is typed is what is written, read back and shown, up to the
row's resolution; a row shows its own registers and no others, however it was edited meanwhile; the
database holds exactly the tags a file describes; the controller's state tells the truth
about the link, a lost session is always being retried and resumes what it polled, an
ended one stays ended, and the log has each loss once. `PROJECT.json` lists the hazards
line by line.

## 2. The modules

| Module | Models | Built on |
|---|---|---|
| `TransactionService` | the promise of the manager to its callers: a status per request | |
| `TransactionManager` | the manager, its two consume loops and `handleTimeout()`, with device and link | refines `TransactionService` |
| `PollEngine` | the engine, over the promise of the manager | |
| `ReadCoalescer` | the coalescing algorithm, on the list of targets as favorites come and go | |
| `SessionLogger` | the log of losses and recoveries | |
| `ConnectionController` | the session, its settings, both transports and the screens' gating of the user's calls | `SessionLogger` |
| `AddressConvention` | addresses as the wire has them and as the screen shows them | |
| `RegisterTable` | the table of Normal mode as a value, with operations and the signals they emit | `AddressConvention` |
| `RegisterFilterProxyModel` | the filtered list between the table and the screen, which knows the table by its signals only | `RegisterTable` |
| `NormalView` | Normal mode: table and list, format picker, one-shot requests, readings of the engine, the screen | `RegisterFilterProxyModel` |
| `TagImport` | both parsers and the check of a row | `ValueFormat` |
| `FavoritesView` | Favorites mode: tag database, favorites, targets by index, the screen | `TagImport` |
| `Codec` | PDUs and both framings, byte by byte, over any checksum | |
| `ModbusCrc16` | the checksum, bit by bit, which the run gives to `Codec` | |
| `ValueFormat` | registers to values and back | |
| `CommunicationLogModel` | the list of the log panel | |
| `DataPath` | a value's way from the text typed to the device and back to the text shown, and the log of its frames | `Codec`, `ValueFormat`, `CommunicationLogModel` |
| `X_proofs` | the theorems about `X`, for `TransactionManager`, `PollEngine`, `ReadCoalescer`, `ConnectionController`, `NormalView`, `FavoritesView` and `DataPath` | `X` |
| `ListLemmas` | induction over numbers, sorted and flattened lists, least and greatest members: what the proofs about lists rest on | |
| `MC_*` | model values for TLC | |

**TransactionManager.** A request is the number of its `sendRequest()` call, so
`m_pending`, to which requests are only appended, is a set of numbers whose order is
theirs. A handler that runs foreign code is cut at each emit or write: `running` says
which handler is on the stack, `slot` which call-out it is inside, and
`resending`/`failing` are the local lists of `handleTimeout()`. While a slot of
`responseReceived` or `requestFailed` runs, `SendRequest` and `CancelAll` may happen;
while a write runs, `CancelAll` may (the handler of a write error).
Bytes are pieces of frames: a whole answer, or its head and tail arriving in different
reads; damaged pieces; noise. A read delivers any prefix of what is on the wire. A buffer
that begins with a tail, or with a head whose tail was lost, is out of step
(`IsOutOfStep`): `decodeMbapFrame()` takes whatever bytes stand there for a header if the
third and fourth are zero, so a frame may be cut anywhere in it (`CutAt`), under any
transaction id (`Tids`), or none may be found. Over RTU such a frame is assumed to fail its
checksum.
`rearmTimeoutTimer()` and removal from the list are part of each action that performs
them in the code. Time is the choice of which pending requests have passed their
deadline. The device may answer each transmission once, late, in any order, or never.

**PollEngine.** The manager is represented by what `TransactionService` says of it, with
slots for correlation ids. `pumping` says who called `pumpRequests()`; each request of
the loop is a step, because the write inside it may report an error whose handler
reaches `stop()`. The shipped transports buffer writes and do not do that; the model
allows it since the interface does, and the comment in `handleTimeout()` expects it.
`BeginPolling` is `ConnectionController::beginPolling()`: `setTargets()` then
`start()`. Plans are sets of covered targets; values are not modelled, only for which
generation a cache holds them.

**ReadCoalescer.** Every list of targets up to a bound is reached by adding and removing
favorites. The reference definition looks at the *set* of wanted registers only. A sorted
list is *the* list of the members in order (`Sorted`), which is what both sorts of the code
compute: keys are distinct, and a stable sort of indices orders by address and then by index.
`RunsAfter` is the loop of `mergeByGap()`, a run list per index.

**ConnectionController.** The controller's state is a record and each slot a function on
it, so that an event that emits several signals is the composition of the slots in the
order of the signals (`OnDisconnected(OnError(ctl))`). Sockets are modelled from their
documented behaviour as the transports use it: `disconnectFromHost()` on a connecting
socket takes effect after it has connected, on one with unsent bytes when they are
sent, otherwise at once with a `disconnected` from inside the call; `QSerialPort::open()`
on an open port fails, and an error does not close a port. Which calls the user can
make follows the screens: the watermark covers the main screen while the connection is
lost (`MainScreenInUse`), "Connect" is disabled while connecting (`ConnectEnabled`), the
tabs and fields of the connection screen are not. Each transport keeps the settings it was
last opened with (`peer`), which `openActiveTransport()` copies from the controller's own
(`settings`) at every attempt, automatic ones included. The log belongs to the main screen. Its two counts are
kept by their difference, which is bounded where the counts are not.

**NormalView.** The table's operations return the new table and the signal they emit: a
reset, or `dataChanged()` of some roles of some rows. The list on the screen is a variable
of its own that changes only by these signals, by the search text, and by what Qt's proxy
does with them (`Follows`, external); `ListIsCurrent` compares it with the table. The user
acts on rows of the list, and `MapRowToSource` finds the row of the table. The rows of the
table are a recursion on the registers left (`WordRows`), as the loop of
`rebuildLogicalRows()` is, and `RowIndex` is the map the loop fills on its way. The picker is
modal, but readings arrive while it is open. The engine may have read its target at any
time; what it has read is flushed later. One-shot requests are a set with ids; the one the
controller waits for is `pendingId`, what it takes the answer for is `pending`.
`WriteAnswered` is the whole nested call: the signal's slot sends the next read, then the
handler clears the pending operation. A register's value names its type and its address, so
that a row can be asked whose value it shows. A search text is one digit: what the filter
does with the text of an address is substring search, and one digit tells rows apart.

**FavoritesView.** The engine's targets are a snapshot of the rows; updates and failures
come by index into the snapshot and are applied to the rows there are now. Each edit is
followed, in the same action, by the retargeting call of the screen. A value is known by
the place it was read from. `Import` applies `ParseFile` to a file, which carries the
table it was written from for `TagsAreTheTables` to compare with.

**DataPath.** A job is what one user does: a text typed into a row and the row read again,
or a list of reads and writes. Requests go out as bytes. The device is written from the
protocol and uses no encoder or decoder of the program: it sees the bytes of a frame and
nothing else, answers it only if it is a request to it (`IsRequest`: protocol and length of
the header and unit id, or unit id and checksum), reads code, address and argument from it,
and makes the frame of its answer itself (`AnswerFrame`), with the transaction id it heard.
Both sides use one `Crc16`, which `MC_DataPath` pins to the value published for the
polynomial (`CrcAssumption`), so that a mistake in it could not hide on both.
Answers arrive in any pieces; over RTU the line may change or lose a byte. `heard`
remembers what the device took each request for, and how its answer came through: intact, changed in place, or cut, when its length
is no longer the one its bytes announce. The log has a line for each frame sent or cut from
the buffer and for each failure, and the user may clear it at any time.
Numbers are counted in hundredths. `FormatValue` and `ParseValue` scale, round and wrap as the
code does in every format but `Float32`; a scaled number has six significant digits
(`SixDigits`), for which `LastDigit` finds the power of ten, whatever its size. What the code
computes with doubles is exact here, and a tie is rounded away from zero where the binary
double may lie to either side of it.

## 3. The runs

Passing runs:

| Run | Bounds | Shows |
|---|---|---|
| `TM_tcp` | 3 requests, 2 in flight, 1 retry, connections that drop | one end, attempts, no stranded answers, refinement of `TransactionService`; every request ends |
| `TM_damage` | both framings with switches between them, 2 requests, torn frames, bad CRCs, noise, links that drop in mid-frame | the inductive invariant survives any buffer content; over TCP no request is completed by the answer to another, and by none but its own while no part of an answer was lost |
| `PE_cycles` | window 2; plan lists split, shared, single, empty, regrouped at any time; 1 one-shot; 2 generations | window, cycle and cache bookkeeping; polling goes on and readings are shown |
| `RC_plans` | 24 targets, some at or beyond the last of 12 addresses, lists up to 3, limits 4 and 5, gap 2 | exact coverage, split values read by requests next to each other, reference definition |
| `CC_session` | both transports, two devices, the session log, "Reconnect Now" at most twice per log (`MaxByHand`) | the state tells the truth about the link, attempts end, losses are retried with the same device, logged once and recovered, polling pauses and resumes, what the user ended stays ended |
| `NV_table` | two overlapping ranges of two registers, two word types and a bit type, both address conventions, a search text, 2 one-shot requests | rows show their own registers in their format, the list is what the table holds, what arrives fits the table, a format goes to the row clicked |
| `FV_rows` | one table of registers as CSV (3 orders of columns, with and without the last commas, blank lines) and as JSON, a file without a needed column, one that cannot be read; up to 7 rows imported, 3 favorites at a time, 1 point of history | rows and stale marks belong to their favorite; tags are the tables |
| `DP_path` | 24 jobs, any split into reads, 2 bytes changed or lost over RTU, 1 retry | requests are understood, results are true, frames are cut where they end, what was typed is shown, a changed byte costs a retry and not the request, the log (3 lines) is the tail of what was sent |

Two requests suffice for confusion between a late answer and the request after it, three
for a reordering of two around a third; one retry gives a repeated answer. Window 2
with three plans has a cycle that fills, drains and refills its window; the second
generation is the retarget. A list of three targets has a run that nests, grows and is
split. The controller's state is finite but for the recoveries by hand missing in a log, of which
each makes the same difference, so that two are enough. Two registers give a row of two
that is built, broken and overlapped by the other range. Three favorites allow one to be
removed between two others; one point of history is full after one reading, so that the
next one must push it out. Imports are made before anything is added or polled: an
import touches only the database, so it commutes with every other action. Four registers and
ten coils hold a pair of registers and a number of bits that is not a number of bytes;
the jobs have every byte order, both signs, scaled 16-bit and 32-bit numbers of more than six
digits, units, texts that do not fit or cannot be read, an address the device does not have. Two damaged bytes with one retry
exhaust a request. Damage is done while a single request is outstanding, since RTU has a
window of one and nothing on the wire says which request an answer is for; `TM_rtu_late`
shows what happens otherwise. Three lines of log make the run evict. `DataPath` lets a timeout pass only when no answer can come
any more, for the same reason.

`CHECK_DEADLOCK FALSE` is in the `DP` configurations only: a job comes to an end.

Runs that expect a violation record places where the code and what is written about it
disagree (`findings` in `PROJECT.json` quotes the lines):

| Run | Disagreement |
|---|---|
| `TM_rtu_late` | a late RTU answer is delivered for the next request |
| `CC_rtu_live` | RTU never reconnects by itself after a port error |
| `NV_reread` | the read that confirms a write is not awaited: its answer is dropped |
| `TM_cut` | the head of an answer cut by a connection loss meets the answer to the retransmission over the next connection, and the two are delivered as one |

Modelling showed more that no run is kept for; each is a hazard with a note:

- "Give Up" during a pending TCP attempt ends in a connection: the socket connects first
  (the test at `test_connection_controller.cpp:373`, which says that giving up must not
  silently reconnect, gives up between two attempts).
- An established session ends in `Failed` when "Reconnect Now" is refused, although the
  comment at `ConnectionController.cpp:472` reserves that state for sessions that were
  never established.
- "Reconnect Now" resumes nothing, and its success is logged as no reconnection: two losses
  follow each other in the log, and its counts, which only `startLogging()` resets, never meet
  again. `LossesArePaired` says by how much they are apart (`unwritten` in `SessionLogger`).
  A log started from a dialog during a loss counts the reconnection without its loss
  (`missed`).
- Disconnecting reports `connectionLost()`, because `close()` reports the disconnection
  while the state is still Connected, and the log has it as its last loss, although
  `ConnectionController.h:127-130` speaks of genuine events. The log ends with the screen
  right after, and `LossesArePaired` allows a log that has ended this one line too many.
- Changing the connection type while connecting makes Disconnect close the wrong
  transport. `ConnectedMeansLinkUp`, `DisconnectClosesLink`, `EndedStaysEnded` and
  `SessionKeepsItsDevice` say
  `ctl.patient`: the user let every attempt end. The other properties hold without it.
- Noise with an unknown function code at the front of the RTU buffer, the rest of an answer
  that lost a byte, or the tail of a TCP answer whose head came while nothing was pending,
  can hide every later answer until `cancelAll()` or `setTransport()` clears the buffer. One
  lost byte so fails a request although retries are left (`TransientFaultsAreRetried`
  excepts answers that came "cut").
- Over TCP a buffer that begins inside a frame may also yield one: a payload with zeros in the
  right places is taken for a header, and delivered if the bytes before them happen to be the
  transaction id of a waiting request. `WholeAnswersMatch` says that this takes the loss of a
  part of an answer, to the link or to the manager, which drops what it reads while nothing
  waits and in `cancelAll()`.
- The fields of the connection screen stay enabled while the first attempt is pending. What
  is typed then is not used by that attempt but by the first automatic reconnection, which
  goes to another device than the session's (`SessionKeepsItsDevice` says `ctl.patient`).
- The format picker keeps the number of a row. A reading of another range that arrives while
  it is open renumbers the rows, and the format goes to another address.
- Retargeting or stopping drops a pending one-shot write without a report.
- A multi-register write whose first half fails is reported as written: only the last
  request is awaited.
- An answer asked for before the Type box was changed is shown under the new type, if both
  are register types or both bit types and the table is not polled (`RowsAreTrue` compares
  the kinds of types, `DeliveriesFitTheTable` the types of a polled table).
- A run is cut every `maxCountPerRequest` registers also inside a gap, so the requests
  are not always the fewest, as the repository's README promises.
- A target that reaches beyond address 65535 is continued at address 0, and an imported
  address beyond it is taken modulo 65536 (`FavoritesModel.cpp:224`).
- An answer with fewer registers than asked is indexed past its end (`PollEngine.cpp:237`).
- A typed value beyond its format wraps into another; a scale of 0 divides by zero.
- `setCoalescingOptions()` during a cycle applies answers under way to the new plans;
  nothing in the program calls it.

**Fairness.** The manager: a handler that has begun runs to its end (one thread), and
a deadline that has passed is noticed (the timer). The device owes nothing. The engine:
calls run to their end, timers fire, and each request settles, which is what
`EveryRequestEnds` shows of the manager; strong fairness is used for settling and the
timers because the model interrupts them by unrelated steps for the length of a call.
The controller: timers fire and connection attempts end (the operating system's
timeout). The user, the link and the device never have to do anything.

**Mutants.** Each property of a passing run comes with a small bug in a mapped
definition, defined next to it and marked "Bug:", under which TLC finds it violated.

## 4. The proofs

Each `X_proofs` has one inductive invariant, proved preserved with one lemma per action or
group of actions that disturbs it, and derives the theorems below from it. All of them hold
for every value of the constants that the `ASSUME` of the module allows. Every inductive
invariant was also checked by TLC with the constants of the component's runs. Its parts are
stated in the component's module next to what they explain.

**`TransactionManager_proofs`**: any number of requests, any retry count, either or both
framings and all faults (`TransactionAssumption`: the bounds are naturals, and fewer
requests than transaction ids exist in one run). `BooksCorrect` is the inductive invariant.
None of the properties is inductive by itself: that a request ends once depends on the local
lists of `handleTimeout()` being disjoint from `m_pending` (`ListsSeparate`) and on the
reports counting exactly the requests in no list (`EndsCounted`); that a failure comes after
`RetryCount + 1` writes depends on the attempts being ahead of the writes by the
retransmission still to be written (`AttemptsCounted`).

- `TypeCorrect`, `TimerCorrect`, `EndsOnceCorrect`, `RetriesCorrect`.
- `TcpMatchCorrect`: over TCP every delivered answer is the device's answer to its request,
  if the link does not tear answers. Pieces on the wire and in the buffer carry the number
  of a request that was sent, and numbers below the modulus have distinct transaction ids.
- `WholeMatchCorrect`: on any link no request is completed by the answer to another one, and
  by none but its own while what is in the buffer and on the wire is whole (`IsWhole`): the
  first piece is then a whole answer or a head with its tail behind it, and a buffer that
  begins with either is not out of step.
- `NoneStranded`: on a line that neither tears answers nor inserts noise (`LineIsClean`, the
  condition the property itself states in the runs that have faults), no whole answer to a
  waiting request stays in the buffer. Between two events the buffer of such a line is empty;
  inside a handler it is the rest of one read.
- `ServiceImplemented`: every step of the manager is a step of `TransactionService` or
  stutters, under the mapping `StatusOf`.

**`PollEngine_proofs`**: any set of targets, any way to group them into plans, any window,
any number of one-shot requests and retargetings (`PollAssumption`: a plan covers at least
one target). `CycleBooks` says that the count kept by hand is the number of the engine's own
requests with the manager, less the one whose write is under way (`CountIsExact`), that
requests belong to the present generation or are recognisably older (`RequestsArePresent`),
and that a cycle's requests are those for the plans before `nextPlan` that are not settled
(`CycleAdvances`). From it: `WindowCorrect`, `CyclesCorrect`, `CoverageCorrect`,
`DirtyDataCorrect`, `AnswersCorrect`. `WindowCorrect` counts the engine's own requests only, and
`CoverageCorrect` and `AnswersCorrect` hold unless the plans are regrouped during the cycle.
`CyclesCorrect` also needs that the interval timer is
armed only between cycles (`IntervalBetweenCycles`), also when a stop is called from inside a
write.

**`ReadCoalescer_proofs`**: lists of any length, any limits per type, any gap
(`CoalescerAssumption`: limits are positive, register types are ordered by numbers, as the
enum is). `ReadsCorrect` is the algorithm's purpose, read exactly once and found in the right
place, for all inputs. The argument goes along the code. `MergedAdds`: one more target is one
more member of one run, and no run loses what it spans; `GroupIsRuns`: by induction over the
sorted indices, each target is a member of exactly one run, which contains it, because runs
start no later than any target still to come. `InOnePiece`: an address of a run lies in
exactly one piece, its neighbour in the same or the next (division by the limit).
`PlanFacts`: the slices of a piece carry the registers of the run that lie in it, each once.
`FlattenedReads` lifts this through the two levels of lists that the plans are appended to.

`RequestsCorrect` compares the code's algorithm with a second one that knows the set of wanted
registers only. `MergedKeepsStretches`: while targets are merged, a run starts and ends where
a member does, has no gap wider than what is bridged, and gaps between runs are wider. Hence
(`GroupDivides`, `RunsAreStretches`) the runs are the stretches of the wanted registers,
(`RunAsks`) the pieces of a run are those of its stretch, and (`GroupAsks`,
`GroupsStandTogether`) a group's requests stand together in the order of their addresses.

The inductive invariant of the state machine is only that the plans are those of the targets.

**`ConnectionController_proofs`**: any subset of the two connection types, any devices.
`SessionBooks` has three parts: what each slot keeps of a controller, whatever slot runs next
(`SessionSound`), that a lost session has a retry to wait for (`RetryScheduled`), and, while
the user lets attempts end (`patient`), which transport state goes with which session state
and whose settings it was opened with (`LinkIsOurs`). `LossesCorrect` holds for any number of
recoveries by hand. Slots are functions on the controller,
so there is a lemma per slot and an action is proved by composing them in the order the
signals are emitted. From it: `RetryCorrect`, `FavoritesCorrect`, `LossesCorrect`,
`ConnectedCorrect`, `DisconnectCorrect`, `EndCorrect`, `DeviceCorrect`, and the action property
`ResumptionCorrect`. The four that speak of the link hold for a patient user only; section 3
says what happens otherwise.

**`NormalView_proofs`**: any ranges, types, formats, search texts and number of one-shot
requests. `ViewBooks` is the largest invariant: the table is what its range, formats and type
make it (`TableIsBuilt`), the filtered list is what its search text leaves of the table
(`ListIsCurrent`), what the engine polls is on the screen (`PollIsOnScreen`), the awaited
request is the latest, and a read is awaited only while nothing is polled
(`ReadIsAwaited`), the picker's row is of the range it was opened on (`PickerIsOpen`). The rows
tile the range: by induction on the registers left, each register is in one row and
`RowIndex` finds it. Every operation of the table tells the list what it changed (`Told`), so
the list stays current through in-place updates. A delegate that the user clicks has its row
in the table because the list is an ascending subsequence of it. `RowsCorrect` depends on
`ReadIsAwaited`: a type change empties the table, and only an answer of the same kind may fill
it again. From it: `RowsCorrect`, `FormatsCorrect`, `ListCorrect`, `PickerCorrect`,
`DeliveriesCorrect` (the type of what arrives is demanded of a polled table only).

**`FavoritesView_proofs`**: any files, favorites, bounds and length of the sparkline.
`FavoritesBooks` needs, besides the two properties, that no address has two rows
(`RowsAreDistinct`), that the engine's targets are the rows there are whenever it runs for
favorites (`TargetsAreTheRows`), and that it runs for them exactly in Favorites mode, also
after a loss (`ModeIsPolled`). From it: `RowsCorrect`, `StaleMarksCorrect`.

**`DataPath_proofs`**: any jobs of requests the program can make (`JobsAssumption`: function
codes 1 to 6, 16-bit addresses and arguments), any retry count, any log limit, any bytes changed
or lost. The checksum is a constant of `Codec`: the theorems hold whatever it computes, as the
real one is bitwise and has no theory in the provers. `PathBooks` says of every frame on its way
to the device that it is a request to it and that reading it gives the request and the
transaction id it was made for (`Understood`), and of the log
that its lines for sent frames are the last of those given to the device (`Shows`).

- `RequestsUnderstood`: from `RtuFrameParts` and `MbapFrameParts`, which say what stands where in
  a frame, and from the division of a number into two bytes and back. So the device drops
  none of them (`RequestIsHeard`), and the frames it makes are those that the program's own
  encoders would make (`DeviceFrames`), which is where the decoders' facts apply.
- `LogCorrect`: a line added for a frame keeps the end of the log the end of the frames, also when
  the oldest line is dropped for it (`TxShown`, `MadeRoom`), and other lines do not matter
  (`OtherShown`). The induction over the frames of one call is `EntriesShown`; `handleTimeout()`
  sends its retransmissions before it reports its failures.
- `FramesCut`: on a line that does no damage, what is in the buffer and on the wire is the frames
  of the answers to the requests that wait and are not still on the line, one after the other
  (`CutBooks`, `HoldsAnswers`). The frame of an answer announces its own length, in either framing
  (`AnswersAnnounce`, which follows from what a device answers), so at any moment the frame at the
  head of the buffer can be cut exactly when it is there whole (`WholeOrNot`), and what is left
  starts with the next (`CutOff`). On such a line `handleTimeout()` is never reached.
- `ResultsTrue`: the frames in the buffer and on the wire carry the answers of the device in
  order (`Told`, in `CutBooks`), each request that waits is the one the device took for its answer,
  and each result is the answer of its transaction (`TruthBooks`). Decoding an answer gives back
  what was put in (`AnswerDecodes`): bits from bytes of eight of them, registers from two bytes
  each, which needs that the device's memory holds bits and registers (`MemoryBooks`). Over RTU it
  is stated as long as the line did no damage, since a checksum that is not known need not detect
  any; over TCP the model has no damage, as TCP has its own checksum.
- `TypedShown`: a value typed into a row, written and read back is shown as it was typed, under the
  same condition as `ResultsTrue`. `TypedAssumption` says what a typed job is: the requests that
  `TypeValue` makes of the row's settings and the text, with any format but `Float32`, any byte
  order, offset and number, and a positive scale (the model does not round to a negative one, and the code divides by
  a scale of 0). `TypedBooks` follows such a job: its batches go out in order (`Stage`), requests wait
  and are taken in that order (`InItsOrder`), the controller decodes the answer to the last write
  and to the read (`LastOfBatch`), each write that the device took is still in its memory (`Kept`:
  a two-register value is two requests to neighbouring addresses), and so the read returns the
  registers that were written (`ReadBack`). The rest is `ParsedIsShown`, about numbers only: a
  rounded quotient is within half a step (`Rounded`), it comes back from one register or from
  the four bytes of two (`NumberIsKept`, from `WordOfNumber` and `WrittenWordReadsBack`), six
  significant digits are within half of their last one, and rounding does not make a number lose
  a digit (`SixDigitsShown`). The powers of ten are a recursive function, which the provers know
  only as a choice: `TensStep` shows that there is a function to choose.
- `FaultsRetried`: on any line, in either framing, and whatever computes the checksum, a request is
  reported failed only when each of its `RetryCount + 1` answers came changed, unless an answer came
  that does not end where its byte count says. `RetryBooks` counts: as long as no answer came cut,
  the stream of an RTU line is either intact (`IsIntact`: all answers under way can be cut from
  it, and each earlier attempt of a waiting request was answered in vain) or spoilt (`IsSpoilt`: the
  answer to the only waiting request came changed, and is alone on the stream or dropped). The
  window of one request over RTU keeps the damage to one answer. A spoilt answer is either dropped
  for its checksum or taken as it is; if it is dropped nothing is left of it, and the timeout sends
  the request again over an empty stream. That the buffer is empty by then is what a cut answer
  breaks.
- All registers, and not only those of the jobs, keep their values: `WrittenWordReadsBack` (four
  bytes written in any byte order and read back in it are the same), `ShownRegistersWriteBack`
  (two registers shown as a 32-bit integer without scaling and written back are the same), `SignedRegistersWriteBack` (every register
  shown as a signed number is written back as itself).

**`ListLemmas`.** No installed prover takes a predicate as a parameter, so induction is stated
of a *set* of numbers (`Upwards`), and each proof defines the set of numbers its claim holds
of. On it rest the other lemmas: a step repeated any number of times (`Repeated`), the places of
the lists in a flattened one (`Flattened`), a finite set listed in the order of a relation
(`CanBeSorted`).

What stays with TLC. Liveness: it is reasoning about fairness and ENABLED.
`TagsAreTheTables`: parsing is a fold over fields. `ResultsAreTrue` after
damage on an RTU line, and `TypedIsShown` there, depend on what the
real CRC detects, which is bitwise. That two parts fit together (the engine on the detailed
manager, the controller on the engine) is argued in section 1 and not composed.

`TypeOK` and `TimerTracksPending` of the manager are proved and left out of the runs; TLC
checks `Books`, which the latter is part of. The other type invariants are proved too, and are
not spent a run on.

## 5. Not modelled, and why

Floating-point numbers: TLC has none. `Float32` is a format of rows that takes two registers;
what its bits are shown as, and what is written for a text, is left out. Texts: digits,
CSV quoting beyond what the parser does (it has none), wording, layout. The inter-frame
silence of RTU: real time. Wrapping of transaction ids within one run: excluded by an
assumption, since the window is a handful of requests; the jobs of `DataPath` are too short
for it too. Writing several coils or registers
in one request: encoded by functions that nothing calls. `setIntervalMs()`,
`setMaxInFlight()`: a period and a bound. Timeout and reconnect interval: time is the choice
of when a timer fires. The unit id and the retry count are constants of the models that
depend on them. Filtering in Favorites mode: the same class over labels and units. The lines
of frames in the session log: the same lines as the log panel's. Themes and other plain
settings, and the list of serial ports.

## 6. Plan

Done: `TransactionService`, `TransactionManager`; `PollEngine`; `ReadCoalescer`;
`ConnectionController` with settings and session log; one-shot requests, table, filtered list
and format picker (`NormalView`); favorites, tag database and importers (`FavoritesView`);
codec, framers, formatting and communication log at byte level (`DataPath`). Proofs for every
component that keeps state, and for the coalescing algorithm.

Left, in this order:

1. Compositions: the engine over the detailed manager (its view of the manager as a
   refinement), the controller over the engine, both callers on one manager with RTU's
   window of one.
2. An RTU line that does damage: with a checksum assumed to detect a changed byte,
   `ResultsAreTrue` on it.

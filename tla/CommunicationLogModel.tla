----------------------- MODULE CommunicationLogModel -----------------------
(* app-lib/CommunicationLogModel: the lines of the log panel, fed by every *)
(* frame sent or received and by every failure.  Times and texts are left  *)
(* out: a line says which request was sent, or how long a frame came.      *)
EXTENDS Integers, Sequences, SequencesExt

CONSTANT MaxEntries

ASSUME LogAssumption == MaxEntries \in Nat \ {0}

\* The lines of communicationLogged().
Tx(tid)     == [direction |-> "Tx", summary |-> tid]
Rx(size)    == [direction |-> "Rx", summary |-> size]
TimeoutLine == [direction |-> "Error", summary |-> 0]

\* Bug: the newest entry makes room.
EvictsNewest(entries) == IF Len(entries) >= MaxEntries THEN Front(entries) ELSE entries

MakeRoom(entries) == IF Len(entries) >= MaxEntries THEN Tail(entries) ELSE entries

\* append()
AppendEntry(entries, entry) == Append(MakeRoom(entries), entry)

\* append(), once for each of a sequence of entries.
AppendEntries(entries, more) ==
    LET log[n \in 0 .. Len(more)] == IF n = 0 THEN entries ELSE AppendEntry(log[n - 1], more[n])
    IN  log[Len(more)]

\* The lines for frames sent.
TxLines == [direction : {"Tx"}, summary : Nat]
=============================================================================

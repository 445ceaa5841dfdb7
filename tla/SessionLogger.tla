---------------------------- MODULE SessionLogger ----------------------------
(***************************************************************************)
(* app-lib/SessionLogger: the log file the user starts and stops on        *)
(* MainScreen, with the losses and the recoveries of the connection in it. *)
(*                                                                         *)
(* The two running counts are kept by their difference.  They start at     *)
(* nought with a log and stay in its file when it ends.  The lines of the  *)
(* frames are left out.                                                    *)
(***************************************************************************)
EXTENDS Integers

Logs ==
    [ open      : BOOLEAN,   \* m_stream
      unpaired  : Int,       \* m_disconnectCount - m_reconnectCount
      missed    : 0 .. 1,    \* history: 1 if the log was started during a loss
      unwritten : Nat ]      \* history: losses the user ended by "Reconnect Now",
                             \* of which connectionRestored() tells nothing

NoLog == [open |-> FALSE, unpaired |-> 0, missed |-> 0, unwritten |-> 0]

StartLogging(lost) ==
    [open |-> TRUE, unpaired |-> 0, missed |-> IF lost THEN 1 ELSE 0, unwritten |-> 0]

StopLogging(log) == [log EXCEPT !.open = FALSE]

RecordDisconnect(log) == IF log.open THEN [log EXCEPT !.unpaired = @ + 1] ELSE log

RecordReconnect(log) == IF log.open THEN [log EXCEPT !.unpaired = @ - 1] ELSE log

\* History: a loss is over and nothing is recorded.
RecordNothing(log) == IF log.open THEN [log EXCEPT !.unwritten = @ + 1] ELSE log

\* The losses not yet over by what is written, and by the lines known to be missing.
OpenLosses(log) == log.unpaired + log.missed - log.unwritten
=============================================================================

------------------------ MODULE ConnectionController ------------------------
(***************************************************************************)
(* app-lib/ConnectionController: the user's session with one device over   *)
(* TCP or a serial port, its loss, and the automatic reconnection.         *)
(*                                                                         *)
(* Transports report by signals whose slots run inside the emit, so one    *)
(* event may run several handlers in a row: the handlers are functions     *)
(* from the controller's state to its next, applied in the order of the    *)
(* signals.  The sockets are modelled from the calls core/transport makes  *)
(* to them and from the signals it relays; both buffer what is written, so *)
(* a write reports nothing at once.  The screens decide which calls the    *)
(* user can make.  Each transport keeps the settings it was last opened    *)
(* with; the screen edits the controller's own.                            *)
(***************************************************************************)
EXTENDS SessionLogger

CONSTANTS
    Types,      \* the connection types the user chooses, of {"Tcp", "Rtu"}
    Devices,    \* what a host and port, or a serial port's settings, may name
    MaxByHand   \* bound on the uses of "Reconnect Now" while one log is open

ASSUME ControllerAssumption ==
    Types \subseteq {"Tcp", "Rtu"} /\ Types # {} /\ Devices # {} /\ MaxByHand \in Nat

VARIABLES
    ctl,        \* the controller, see Controllers
    type,       \* m_connectionType
    settings,   \* m_host and m_port for "Tcp", m_portName and so on for "Rtu"
    peer,       \* what each transport was last told to open
    tcp,        \* external: the state of the QTcpSocket
    serial,     \* external: the state of the QSerialPort
    reachable   \* external: the device listens, or the port can be opened

choices == <<type, settings>>
vars == <<ctl, choices, peer, tcp, serial, reachable>>

States == {"Disconnected", "Connecting", "Connected", "ConnectionLost", "Failed"}
Modes  == {"none", "normal", "favorites"}

Controllers ==
    [ state     : States,    \* m_state
      retry     : BOOLEAN,   \* m_reconnectTimer.isActive()
      resume    : BOOLEAN,   \* m_resumePollingOnReconnect
      polled    : Modes,     \* what m_pollEngine polls, "none" when stopped
      favorites : BOOLEAN,   \* m_activeFavoritesModel is set
      onMain    : BOOLEAN,   \* MainScreen is on the StackView
      log       : Logs,      \* its SessionLogger
      wanted    : BOOLEAN,   \* history: the user asked for the session and has not ended it
      paused    : Modes,     \* history: what the loss of the link stopped polling
      device    : Devices,   \* history: what the user last connected to
      patient   : BOOLEAN ]  \* history: the user let every attempt end before
                             \* disconnecting or changing the settings

Init ==
    /\ type \in Types
    /\ settings \in [Types -> Devices] /\ peer = settings
    /\ ctl = [state |-> "Disconnected", retry |-> FALSE, resume |-> FALSE, polled |-> "none",
              favorites |-> FALSE, onMain |-> FALSE, log |-> NoLog, wanted |-> FALSE,
              paused |-> "none", device |-> settings[type], patient |-> TRUE]
    /\ tcp = "idle" /\ serial = "closed"
    /\ reachable \in BOOLEAN

-----------------------------------------------------------------------------
(* The controller's slots.                                                 *)

\* setState() and the slot of Main.qml: a connection pushes MainScreen, a
\* disconnection pops it, and destroys its logger, which ends the log.
SetState(c, new) ==
    [c EXCEPT !.state = new,
              !.onMain = new = "Connected" \/ (new # "Disconnected" /\ @),
              !.log = IF new = "Disconnected" THEN StopLogging(@) ELSE @]

\* handleTransportConnectionStateChanged(true)
OnConnected(c) ==
    [SetState(c, "Connected") EXCEPT
        !.log = IF c.state = "ConnectionLost" THEN RecordReconnect(@) ELSE @,
        !.retry = FALSE,
        !.resume = FALSE,
        !.polled = IF ~c.resume THEN @ ELSE IF c.favorites THEN "favorites" ELSE "normal"]

\* Bug: a connection that is up is not lost, only a lost one again.
OnlyLostAgain(c) == c.state = "ConnectionLost"

IsEstablished(c) == c.state \in {"Connected", "ConnectionLost"}

\* Bug: the flag says whether polling was active at the last report of the loss.
ResumesWhatItPolls(c) == c.polled # "none"

ResumesAfter(c) == c.resume \/ c.polled # "none"

\* Bug: every report of the loss is a loss.
EveryReport(c) == IsEstablished(c)

\* wasConnected
IsNewLoss(c) == c.state = "Connected"

\* handleTransportConnectionStateChanged(false)
OnDisconnected(c) ==
    IF ~IsEstablished(c) THEN c
    ELSE [SetState(c, "ConnectionLost") EXCEPT
            !.resume = ResumesAfter(c),
            !.polled = "none",
            !.log = IF IsNewLoss(c) THEN RecordDisconnect(@) ELSE @,
            !.retry = TRUE,
            !.paused = IF c.state = "Connected" THEN c.polled ELSE @]

\* Bugs: the refusal of a retry is the last; only established connections fail.
ErrorWhileConnecting(c) ==
    IF c.state = "Connected" THEN OnDisconnected(c)
    ELSE IF c.state = "ConnectionLost" THEN [c EXCEPT !.retry = TRUE]
    ELSE c
ErrorEndsRetries(c) ==
    IF c.state = "Connected" THEN OnDisconnected(c)
    ELSE IF c.state = "ConnectionLost" THEN c
    ELSE SetState(c, "Failed")

\* handleTransportError()
OnError(c) ==
    IF c.state = "Connected" THEN OnDisconnected(c)
    ELSE IF c.state = "ConnectionLost" THEN [c EXCEPT !.retry = TRUE]
    ELSE SetState(c, "Failed")

-----------------------------------------------------------------------------
(* The transports.                                                         *)

\* TcpTransport::open(): abort(), which reports the end of a connection that was
\* up or closing, then connectToHost().
OpenTcp(c) ==
    /\ tcp' = "connecting"
    /\ ctl' = IF tcp \in {"up", "closing"} THEN OnDisconnected(c) ELSE c
    /\ UNCHANGED serial

\* SerialTransport::open(): a port that is open already, working or not, cannot be
\* opened.  The port and the transport both report the error.
OpenSerial(c) ==
    /\ IF serial = "closed" /\ reachable
       THEN serial' = "open" /\ ctl' = OnConnected(c)
       ELSE UNCHANGED serial /\ ctl' = OnError(OnError(c))
    /\ UNCHANGED tcp

\* openActiveTransport()
OpenActive(c) ==
    /\ peer' = [peer EXCEPT ![type] = settings[type]]
    /\ IF type = "Tcp" THEN OpenTcp(c) ELSE OpenSerial(c)

Ended(c) == [SetState(c, "Disconnected") EXCEPT !.wanted = FALSE]

\* TcpTransport::close(), then the rest of disconnectFromDevice().  A socket still
\* connecting closes when it has connected; one with unsent bytes, when they are
\* sent; any other at once.
CloseTcp(c) ==
    /\ \/ /\ tcp = "connecting" /\ tcp' = "closeOnConnect"
          /\ ctl' = Ended(c)
       \/ /\ tcp = "up" /\ tcp' = "idle"
          /\ ctl' = Ended(OnDisconnected(c))
       \/ /\ tcp = "up" /\ tcp' = "closing"
          /\ ctl' = Ended(c)
       \/ /\ tcp \in {"idle", "closing", "closeOnConnect"} /\ UNCHANGED tcp
          /\ ctl' = Ended(c)
    /\ UNCHANGED serial

\* Bug: only a port that works is closed.
PortToClose == serial = "open"

PortIsOpen == serial # "closed"

\* SerialTransport::close(), then the rest of disconnectFromDevice().
CloseSerial(c) ==
    /\ IF PortIsOpen
       THEN serial' = "closed" /\ ctl' = Ended(OnDisconnected(c))
       ELSE UNCHANGED serial /\ ctl' = Ended(c)
    /\ UNCHANGED tcp

-----------------------------------------------------------------------------
(* Calls from the screens.                                                 *)

\* DisconnectedWatermark lies over MainScreen and takes its input.
WatermarkShown == ctl.state = "ConnectionLost"

MainScreenInUse == ctl.onMain /\ ~WatermarkShown

\* "Connect" on ConnectionScreen.
ConnectEnabled == ~ctl.onMain /\ ctl.state # "Connecting"

\* "Reconnect Now" on the watermark.
ReconnectEnabled == WatermarkShown /\ (ctl.log.open => ctl.log.unwritten < MaxByHand)

ConnectToDevice ==
    /\ ConnectEnabled \/ ReconnectEnabled
    /\ OpenActive([SetState(ctl, "Connecting") EXCEPT
                      !.resume = FALSE, !.wanted = TRUE, !.paused = "none",
                      !.device = settings[type], !.log = RecordNothing(@)])
    /\ UNCHANGED <<choices, reachable>>

\* Bug: the model of the closed screen is kept.
KeepFavorites(c) == [c EXCEPT !.retry = FALSE, !.resume = FALSE, !.polled = "none"]

\* The head of disconnectFromDevice(), before the transport is closed.
EndSession(c) ==
    [c EXCEPT !.retry = FALSE, !.resume = FALSE, !.polled = "none", !.favorites = FALSE]

\* "Disconnect" on MainScreen, "Give Up" on the watermark.
DisconnectFromDevice ==
    /\ ctl.onMain
    /\ LET c == [EndSession(ctl) EXCEPT !.patient = @ /\ (type = "Tcp" => tcp # "connecting")]
       IN  IF type = "Tcp" THEN CloseTcp(c) ELSE CloseSerial(c)
    /\ UNCHANGED <<choices, peer, reachable>>

\* startPolling(), startPollingFavorites(), also to retarget.
StartPolling(mode) ==
    /\ MainScreenInUse
    /\ ctl' = [ctl EXCEPT !.polled = mode, !.favorites = mode = "favorites"]
    /\ UNCHANGED <<choices, peer, tcp, serial, reachable>>

StopPolling ==
    /\ MainScreenInUse
    /\ ctl.polled # "none"
    /\ ctl' = [ctl EXCEPT !.polled = "none"]
    /\ UNCHANGED <<choices, peer, tcp, serial, reachable>>

\* Bug: the settings can be reached from MainScreen too.
SettingsAnywhere == ~WatermarkShown

\* The fields and tabs of ConnectionScreen stay enabled while an attempt is pending.
SettingsInUse == ~ctl.onMain

\* The user changes the settings.
Change ==
    /\ SettingsInUse
    /\ ctl' = [ctl EXCEPT !.patient = @ /\ ctl.state # "Connecting"]
    /\ UNCHANGED <<peer, tcp, serial, reachable>>

\* setConnectionType(), from the tabs of ConnectionScreen.
SetConnectionType == Change /\ type' \in Types \ {type} /\ UNCHANGED settings

\* setHost() and setPort()
SetHost(device) ==
    /\ type = "Tcp" /\ settings["Tcp"] # device
    /\ Change /\ settings' = [settings EXCEPT !["Tcp"] = device] /\ UNCHANGED type

\* setPortName(), setBaudRate(), setDataBits(), setParity(), setStopBits()
SetSerialPort(device) ==
    /\ type = "Rtu" /\ settings["Rtu"] # device
    /\ Change /\ settings' = [settings EXCEPT !["Rtu"] = device] /\ UNCHANGED type

\* "Start Logging..." opens a dialog, which may be accepted during a loss that comes
\* meanwhile; "Stop Logging" is under the watermark.
ToggleLogging ==
    /\ ctl.onMain
    /\ \/ ~ctl.log.open /\ ctl' = [ctl EXCEPT !.log = StartLogging(WatermarkShown)]
       \/ ctl.log.open /\ ~WatermarkShown /\ ctl' = [ctl EXCEPT !.log = StopLogging(@)]
    /\ UNCHANGED <<choices, peer, tcp, serial, reachable>>

\* Bug: whatever the state, the timer reconnects.
AlwaysReconnects == TRUE

MayReconnect == ctl.state = "ConnectionLost"

\* beginReconnectAttempt(), when the timer fires.
BeginReconnectAttempt ==
    /\ ctl.retry
    /\ LET c == [ctl EXCEPT !.retry = FALSE]
       IN  IF MayReconnect THEN OpenActive(c) ELSE ctl' = c /\ UNCHANGED <<peer, tcp, serial>>
    /\ UNCHANGED <<choices, reachable>>

-----------------------------------------------------------------------------
(* External: what becomes of the sockets.                                  *)

TcpConnects ==
    /\ tcp \in {"connecting", "closeOnConnect"} /\ reachable
    /\ IF tcp = "connecting"
       THEN tcp' = "up" /\ ctl' = OnConnected(ctl)
       ELSE tcp' = "idle" /\ ctl' = OnDisconnected(OnConnected(ctl))
    /\ UNCHANGED <<choices, peer, serial, reachable>>

TcpRefused ==
    /\ tcp \in {"connecting", "closeOnConnect"} /\ ~reachable
    /\ tcp' = "idle"
    /\ ctl' = OnError(ctl)
    /\ UNCHANGED <<choices, peer, serial, reachable>>

\* The last bytes are sent, or the connection breaks meanwhile.
TcpCloses ==
    /\ tcp = "closing"
    /\ tcp' = "idle"
    /\ ctl' = OnDisconnected(ctl) \/ ctl' = OnDisconnected(OnError(ctl))
    /\ UNCHANGED <<choices, peer, serial, reachable>>

\* The other side closes, or the network breaks: an error and then the end.
TcpDrops ==
    /\ tcp = "up"
    /\ tcp' = "idle"
    /\ ctl' = OnDisconnected(OnError(ctl))
    /\ UNCHANGED <<choices, peer, serial, reachable>>

\* The adapter is unplugged.  The port stays open until it is closed.
SerialFails ==
    /\ serial = "open"
    /\ serial' = "errored"
    /\ ctl' = OnError(ctl)
    /\ UNCHANGED <<choices, peer, tcp, reachable>>

DeviceComesOrGoes ==
    /\ reachable' = ~reachable
    /\ UNCHANGED <<ctl, choices, peer, tcp, serial>>

-----------------------------------------------------------------------------
User ==
    \/ ConnectToDevice
    \/ DisconnectFromDevice
    \/ \E mode \in {"normal", "favorites"} : StartPolling(mode)
    \/ StopPolling
    \/ ToggleLogging
    \/ SetConnectionType
    \/ \E device \in Devices : SetHost(device) \/ SetSerialPort(device)

AttemptEnds == TcpConnects \/ TcpRefused \/ TcpCloses

Next ==
    \/ User
    \/ BeginReconnectAttempt
    \/ AttemptEnds
    \/ TcpDrops
    \/ SerialFails
    \/ DeviceComesOrGoes

\* Timers fire and attempts come to an end; users and devices owe nothing.
Spec == Init /\ [][Next]_vars /\ WF_vars(BeginReconnectAttempt) /\ WF_vars(AttemptEnds)

-----------------------------------------------------------------------------
(* Properties.                                                             *)

\* Every variable stays in its domain.
TypeOK ==
    /\ ctl \in Controllers
    /\ type \in Types
    /\ settings \in [Types -> Devices] /\ peer \in [Types -> Devices]
    /\ tcp \in {"idle", "connecting", "closeOnConnect", "up", "closing"}
    /\ serial \in {"closed", "open", "errored"}
    /\ reachable \in BOOLEAN

\* A lost connection is always being retried: the timer is armed or an attempt is
\* pending.  The slots of an error and of a disconnection both touch the timer, in
\* either order, and a serial attempt reports before open() has returned.
RetryScheduled ==
    ctl.state = "ConnectionLost" => ctl.retry \/ (type = "Tcp" /\ tcp = "connecting")

\* The controller calls itself connected only over a link that is up.  The code
\* does not keep this, nor the next two, once the user has disconnected or changed
\* the connection type while an attempt was pending: the signals of that attempt
\* still reach the controller, and it closes the transport of the new type.
ConnectedMeansLinkUp ==
    ctl.patient /\ ctl.state = "Connected" =>
        IF type = "Tcp" THEN tcp = "up" ELSE serial = "open"

\* Ending a session leaves no link open.  (An unsent write may still be on its way.)
DisconnectClosesLink ==
    ctl.patient /\ ctl.state = "Disconnected" => tcp # "up" /\ serial = "closed"

\* After an explicit disconnect only the user connects again: neither a late report
\* of the disconnection nor the timer it arms brings the session back.
EndedStaysEnded ==
    ctl.patient /\ ctl.state \in {"Connected", "ConnectionLost"} => ctl.wanted

\* m_activeFavoritesModel never outlives MainScreen, which owns the model, and the
\* answers of the engine go where they were asked for: to the model exactly while
\* favorites are polled (the slots of the constructor test the pointer, not the mode).
FavoritesAreAlive ==
    /\ ctl.favorites => ctl.onMain
    /\ ctl.polled # "none" => (ctl.favorites <=> ctl.polled = "favorites")

\* A recovery polls what the loss paused.
ResumesPolling == ctl.state = "ConnectionLost" /\ ctl'.state = "Connected" => ctl'.polled = ctl'.paused

\* An automatic reconnection polls what was polled when the connection was lost,
\* in the same mode, however many errors and failed attempts lay between.
\* ("Reconnect Now" is the user's connection, and resumes nothing.)
PollingResumes == [][ResumesPolling]_vars

\* The session stays with the device the user connected to, through all retries,
\* each of which reads the settings anew (openActiveTransport()).  For a user who
\* edits them on ConnectionScreen while the first attempt is pending, the code breaks
\* this: the connection is to one device and its recovery to another.
SessionKeepsItsDevice ==
    ctl.patient /\ ctl.state \in {"Connected", "ConnectionLost"} => peer[type] = ctl.device

\* However many errors, refused attempts and late signals a loss comes with, the log
\* has one line for it and one for its automatic recovery.  Its counts differ by one
\* while the connection is lost, and by one more for every loss that the user ended
\* by "Reconnect Now", which is not written down: they never meet again.  (A log
\* started during a loss misses its first line.)  A log that has ended stays within
\* these bounds; its last line may be the loss that the user's own Disconnect was
\* taken for, if the transport reported its end from inside close().
LossesArePaired ==
    IF ctl.log.open
    THEN OpenLosses(ctl.log) = IF ctl.state = "ConnectionLost" THEN 1 ELSE 0
    ELSE OpenLosses(ctl.log) \in 0 .. 1

\* What the properties above rest on, invariants by induction.
\* What each handler keeps of a controller: MainScreen is there exactly when it is
\* needed, the flag to resume agrees with what the loss paused, and the log's counts
\* with the state.
SessionSound(c) ==
    /\ IsEstablished(c) => c.onMain
    /\ c.state = "Disconnected" => ~c.onMain
    /\ c.state = "Connected" => ~c.resume
    /\ c.favorites => c.onMain
    /\ c.polled # "none" => (c.favorites <=> c.polled = "favorites")
    /\ c.state = "ConnectionLost" =>
           /\ c.polled = "none"
           /\ c.resume <=> c.paused # "none"
           /\ c.paused # "none" => (c.favorites <=> c.paused = "favorites")
    /\ IF c.log.open
       THEN c.onMain /\ OpenLosses(c.log) = IF c.state = "ConnectionLost" THEN 1 ELSE 0
       ELSE OpenLosses(c.log) \in 0 .. 1

\* Unless the user cuts an attempt short, every attempt and every link belongs to the
\* session under way, and goes where its settings say.
LinkIsOurs ==
    ctl.patient =>
        /\ tcp # "closeOnConnect"
        /\ ctl.state = "Connecting" => tcp = "connecting"
        /\ tcp = "connecting" => type = "Tcp" /\ ctl.state \in {"Connecting", "ConnectionLost"}
        /\ tcp = "up" => type = "Tcp" /\ ctl.state = "Connected"
        /\ serial # "closed" => type = "Rtu" /\ ctl.onMain
        /\ ctl.state = "Connected" => IF type = "Tcp" THEN tcp = "up" ELSE serial = "open"
        /\ IsEstablished(ctl) \/ tcp = "connecting" =>
               ctl.wanted /\ ctl.device = settings[type] /\ ctl.device = peer[type]

\* The session as a whole, between any two events.
SessionBooks == SessionSound(ctl) /\ RetryScheduled /\ LinkIsOurs

\* An attempt comes to an end whatever the device does and whatever the user does
\* to the settings meanwhile: "Connect" is disabled until then
\* (handleTransportConnectionStateChanged(), handleTransportError()).
ConnectingEnds == ctl.state = "Connecting" ~> ctl.state # "Connecting"

\* Once the device is reachable for good, a lost TCP connection does not stay lost:
\* it is recovered, or given up, even if the retries collide with late signals.
TcpReconnects ==
    <>[]reachable =>
        (ctl.state = "ConnectionLost" /\ type = "Tcp" ~> ctl.state # "ConnectionLost")

\* The same over a serial port.  The code does not keep this: a port that has
\* reported an error stays open, and open() fails on it.
SerialReconnects ==
    <>[]reachable =>
        (ctl.state = "ConnectionLost" /\ type = "Rtu" ~> ctl.state # "ConnectionLost")
=============================================================================

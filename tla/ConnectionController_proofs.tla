-------------------- MODULE ConnectionController_proofs ---------------------
(***************************************************************************)
(* Safety of the user's session, for every choice of connection types and  *)
(* every set of devices.                                                   *)
(***************************************************************************)
EXTENDS ConnectionController, TLAPS

-----------------------------------------------------------------------------
(* The controller's slots, one by one.                                     *)

\* What each line does to the counts of a log.
LEMMA LogType ==
    ASSUME NEW log \in Logs
    PROVE  /\ NoLog \in Logs /\ OpenLosses(NoLog) = 0
           /\ \A lost \in BOOLEAN : /\ StartLogging(lost) \in Logs /\ StartLogging(lost).open
                                    /\ OpenLosses(StartLogging(lost)) = IF lost THEN 1 ELSE 0
           /\ StopLogging(log) \in Logs /\ ~StopLogging(log).open
           /\ OpenLosses(StopLogging(log)) = OpenLosses(log)
           /\ RecordDisconnect(log) \in Logs /\ RecordDisconnect(log).open = log.open
           /\ RecordReconnect(log) \in Logs /\ RecordReconnect(log).open = log.open
           /\ RecordNothing(log) \in Logs /\ RecordNothing(log).open = log.open
           /\ log.open => /\ OpenLosses(RecordDisconnect(log)) = OpenLosses(log) + 1
                          /\ OpenLosses(RecordReconnect(log)) = OpenLosses(log) - 1
                          /\ OpenLosses(RecordNothing(log)) = OpenLosses(log) - 1
           /\ ~log.open => /\ RecordDisconnect(log) = log
                           /\ RecordReconnect(log) = log
                           /\ RecordNothing(log) = log
<1>. USE DEF Logs, OpenLosses
<1>1. NoLog \in Logs /\ OpenLosses(NoLog) = 0
  BY DEF NoLog
<1>2. \A lost \in BOOLEAN : /\ StartLogging(lost) \in Logs /\ StartLogging(lost).open
                            /\ OpenLosses(StartLogging(lost)) = IF lost THEN 1 ELSE 0
  BY DEF StartLogging
<1>3. /\ StopLogging(log) \in Logs /\ ~StopLogging(log).open
      /\ OpenLosses(StopLogging(log)) = OpenLosses(log)
  BY DEF StopLogging
<1>4. CASE log.open
  <2>1. /\ RecordDisconnect(log) \in Logs /\ RecordDisconnect(log).open = log.open
        /\ OpenLosses(RecordDisconnect(log)) = OpenLosses(log) + 1
    <3>1. RecordDisconnect(log) = [log EXCEPT !.unpaired = log.unpaired + 1]
      BY <1>4 DEF RecordDisconnect
    <3>2. log.unpaired \in Int /\ log.missed \in Int /\ log.unwritten \in Nat
      OBVIOUS
    <3>3. RecordDisconnect(log) \in Logs /\ RecordDisconnect(log).open = log.open
      BY <3>1, <3>2
    <3>4. OpenLosses(RecordDisconnect(log)) = OpenLosses(log) + 1
      BY <3>1, <3>2
    <3>. QED  BY <3>3, <3>4
  <2>2. /\ RecordReconnect(log) \in Logs /\ RecordReconnect(log).open = log.open
        /\ OpenLosses(RecordReconnect(log)) = OpenLosses(log) - 1
    <3>1. RecordReconnect(log) = [log EXCEPT !.unpaired = log.unpaired - 1]
      BY <1>4 DEF RecordReconnect
    <3>2. log.unpaired \in Int /\ log.missed \in Int /\ log.unwritten \in Nat
      OBVIOUS
    <3>3. RecordReconnect(log) \in Logs /\ RecordReconnect(log).open = log.open
      BY <3>1, <3>2
    <3>4. OpenLosses(RecordReconnect(log)) = OpenLosses(log) - 1
      BY <3>1, <3>2
    <3>. QED  BY <3>3, <3>4
  <2>3. /\ RecordNothing(log) \in Logs /\ RecordNothing(log).open = log.open
        /\ OpenLosses(RecordNothing(log)) = OpenLosses(log) - 1
    <3>1. RecordNothing(log) = [log EXCEPT !.unwritten = log.unwritten + 1]
      BY <1>4 DEF RecordNothing
    <3>2. log.unpaired \in Int /\ log.missed \in Int /\ log.unwritten \in Nat
      OBVIOUS
    <3>3. RecordNothing(log) \in Logs /\ RecordNothing(log).open = log.open
      BY <3>1, <3>2
    <3>4. OpenLosses(RecordNothing(log)) = OpenLosses(log) - 1
      BY <3>1, <3>2
    <3>. QED  BY <3>3, <3>4
  <2>. QED  BY <1>1, <1>2, <1>3, <1>4, <2>1, <2>2, <2>3
<1>5. CASE ~log.open
  <2>1. RecordDisconnect(log) = log /\ RecordReconnect(log) = log /\ RecordNothing(log) = log
    BY <1>5 DEF RecordDisconnect, RecordReconnect, RecordNothing
  <2>. QED  BY <1>1, <1>2, <1>3, <1>5, <2>1
<1>. QED  BY <1>4, <1>5

\* setState()
LEMMA StateSet ==
    ASSUME NEW c \in Controllers, NEW new \in States
    PROVE  /\ SetState(c, new) \in Controllers
           /\ SetState(c, new).state = new
           /\ SetState(c, new).onMain <=> new = "Connected" \/ (new # "Disconnected" /\ c.onMain)
           /\ SetState(c, new).log = IF new = "Disconnected" THEN StopLogging(c.log) ELSE c.log
<1>1. c.log \in Logs /\ StopLogging(c.log) \in Logs
  BY LogType DEF Controllers
<1>. QED  BY <1>1 DEF SetState, Controllers

\* handleTransportConnectionStateChanged(true)
LEMMA ConnectedSound ==
    ASSUME NEW c \in Controllers, SessionSound(c)
    PROVE  /\ OnConnected(c) \in Controllers /\ SessionSound(OnConnected(c))
           /\ OnConnected(c).state = "Connected"
           /\ OnConnected(c).wanted = c.wanted /\ OnConnected(c).device = c.device
           /\ OnConnected(c).patient = c.patient
           /\ c.state = "ConnectionLost" \/ (~c.resume /\ c.polled = c.paused) =>
                  OnConnected(c).polled = OnConnected(c).paused
<1>. DEFINE s == SetState(c, "Connected")
            log == IF c.state = "ConnectionLost" THEN RecordReconnect(s.log) ELSE s.log
            polled == IF ~c.resume THEN c.polled ELSE IF c.favorites THEN "favorites" ELSE "normal"
<1>1. s \in Controllers /\ s.state = "Connected" /\ s.onMain /\ s.log = c.log
  BY StateSet DEF States
<1>2. s.polled = c.polled /\ s.favorites = c.favorites /\ s.paused = c.paused
  BY DEF SetState, Controllers
<1>3. s.wanted = c.wanted /\ s.device = c.device /\ s.patient = c.patient
  BY DEF SetState, Controllers
<1>4. log \in Logs /\ IF log.open THEN OpenLosses(log) = 0 ELSE OpenLosses(log) \in 0 .. 1
  <2>1. c.log \in Logs
    BY DEF Controllers
  <2>2. CASE c.state = "ConnectionLost"
    <3>1. log = RecordReconnect(c.log)
      BY <1>1, <2>2
    <3>2. IF c.log.open THEN OpenLosses(c.log) = 1 ELSE OpenLosses(c.log) \in 0 .. 1
      BY <2>2 DEF SessionSound
    <3>. QED  BY <2>1, <3>1, <3>2, LogType
  <2>3. CASE c.state # "ConnectionLost"
    BY <1>1, <2>1, <2>3 DEF SessionSound
  <2>. QED  BY <2>2, <2>3
<1>5. polled \in Modes
  BY DEF Controllers, Modes
<1>6. OnConnected(c) = [s EXCEPT !.log = log, !.retry = FALSE, !.resume = FALSE, !.polled = polled]
  BY <1>1, <1>2 DEF OnConnected, Controllers
<1>. HIDE DEF s, log
<1>7. OnConnected(c) \in Controllers /\ OnConnected(c).state = "Connected"
  BY <1>1, <1>4, <1>5, <1>6 DEF Controllers
<1>8. /\ OnConnected(c).wanted = c.wanted /\ OnConnected(c).device = c.device
      /\ OnConnected(c).patient = c.patient /\ OnConnected(c).paused = c.paused
      /\ OnConnected(c).favorites = c.favorites /\ OnConnected(c).polled = polled
      /\ OnConnected(c).onMain /\ ~OnConnected(c).resume /\ OnConnected(c).log = log
  BY <1>1, <1>2, <1>3, <1>6 DEF Controllers
<1>9. SessionSound(OnConnected(c))
  BY <1>4, <1>7, <1>8 DEF SessionSound
<1>10. c.state = "ConnectionLost" \/ (~c.resume /\ c.polled = c.paused) => polled = c.paused
  BY DEF SessionSound, Controllers, Modes
<1>. QED  BY <1>7, <1>8, <1>9, <1>10

\* handleTransportConnectionStateChanged(false)
LEMMA DisconnectedSound ==
    ASSUME NEW c \in Controllers, SessionSound(c)
    PROVE  /\ OnDisconnected(c) \in Controllers /\ SessionSound(OnDisconnected(c))
           /\ OnDisconnected(c).state = IF IsEstablished(c) THEN "ConnectionLost" ELSE c.state
           /\ IsEstablished(c) => OnDisconnected(c).retry
           /\ OnDisconnected(c).onMain <=> c.onMain
           /\ OnDisconnected(c).wanted = c.wanted /\ OnDisconnected(c).device = c.device
           /\ OnDisconnected(c).patient = c.patient
<1>1. CASE ~IsEstablished(c)
  BY <1>1 DEF OnDisconnected
<1>2. CASE IsEstablished(c)
  <2>. DEFINE s == SetState(c, "ConnectionLost")
              d == OnDisconnected(c)
              log == IF IsNewLoss(c) THEN RecordDisconnect(s.log) ELSE s.log
              paused == IF c.state = "Connected" THEN c.polled ELSE c.paused
  <2>1. s \in Controllers /\ s.state = "ConnectionLost" /\ (s.onMain <=> c.onMain) /\ s.log = c.log
    BY StateSet DEF States
  <2>2. /\ s.favorites = c.favorites /\ s.paused = c.paused /\ s.wanted = c.wanted
        /\ s.device = c.device /\ s.patient = c.patient
    BY DEF SetState, Controllers
  <2>3. log \in Logs /\ IF log.open THEN OpenLosses(log) = 1 ELSE OpenLosses(log) \in 0 .. 1
    <3>1. c.log \in Logs
      BY DEF Controllers
    <3>2. CASE c.state = "Connected"
      <4>1. log = RecordDisconnect(c.log)
        BY <2>1, <3>2 DEF IsNewLoss
      <4>2. IF c.log.open THEN OpenLosses(c.log) = 0 ELSE OpenLosses(c.log) \in 0 .. 1
        BY <3>2 DEF SessionSound
      <4>. QED  BY <3>1, <4>1, <4>2, LogType
    <3>3. CASE c.state # "Connected"
      BY <1>2, <2>1, <3>1, <3>3 DEF SessionSound, IsNewLoss, IsEstablished
    <3>. QED  BY <3>2, <3>3
  <2>4. paused \in Modes /\ ResumesAfter(c) \in BOOLEAN
    BY DEF Controllers, ResumesAfter
  <2>5. d = [s EXCEPT !.resume = ResumesAfter(c), !.polled = "none", !.log = log,
                      !.retry = TRUE, !.paused = paused]
    BY <1>2, <2>1, <2>2 DEF OnDisconnected, Controllers
  <2>6. /\ ResumesAfter(c) <=> paused # "none"
        /\ paused # "none" => (c.favorites <=> paused = "favorites")
    BY <1>2 DEF SessionSound, IsEstablished, ResumesAfter, Controllers
  <2>. HIDE DEF s, d, log, paused
  <2>7. d \in Controllers /\ d.state = "ConnectionLost" /\ d.retry
    BY <2>1, <2>3, <2>4, <2>5 DEF Controllers, Modes
  <2>8. /\ (d.onMain <=> c.onMain) /\ d.wanted = c.wanted /\ d.device = c.device
        /\ d.patient = c.patient /\ d.favorites = c.favorites
        /\ d.paused = paused /\ d.polled = "none" /\ d.log = log /\ d.resume = ResumesAfter(c)
    BY <2>1, <2>2, <2>5 DEF Controllers
  <2>9. SessionSound(d)
    BY <1>2, <2>3, <2>6, <2>7, <2>8 DEF SessionSound
  <2>. QED  BY <1>2, <2>7, <2>8, <2>9 DEF d
<1>. QED  BY <1>1, <1>2

\* handleTransportError()
LEMMA ErrorSound ==
    ASSUME NEW c \in Controllers, SessionSound(c)
    PROVE  /\ OnError(c) \in Controllers /\ SessionSound(OnError(c))
           /\ OnError(c).state = IF IsEstablished(c) THEN "ConnectionLost" ELSE "Failed"
           /\ IsEstablished(c) => OnError(c).retry
           /\ OnError(c).onMain <=> c.onMain
           /\ OnError(c).wanted = c.wanted /\ OnError(c).device = c.device
           /\ OnError(c).patient = c.patient
<1>1. CASE c.state = "Connected"
  BY <1>1, DisconnectedSound DEF OnError, IsEstablished
<1>2. CASE c.state = "ConnectionLost"
  <2>1. OnError(c) = [c EXCEPT !.retry = TRUE]
    BY <1>2 DEF OnError
  <2>. QED  BY <1>2, <2>1 DEF SessionSound, IsEstablished, Controllers
<1>3. CASE ~IsEstablished(c)
  <2>. DEFINE d == SetState(c, "Failed")
  <2>1. OnError(c) = d
    BY <1>3 DEF OnError, IsEstablished
  <2>2. d \in Controllers /\ d.state = "Failed" /\ d.log = c.log
    BY StateSet DEF States
  <2>3. /\ (d.onMain <=> c.onMain) /\ d.wanted = c.wanted /\ d.device = c.device
        /\ d.patient = c.patient /\ d.favorites = c.favorites /\ d.polled = c.polled
    BY DEF SetState, Controllers
  <2>4. SessionSound(d)
    <3>. HIDE DEF d
    <3>. QED  BY <1>3, <2>2, <2>3 DEF SessionSound, IsEstablished
  <2>. QED  BY <1>3, <2>1, <2>2, <2>3, <2>4
<1>. QED  BY <1>1, <1>2, <1>3 DEF IsEstablished

\* The end of disconnectFromDevice().
LEMMA EndedSound ==
    ASSUME NEW c \in Controllers, c.polled = "none", ~c.favorites, OpenLosses(c.log) \in 0 .. 1
    PROVE  /\ Ended(c) \in Controllers /\ SessionSound(Ended(c))
           /\ Ended(c).state = "Disconnected" /\ Ended(c).patient = c.patient
<1>. DEFINE s == SetState(c, "Disconnected")
<1>0. s \in Controllers /\ s.state = "Disconnected" /\ ~s.onMain /\ s.log = StopLogging(c.log)
  BY StateSet DEF States
<1>4. ~s.log.open /\ OpenLosses(s.log) \in 0 .. 1
  BY <1>0, LogType DEF Controllers
<1>1. s.polled = "none" /\ ~s.favorites /\ s.patient = c.patient
  BY DEF SetState, Controllers
<1>2. Ended(c) = [s EXCEPT !.wanted = FALSE]
  BY DEF Ended
<1>. HIDE DEF s
<1>3. /\ Ended(c) \in Controllers /\ Ended(c).state = "Disconnected" /\ Ended(c).patient = c.patient
      /\ ~Ended(c).onMain /\ Ended(c).log = s.log /\ Ended(c).polled = "none" /\ ~Ended(c).favorites
  BY <1>0, <1>1, <1>2 DEF Controllers
<1>. QED  BY <1>3, <1>4 DEF SessionSound, IsEstablished

\* disconnectFromDevice() closing a transport that reports the end of its connection.
LEMMA EndedTwiceSound ==
    ASSUME NEW c \in Controllers, c.polled = "none", ~c.favorites, OpenLosses(c.log) \in 0 .. 1,
           c.state = "Connected" => SessionSound(c)
    PROVE  /\ Ended(OnDisconnected(c)) \in Controllers /\ SessionSound(Ended(OnDisconnected(c)))
           /\ Ended(OnDisconnected(c)).state = "Disconnected"
           /\ Ended(OnDisconnected(c)).patient = c.patient
<1>. DEFINE d == OnDisconnected(c)
<1>1. /\ d \in Controllers /\ d.polled = "none" /\ ~d.favorites /\ d.patient = c.patient
      /\ OpenLosses(d.log) \in 0 .. 1
  <2>1. CASE ~IsEstablished(c)
    BY <2>1 DEF OnDisconnected
  <2>2. CASE IsEstablished(c)
    <3>. DEFINE s == SetState(c, "ConnectionLost")
                log == IF IsNewLoss(c) THEN RecordDisconnect(s.log) ELSE s.log
                paused == IF c.state = "Connected" THEN c.polled ELSE c.paused
    <3>1. s \in Controllers /\ s.log = c.log
      BY StateSet DEF States
    <3>2. s.favorites = c.favorites /\ s.patient = c.patient /\ s.paused = c.paused
      BY DEF SetState, Controllers
    <3>3. log \in Logs /\ OpenLosses(log) \in 0 .. 1
      <4>1. c.log \in Logs
        BY DEF Controllers
      <4>2. CASE c.state = "Connected"
        <5>1. log = RecordDisconnect(c.log)
          BY <3>1, <4>2 DEF IsNewLoss
        <5>2. c.log.open => OpenLosses(c.log) = 0
          BY <4>2 DEF SessionSound
        <5>. QED  BY <4>1, <5>1, <5>2, LogType
      <4>3. CASE c.state # "Connected"
        BY <3>1, <4>1, <4>3 DEF IsNewLoss
      <4>. QED  BY <4>2, <4>3
    <3>4. paused \in Modes /\ ResumesAfter(c) \in BOOLEAN
      BY DEF Controllers, ResumesAfter
    <3>5. d = [s EXCEPT !.resume = ResumesAfter(c), !.polled = "none", !.log = log,
                        !.retry = TRUE, !.paused = paused]
      BY <2>2, <3>1, <3>2 DEF OnDisconnected, Controllers
    <3>. HIDE DEF s, d, log, paused
    <3>6. /\ d \in Controllers /\ d.polled = "none" /\ ~d.favorites /\ d.patient = c.patient
          /\ d.log = log
      BY <3>1, <3>2, <3>3, <3>4, <3>5 DEF Controllers, Modes
    <3>. QED  BY <3>3, <3>6
  <2>. QED  BY <2>1, <2>2
<1>. QED  BY <1>1, EndedSound

-----------------------------------------------------------------------------
(* The events, one by one.                                                 *)

LEMMA InitBooks == Init => TypeOK /\ SessionBooks
<1>. SUFFICES ASSUME Init PROVE TypeOK /\ SessionBooks
  OBVIOUS
<1>1. /\ ctl = [state |-> "Disconnected", retry |-> FALSE, resume |-> FALSE, polled |-> "none",
                favorites |-> FALSE, onMain |-> FALSE, log |-> NoLog, wanted |-> FALSE,
                paused |-> "none", device |-> settings[type], patient |-> TRUE]
      /\ type \in Types /\ settings \in [Types -> Devices] /\ peer = settings
      /\ tcp = "idle" /\ serial = "closed" /\ reachable \in BOOLEAN
  BY DEF Init
<1>2. NoLog \in Logs /\ ~NoLog.open /\ OpenLosses(NoLog) = 0
  BY DEF NoLog, Logs, OpenLosses
<1>3. ctl \in Controllers
  BY <1>1, <1>2 DEF Controllers, States, Modes
<1>4. TypeOK
  BY <1>1, <1>3 DEF TypeOK
<1>5. SessionSound(ctl)
  BY <1>1, <1>2 DEF SessionSound, IsEstablished
<1>. QED  BY <1>1, <1>4, <1>5 DEF SessionBooks, RetryScheduled, LinkIsOurs, IsEstablished

\* openActiveTransport(), on the way to a connection or back to it.
LEMMA OpenedBooks ==
    ASSUME TypeOK, SessionBooks, NEW c \in Controllers, SessionSound(c), OpenActive(c),
           UNCHANGED <<choices, reachable>>,
           c.state \in {"Connecting", "ConnectionLost"},
           c.onMain <=> ctl.onMain, c.patient => ctl.patient,
           c.patient => c.wanted /\ c.device = settings[type],
           ctl.state = "ConnectionLost" =>
               c.state = "ConnectionLost" \/ (~c.resume /\ c.polled = c.paused)
    PROVE  TypeOK' /\ SessionBooks' /\ ResumesPolling
<1>1. /\ peer' = [peer EXCEPT ![type] = settings[type]]
      /\ UNCHANGED <<type, settings, reachable>>
  BY DEF OpenActive, choices
<1>2. peer' \in [Types -> Devices] /\ peer'[type] = settings[type]
  BY <1>1 DEF TypeOK
<1>3. CASE type = "Tcp"
  <2>1. OpenTcp(c)
    BY <1>3 DEF OpenActive
  <2>2. tcp' = "connecting" /\ serial' = serial /\ (ctl' = c \/ ctl' = OnDisconnected(c))
    BY <2>1 DEF OpenTcp
  <2>3. /\ ctl' \in Controllers /\ SessionSound(ctl') /\ ctl'.state = c.state
        /\ ctl'.wanted = c.wanted /\ ctl'.device = c.device /\ ctl'.patient = c.patient
    BY <2>2, DisconnectedSound DEF IsEstablished
  <2>4. LinkIsOurs'
    BY <1>1, <1>2, <1>3, <2>2, <2>3 DEF SessionBooks, LinkIsOurs, TypeOK
  <2>5. RetryScheduled'
    BY <1>1, <1>3, <2>2 DEF RetryScheduled
  <2>. QED  BY <1>1, <1>2, <2>2, <2>3, <2>4, <2>5 DEF TypeOK, SessionBooks, ResumesPolling
<1>4. CASE type # "Tcp"
  <2>1. OpenSerial(c) /\ type = "Rtu"
    BY <1>4, ControllerAssumption DEF OpenActive, TypeOK
  <2>2. CASE serial = "closed" /\ reachable
    <3>1. serial' = "open" /\ ctl' = OnConnected(c) /\ tcp' = tcp
      BY <2>1, <2>2 DEF OpenSerial
    <3>2. /\ ctl' \in Controllers /\ SessionSound(ctl') /\ ctl'.state = "Connected"
          /\ ctl'.wanted = c.wanted /\ ctl'.device = c.device /\ ctl'.patient = c.patient
          /\ ctl.state = "ConnectionLost" => ctl'.polled = ctl'.paused
      BY <3>1, ConnectedSound
    <3>3. LinkIsOurs'
      BY <1>1, <1>2, <2>1, <3>1, <3>2 DEF SessionBooks, LinkIsOurs, TypeOK, SessionSound, IsEstablished
    <3>. QED  BY <1>1, <1>2, <3>1, <3>2, <3>3
              DEF TypeOK, SessionBooks, RetryScheduled, ResumesPolling
  <2>3. CASE ~(serial = "closed" /\ reachable)
    <3>1. serial' = serial /\ ctl' = OnError(OnError(c)) /\ tcp' = tcp
      BY <2>1, <2>3 DEF OpenSerial
    <3>2. /\ ctl' \in Controllers /\ SessionSound(ctl')
          /\ ctl'.state = IF c.state = "ConnectionLost" THEN "ConnectionLost" ELSE "Failed"
          /\ ctl'.state = "ConnectionLost" => ctl'.retry
          /\ ctl'.onMain <=> c.onMain
          /\ ctl'.wanted = c.wanted /\ ctl'.device = c.device /\ ctl'.patient = c.patient
      <4>1. /\ OnError(c) \in Controllers /\ SessionSound(OnError(c))
            /\ OnError(c).state = IF c.state = "ConnectionLost" THEN "ConnectionLost" ELSE "Failed"
            /\ OnError(c).onMain <=> c.onMain
            /\ OnError(c).wanted = c.wanted /\ OnError(c).device = c.device
            /\ OnError(c).patient = c.patient
        BY ErrorSound DEF IsEstablished
      <4>. QED  BY <3>1, <4>1, ErrorSound DEF IsEstablished
    <3>3. LinkIsOurs'
      BY <1>1, <1>2, <2>1, <3>1, <3>2 DEF SessionBooks, LinkIsOurs, TypeOK, IsEstablished
    <3>. QED  BY <1>1, <1>2, <3>1, <3>2, <3>3
              DEF TypeOK, SessionBooks, RetryScheduled, ResumesPolling
  <2>. QED  BY <2>2, <2>3
<1>. QED  BY <1>3, <1>4

LEMMA ConnectBooks ==
    TypeOK /\ SessionBooks /\ ConnectToDevice => TypeOK' /\ SessionBooks' /\ ResumesPolling
<1>. SUFFICES ASSUME TypeOK, SessionBooks, ConnectToDevice
              PROVE  TypeOK' /\ SessionBooks' /\ ResumesPolling
  OBVIOUS
<1>. DEFINE s == SetState(ctl, "Connecting")
            c == [s EXCEPT !.resume = FALSE, !.wanted = TRUE, !.paused = "none",
                           !.device = settings[type], !.log = RecordNothing(@)]
<1>1. /\ OpenActive(c) /\ UNCHANGED <<choices, reachable>>
      /\ ~ctl.onMain \/ ctl.state = "ConnectionLost"
  BY DEF ConnectToDevice, ConnectEnabled, ReconnectEnabled, WatermarkShown
<1>2. s \in Controllers /\ s.state = "Connecting" /\ (s.onMain <=> ctl.onMain) /\ s.log = ctl.log
  BY StateSet DEF States, TypeOK
<1>3. s.favorites = ctl.favorites /\ s.polled = ctl.polled /\ s.patient = ctl.patient
  BY DEF SetState, Controllers, TypeOK
<1>4. settings[type] \in Devices /\ ctl.log \in Logs /\ RecordNothing(ctl.log) \in Logs
  BY LogType DEF TypeOK, Controllers
<1>5. LET log == RecordNothing(ctl.log)
      IN  IF log.open THEN ctl.onMain /\ OpenLosses(log) = 0 ELSE OpenLosses(log) \in 0 .. 1
  <2>1. IF ctl.log.open
        THEN ctl.onMain /\ OpenLosses(ctl.log) = IF ctl.state = "ConnectionLost" THEN 1 ELSE 0
        ELSE OpenLosses(ctl.log) \in 0 .. 1
    BY DEF SessionBooks, SessionSound
  <2>. QED  BY <1>1, <1>4, <2>1, LogType
<1>. HIDE DEF s
<1>6. /\ c \in Controllers /\ c.state = "Connecting" /\ (c.onMain <=> ctl.onMain)
      /\ c.log = RecordNothing(ctl.log) /\ c.favorites = ctl.favorites /\ c.polled = ctl.polled
      /\ c.patient = ctl.patient /\ c.wanted /\ c.device = settings[type]
      /\ ~c.resume /\ c.paused = "none"
  BY <1>2, <1>3, <1>4 DEF Controllers, Modes
<1>. HIDE DEF c
<1>7. SessionSound(c)
  BY <1>5, <1>6 DEF SessionBooks, SessionSound, IsEstablished
<1>8. ctl.state = "ConnectionLost" => c.polled = c.paused
  BY <1>6 DEF SessionBooks, SessionSound
<1>. QED  BY <1>1, <1>6, <1>7, <1>8, OpenedBooks

LEMMA ReconnectBooks ==
    TypeOK /\ SessionBooks /\ BeginReconnectAttempt => TypeOK' /\ SessionBooks' /\ ResumesPolling
<1>. SUFFICES ASSUME TypeOK, SessionBooks, BeginReconnectAttempt
              PROVE  TypeOK' /\ SessionBooks' /\ ResumesPolling
  OBVIOUS
<1>. DEFINE c == [ctl EXCEPT !.retry = FALSE]
<1>1. /\ c \in Controllers /\ c.state = ctl.state /\ c.resume = ctl.resume /\ c.polled = ctl.polled
      /\ c.favorites = ctl.favorites /\ c.onMain = ctl.onMain /\ c.log = ctl.log
      /\ c.wanted = ctl.wanted /\ c.paused = ctl.paused /\ c.device = ctl.device
      /\ c.patient = ctl.patient
  BY DEF TypeOK, Controllers
<1>2. UNCHANGED <<choices, reachable>>
  BY DEF BeginReconnectAttempt
<1>3. CASE MayReconnect
  <2>1. OpenActive(c) /\ ctl.state = "ConnectionLost"
    BY <1>3 DEF BeginReconnectAttempt, MayReconnect
  <2>. HIDE DEF c
  <2>2. SessionSound(c)
    BY <1>1 DEF SessionBooks, SessionSound, IsEstablished
  <2>3. c.patient => c.wanted /\ c.device = settings[type]
    BY <1>1, <2>1 DEF SessionBooks, LinkIsOurs, IsEstablished
  <2>. QED  BY <1>1, <1>2, <2>1, <2>2, <2>3, OpenedBooks
<1>4. CASE ~MayReconnect
  <2>1. ctl' = c /\ UNCHANGED <<peer, tcp, serial>> /\ ctl.state # "ConnectionLost"
    BY <1>4 DEF BeginReconnectAttempt, MayReconnect
  <2>. HIDE DEF c
  <2>2. SessionSound(ctl')
    BY <1>1, <2>1 DEF SessionBooks, SessionSound, IsEstablished
  <2>3. LinkIsOurs' /\ RetryScheduled'
    BY <1>1, <1>2, <2>1 DEF SessionBooks, LinkIsOurs, RetryScheduled, IsEstablished, choices
  <2>. QED  BY <1>1, <1>2, <2>1, <2>2, <2>3 DEF TypeOK, SessionBooks, ResumesPolling, choices
<1>. QED  BY <1>3, <1>4

LEMMA DisconnectBooks ==
    TypeOK /\ SessionBooks /\ DisconnectFromDevice => TypeOK' /\ SessionBooks' /\ ResumesPolling
<1>. SUFFICES ASSUME TypeOK, SessionBooks, DisconnectFromDevice
              PROVE  TypeOK' /\ SessionBooks' /\ ResumesPolling
  OBVIOUS
<1>. DEFINE patient == ctl.patient /\ (type = "Tcp" => tcp # "connecting")
            e == EndSession(ctl)
            c == [e EXCEPT !.patient = @ /\ (type = "Tcp" => tcp # "connecting")]
<1>1. UNCHANGED <<type, settings, peer, reachable>>
  BY DEF DisconnectFromDevice, choices
<1>2. /\ e \in Controllers /\ e.polled = "none" /\ ~e.favorites /\ ~e.resume
      /\ e.state = ctl.state /\ e.onMain = ctl.onMain /\ e.log = ctl.log /\ e.patient = ctl.patient
  BY DEF EndSession, TypeOK, Controllers, Modes
<1>. HIDE DEF e
<1>3. /\ c \in Controllers /\ c.polled = "none" /\ ~c.favorites /\ ~c.resume
      /\ c.state = ctl.state /\ c.onMain = ctl.onMain /\ c.log = ctl.log
      /\ c.patient <=> patient
  BY <1>2 DEF Controllers
<1>4. (type = "Tcp" /\ CloseTcp(c)) \/ (type = "Rtu" /\ CloseSerial(c))
  BY <1>2, ControllerAssumption DEF DisconnectFromDevice, TypeOK, e
<1>. HIDE DEF c
<1>5. /\ c.state = "Connected" => SessionSound(c)
      /\ OpenLosses(c.log) \in 0 .. 1
  BY <1>3 DEF SessionBooks, SessionSound, IsEstablished
<1>6. ctl' = Ended(c) \/ ctl' = Ended(OnDisconnected(c))
  BY <1>4 DEF CloseTcp, CloseSerial
<1>7. /\ ctl' \in Controllers /\ SessionSound(ctl') /\ ctl'.state = "Disconnected"
      /\ ctl'.patient = c.patient
  BY <1>3, <1>5, <1>6, EndedSound, EndedTwiceSound
<1>8. LinkIsOurs' /\ TypeOK'
  <2>1. CASE type = "Tcp"
    <3>1. /\ serial' = serial
          /\ \/ tcp = "connecting" /\ tcp' = "closeOnConnect"
             \/ tcp = "up" /\ tcp' \in {"idle", "closing"}
             \/ tcp \in {"idle", "closing", "closeOnConnect"} /\ tcp' = tcp
      BY <1>4, <2>1 DEF CloseTcp
    <3>. QED  BY <1>1, <1>3, <1>7, <2>1, <3>1 DEF SessionBooks, LinkIsOurs, IsEstablished, TypeOK
  <2>2. CASE type = "Rtu"
    <3>1. serial' = "closed" /\ tcp' = tcp
      BY <1>4, <2>2 DEF CloseSerial, PortIsOpen
    <3>. QED  BY <1>1, <1>3, <1>7, <2>2, <3>1 DEF SessionBooks, LinkIsOurs, IsEstablished, TypeOK
  <2>. QED  BY <1>4, <2>1, <2>2
<1>. QED  BY <1>7, <1>8 DEF SessionBooks, RetryScheduled, ResumesPolling


\* Calls from the screens that leave the connection alone.
LEMMA PollingBooks ==
    TypeOK /\ SessionBooks /\ (StopPolling \/ \E mode \in {"normal", "favorites"} : StartPolling(mode))
        => TypeOK' /\ SessionBooks' /\ ResumesPolling
<1>. SUFFICES ASSUME TypeOK, SessionBooks,
                     StopPolling \/ \E mode \in {"normal", "favorites"} : StartPolling(mode)
              PROVE  TypeOK' /\ SessionBooks' /\ ResumesPolling
  OBVIOUS
<1>1. /\ UNCHANGED <<type, settings, peer, tcp, serial, reachable>>
      /\ ctl.onMain /\ ctl.state # "ConnectionLost"
  BY DEF StartPolling, StopPolling, MainScreenInUse, WatermarkShown, choices
<1>2. \E mode \in Modes, favorites \in BOOLEAN :
          /\ ctl' = [ctl EXCEPT !.polled = mode, !.favorites = favorites]
          /\ mode # "none" => (favorites <=> mode = "favorites")
  <2>1. CASE StopPolling
    <3>1. ctl' = [ctl EXCEPT !.polled = "none", !.favorites = ctl.favorites] /\ ctl.favorites \in BOOLEAN
      BY <2>1 DEF StopPolling, TypeOK, Controllers
    <3>. QED  BY <3>1 DEF Modes
  <2>2. ASSUME NEW mode \in {"normal", "favorites"}, StartPolling(mode) PROVE <1>2
    <3>1. ctl' = [ctl EXCEPT !.polled = mode, !.favorites = (mode = "favorites")]
      BY <2>2 DEF StartPolling
    <3>2. mode \in Modes /\ (mode = "favorites") \in BOOLEAN
      BY DEF Modes
    <3>. QED  BY <3>1, <3>2
  <2>. QED  BY <2>1, <2>2
<1>3. PICK mode \in Modes, favorites \in BOOLEAN :
          /\ ctl' = [ctl EXCEPT !.polled = mode, !.favorites = favorites]
          /\ mode # "none" => (favorites <=> mode = "favorites")
  BY <1>2
<1>4. /\ ctl' \in Controllers /\ ctl'.state = ctl.state /\ ctl'.retry = ctl.retry
      /\ ctl'.resume = ctl.resume /\ ctl'.onMain = ctl.onMain /\ ctl'.log = ctl.log
      /\ ctl'.wanted = ctl.wanted /\ ctl'.device = ctl.device /\ ctl'.patient = ctl.patient
      /\ ctl'.polled = mode /\ ctl'.favorites = favorites
  BY <1>3 DEF TypeOK, Controllers
<1>5. SessionSound(ctl')
  BY <1>1, <1>3, <1>4 DEF SessionBooks, SessionSound, IsEstablished
<1>6. LinkIsOurs' /\ RetryScheduled'
  BY <1>1, <1>4 DEF SessionBooks, LinkIsOurs, RetryScheduled, IsEstablished
<1>. QED  BY <1>1, <1>4, <1>5, <1>6 DEF TypeOK, SessionBooks, ResumesPolling

LEMMA LoggingBooks ==
    TypeOK /\ SessionBooks /\ ToggleLogging => TypeOK' /\ SessionBooks' /\ ResumesPolling
<1>. SUFFICES ASSUME TypeOK, SessionBooks, ToggleLogging
              PROVE  TypeOK' /\ SessionBooks' /\ ResumesPolling
  OBVIOUS
<1>1. UNCHANGED <<type, settings, peer, tcp, serial, reachable>>
  BY DEF ToggleLogging, choices
<1>2. PICK log \in Logs :
          /\ ctl' = [ctl EXCEPT !.log = log]
          /\ IF log.open THEN OpenLosses(log) = IF ctl.state = "ConnectionLost" THEN 1 ELSE 0
             ELSE OpenLosses(log) \in 0 .. 1
  <2>1. CASE ctl' = [ctl EXCEPT !.log = StartLogging(WatermarkShown)]
    <3>. DEFINE log == StartLogging(WatermarkShown)
    <3>1. WatermarkShown \in BOOLEAN
      BY DEF WatermarkShown
    <3>2. ctl.log \in Logs
      BY DEF TypeOK, Controllers
    <3>3. log \in Logs /\ log.open /\ OpenLosses(log) = IF WatermarkShown THEN 1 ELSE 0
      BY <3>1, <3>2, LogType
    <3>. HIDE DEF log
    <3>4. ctl' = [ctl EXCEPT !.log = log]
      BY <2>1 DEF log
    <3>. QED  BY <3>3, <3>4 DEF WatermarkShown
  <2>2. CASE ctl.log.open /\ ctl' = [ctl EXCEPT !.log = StopLogging(@)]
    <3>1. ctl.log \in Logs /\ OpenLosses(ctl.log) \in 0 .. 1
      BY <2>2 DEF TypeOK, Controllers, SessionBooks, SessionSound
    <3>. DEFINE log == StopLogging(ctl.log)
    <3>2. log \in Logs /\ ~log.open /\ OpenLosses(log) \in 0 .. 1
      BY <3>1, LogType
    <3>3. ctl' = [ctl EXCEPT !.log = log]
      BY <2>2
    <3>. HIDE DEF log
    <3>. QED  BY <3>2, <3>3
  <2>. QED  BY <2>1, <2>2 DEF ToggleLogging
<1>3. /\ ctl' \in Controllers /\ ctl'.state = ctl.state /\ ctl'.retry = ctl.retry
      /\ ctl'.resume = ctl.resume /\ ctl'.onMain = ctl.onMain /\ ctl'.log = log
      /\ ctl'.wanted = ctl.wanted /\ ctl'.device = ctl.device /\ ctl'.patient = ctl.patient
      /\ ctl'.polled = ctl.polled /\ ctl'.favorites = ctl.favorites /\ ctl'.paused = ctl.paused
  BY <1>2 DEF TypeOK, Controllers
<1>4. SessionSound(ctl')
  <2>1. ctl.onMain
    BY DEF ToggleLogging
  <2>. QED  BY <1>2, <1>3, <2>1 DEF SessionBooks, SessionSound, IsEstablished
<1>5. LinkIsOurs' /\ RetryScheduled'
  BY <1>1, <1>3 DEF SessionBooks, LinkIsOurs, RetryScheduled, IsEstablished
<1>. QED  BY <1>1, <1>3, <1>4, <1>5 DEF TypeOK, SessionBooks, ResumesPolling

\* The user changes the settings.
LEMMA ChangeBooks ==
    TypeOK /\ SessionBooks /\ (SetConnectionType \/ \E device \in Devices : SetHost(device) \/ SetSerialPort(device))
        => TypeOK' /\ SessionBooks' /\ ResumesPolling
<1>. SUFFICES ASSUME TypeOK, SessionBooks,
                     SetConnectionType \/ \E device \in Devices : SetHost(device) \/ SetSerialPort(device)
              PROVE  TypeOK' /\ SessionBooks' /\ ResumesPolling
  OBVIOUS
<1>1. Change /\ type' \in Types
  BY DEF SetConnectionType, SetHost, SetSerialPort, TypeOK
<1>2. settings' \in [Types -> Devices]
  BY DEF SetConnectionType, SetHost, SetSerialPort, TypeOK
<1>3. /\ ctl' = [ctl EXCEPT !.patient = @ /\ ctl.state # "Connecting"] /\ ~ctl.onMain
      /\ UNCHANGED <<peer, tcp, serial, reachable>>
  BY <1>1 DEF Change, SettingsInUse
<1>4. /\ ctl' \in Controllers /\ ctl'.state = ctl.state /\ ctl'.retry = ctl.retry
      /\ ctl'.resume = ctl.resume /\ ctl'.onMain = ctl.onMain /\ ctl'.log = ctl.log
      /\ ctl'.wanted = ctl.wanted /\ ctl'.device = ctl.device
      /\ ctl'.polled = ctl.polled /\ ctl'.favorites = ctl.favorites /\ ctl'.paused = ctl.paused
      /\ ctl'.patient <=> ctl.patient /\ ctl.state # "Connecting"
  BY <1>3 DEF TypeOK, Controllers
<1>5. SessionSound(ctl') /\ ~IsEstablished(ctl)
  BY <1>3, <1>4 DEF SessionBooks, SessionSound, IsEstablished
<1>6. LinkIsOurs' /\ RetryScheduled'
  BY <1>3, <1>4, <1>5 DEF SessionBooks, LinkIsOurs, RetryScheduled, IsEstablished
<1>. QED  BY <1>1, <1>2, <1>3, <1>4, <1>5, <1>6 DEF TypeOK, SessionBooks, ResumesPolling

\* The socket has connected.
LEMMA TcpConnectsBooks ==
    TypeOK /\ SessionBooks /\ TcpConnects => TypeOK' /\ SessionBooks' /\ ResumesPolling
<1>. SUFFICES ASSUME TypeOK, SessionBooks, TcpConnects
              PROVE  TypeOK' /\ SessionBooks' /\ ResumesPolling
  OBVIOUS
<1>1. UNCHANGED <<type, settings, peer, serial, reachable>>
  BY DEF TcpConnects, choices
<1>2. ctl \in Controllers /\ SessionSound(ctl)
  BY DEF TypeOK, SessionBooks
<1>3. CASE tcp = "connecting"
  <2>1. tcp' = "up" /\ ctl' = OnConnected(ctl)
    BY <1>3 DEF TcpConnects
  <2>2. /\ ctl' \in Controllers /\ SessionSound(ctl') /\ ctl'.state = "Connected"
        /\ ctl'.wanted = ctl.wanted /\ ctl'.device = ctl.device /\ ctl'.patient = ctl.patient
        /\ ResumesPolling
    BY <1>2, <2>1, ConnectedSound DEF ResumesPolling
  <2>3. LinkIsOurs' /\ RetryScheduled'
    BY <1>1, <1>3, <2>1, <2>2 DEF SessionBooks, LinkIsOurs, RetryScheduled, IsEstablished
  <2>. QED  BY <1>1, <2>1, <2>2, <2>3 DEF TypeOK, SessionBooks
<1>4. CASE tcp = "closeOnConnect"
  <2>1. tcp' = "idle" /\ ctl' = OnDisconnected(OnConnected(ctl))
    BY <1>4 DEF TcpConnects
  <2>2. /\ OnConnected(ctl) \in Controllers /\ SessionSound(OnConnected(ctl))
        /\ OnConnected(ctl).state = "Connected" /\ OnConnected(ctl).patient = ctl.patient
    BY <1>2, ConnectedSound
  <2>3. /\ ctl' \in Controllers /\ SessionSound(ctl') /\ ctl'.state = "ConnectionLost"
        /\ ctl'.retry /\ ctl'.patient = ctl.patient
    BY <2>1, <2>2, DisconnectedSound DEF IsEstablished
  <2>4. LinkIsOurs' /\ RetryScheduled'
    BY <1>4, <2>3 DEF SessionBooks, LinkIsOurs, RetryScheduled
  <2>. QED  BY <1>1, <2>1, <2>3, <2>4 DEF TypeOK, SessionBooks, ResumesPolling
<1>. QED  BY <1>3, <1>4 DEF TcpConnects

\* What a transport reports of a link that ends.
LEMMA ReportSound ==
    ASSUME TypeOK, SessionBooks,
           ctl' \in {OnError(ctl), OnDisconnected(ctl), OnDisconnected(OnError(ctl))}
    PROVE  /\ ctl' \in Controllers /\ SessionSound(ctl') /\ ResumesPolling
           /\ IF IsEstablished(ctl) THEN ctl'.state = "ConnectionLost" /\ ctl'.retry
              ELSE ctl'.state \in {ctl.state, "Failed"} /\ (ctl'.state = "Failed" \/ ctl' = ctl)
           /\ ctl'.onMain <=> ctl.onMain
           /\ ctl'.wanted = ctl.wanted /\ ctl'.device = ctl.device /\ ctl'.patient = ctl.patient
<1>1. ctl \in Controllers /\ SessionSound(ctl)
  BY DEF TypeOK, SessionBooks
<1>2. CASE ctl' = OnError(ctl)
  BY <1>1, <1>2, ErrorSound DEF ResumesPolling
<1>3. CASE ctl' = OnDisconnected(ctl)
  <2>1. ~IsEstablished(ctl) => ctl' = ctl
    BY <1>3 DEF OnDisconnected
  <2>. QED  BY <1>1, <1>3, <2>1, DisconnectedSound DEF ResumesPolling, IsEstablished
<1>4. CASE ctl' = OnDisconnected(OnError(ctl))
  <2>1. /\ OnError(ctl) \in Controllers /\ SessionSound(OnError(ctl))
        /\ OnError(ctl).state = IF IsEstablished(ctl) THEN "ConnectionLost" ELSE "Failed"
        /\ OnError(ctl).onMain <=> ctl.onMain
        /\ OnError(ctl).wanted = ctl.wanted /\ OnError(ctl).device = ctl.device
        /\ OnError(ctl).patient = ctl.patient
    BY <1>1, ErrorSound
  <2>. QED  BY <1>4, <2>1, DisconnectedSound DEF ResumesPolling, IsEstablished
<1>. QED  BY <1>2, <1>3, <1>4

\* The ends of attempts and links that the transports report.
LEMMA LinkEndsBooks ==
    TypeOK /\ SessionBooks /\ (TcpRefused \/ TcpCloses \/ TcpDrops \/ SerialFails)
        => TypeOK' /\ SessionBooks' /\ ResumesPolling
<1>. SUFFICES ASSUME TypeOK, SessionBooks, TcpRefused \/ TcpCloses \/ TcpDrops \/ SerialFails
              PROVE  TypeOK' /\ SessionBooks' /\ ResumesPolling
  OBVIOUS
<1>1. /\ UNCHANGED <<type, settings, peer, reachable>>
      /\ ctl' \in {OnError(ctl), OnDisconnected(ctl), OnDisconnected(OnError(ctl))}
  BY DEF TcpRefused, TcpCloses, TcpDrops, SerialFails, choices
<1>2. \/ tcp' = "idle" /\ serial' = serial
      \/ serial = "open" /\ serial' = "errored" /\ tcp' = tcp
  BY DEF TcpRefused, TcpCloses, TcpDrops, SerialFails
<1>3. /\ ctl' \in Controllers /\ SessionSound(ctl') /\ ResumesPolling
      /\ IF IsEstablished(ctl) THEN ctl'.state = "ConnectionLost" /\ ctl'.retry
         ELSE ctl'.state \in {ctl.state, "Failed"} /\ (ctl'.state = "Failed" \/ ctl' = ctl)
      /\ ctl'.onMain <=> ctl.onMain
      /\ ctl'.wanted = ctl.wanted /\ ctl'.device = ctl.device /\ ctl'.patient = ctl.patient
  BY <1>1, ReportSound
<1>4. RetryScheduled'
  BY <1>3 DEF RetryScheduled, IsEstablished
<1>5. ctl.patient /\ ctl.state = "Connecting" => ctl'.state = "Failed"
  <2>. SUFFICES ASSUME ctl.patient, ctl.state = "Connecting" PROVE ctl'.state = "Failed"
    OBVIOUS
  <2>1. tcp = "connecting"
    BY DEF SessionBooks, LinkIsOurs
  <2>2. ctl' = OnError(ctl)
    BY <2>1 DEF TcpRefused, TcpCloses, TcpDrops, SerialFails
  <2>. QED  BY <2>2, ErrorSound DEF SessionBooks, TypeOK, IsEstablished
<1>6. LinkIsOurs'
  BY <1>1, <1>2, <1>3, <1>5 DEF SessionBooks, LinkIsOurs, IsEstablished
<1>. QED  BY <1>1, <1>2, <1>3, <1>4, <1>6 DEF TypeOK, SessionBooks

LEMMA NextBooks == TypeOK /\ SessionBooks /\ [Next]_vars => TypeOK' /\ SessionBooks' /\ (ResumesPolling \/ UNCHANGED vars)
<1>. SUFFICES ASSUME TypeOK, SessionBooks, [Next]_vars
              PROVE  TypeOK' /\ SessionBooks' /\ (ResumesPolling \/ UNCHANGED vars)
  OBVIOUS
<1>1. CASE UNCHANGED vars \/ DeviceComesOrGoes
  <2>1. UNCHANGED <<ctl, type, settings, peer, tcp, serial>> /\ reachable' \in BOOLEAN
    BY <1>1 DEF vars, choices, DeviceComesOrGoes, TypeOK
  <2>. QED  BY <2>1 DEF TypeOK, SessionBooks, RetryScheduled, LinkIsOurs, ResumesPolling
<1>2. CASE User
  BY <1>2, ConnectBooks, DisconnectBooks, PollingBooks, LoggingBooks, ChangeBooks DEF User
<1>3. CASE BeginReconnectAttempt \/ AttemptEnds \/ TcpDrops \/ SerialFails
  BY <1>3, ReconnectBooks, TcpConnectsBooks, LinkEndsBooks DEF AttemptEnds
<1>. QED  BY <1>1, <1>2, <1>3 DEF Next

-----------------------------------------------------------------------------
(* The session.                                                            *)

\* The session's books are right between any two events, and its variables keep
\* their types.
THEOREM SessionCorrect == Spec => [](TypeOK /\ SessionBooks)
  BY InitBooks, NextBooks, PTL DEF Spec

\* A lost connection always has a retry to wait for, whatever order the slots of
\* errors and disconnections run in.
THEOREM RetryCorrect == Spec => []RetryScheduled
<1>1. SessionBooks => RetryScheduled
  BY DEF SessionBooks
<1>. QED  BY <1>1, SessionCorrect, PTL

\* The pointer to the favorites never outlives their screen, and answers go to them
\* exactly while they are polled.
THEOREM FavoritesCorrect == Spec => []FavoritesAreAlive
<1>1. SessionBooks => FavoritesAreAlive
  BY DEF SessionBooks, SessionSound, FavoritesAreAlive
<1>. QED  BY <1>1, SessionCorrect, PTL

\* An open log has one line for each loss and one for each automatic recovery, and is
\* one recovery short for each loss that the user ended by hand.
THEOREM LossesCorrect == Spec => []LossesArePaired
<1>1. SessionBooks => LossesArePaired
  BY DEF SessionBooks, SessionSound, LossesArePaired
<1>. QED  BY <1>1, SessionCorrect, PTL

\* An automatic reconnection polls what was polled when the connection was lost.
THEOREM ResumptionCorrect == Spec => PollingResumes
<1>1. TypeOK /\ SessionBooks /\ [Next]_vars => [ResumesPolling]_vars
  BY NextBooks
<1>. QED  BY <1>1, SessionCorrect, PTL DEF Spec, PollingResumes

\* Unless the user cuts an attempt short, the controller calls itself connected only
\* over a link that is up.
THEOREM ConnectedCorrect == Spec => []ConnectedMeansLinkUp
<1>1. SessionBooks => ConnectedMeansLinkUp
  BY DEF SessionBooks, LinkIsOurs, ConnectedMeansLinkUp
<1>. QED  BY <1>1, SessionCorrect, PTL

\* Unless the user cuts an attempt short, ending a session leaves no link open.
THEOREM DisconnectCorrect == Spec => []DisconnectClosesLink
<1>1. SessionBooks => DisconnectClosesLink
  BY DEF SessionBooks, SessionSound, LinkIsOurs, DisconnectClosesLink
<1>. QED  BY <1>1, SessionCorrect, PTL

\* Unless the user cuts an attempt short, no late signal or timer brings back a
\* session that has ended.
THEOREM EndCorrect == Spec => []EndedStaysEnded
<1>1. SessionBooks => EndedStaysEnded
  BY DEF SessionBooks, LinkIsOurs, IsEstablished, EndedStaysEnded
<1>. QED  BY <1>1, SessionCorrect, PTL

\* Unless the user edits the settings of a pending attempt, every retry goes to the
\* device the session began with.
THEOREM DeviceCorrect == Spec => []SessionKeepsItsDevice
<1>1. TypeOK /\ SessionBooks => SessionKeepsItsDevice
  BY DEF TypeOK, SessionBooks, LinkIsOurs, IsEstablished, SessionKeepsItsDevice
<1>. QED  BY <1>1, SessionCorrect, PTL
=============================================================================

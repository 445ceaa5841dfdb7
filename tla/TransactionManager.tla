------------------------- MODULE TransactionManager -------------------------
(***************************************************************************)
(* core/modbus/ModbusTransactionManager: sends request PDUs over a         *)
(* transport, matches the answers, retransmits on timeout.                 *)
(*                                                                         *)
(* A request is named by its number in the order of the sendRequest()      *)
(* calls; the list m_pending, to which requests are only appended, is the  *)
(* set of the numbers waiting, its order being that of the numbers.  The   *)
(* signals are Qt direct connections: the slots of the callers run inside  *)
(* the emit and may call back.  "running" says which handler of the        *)
(* manager is on the stack and "slot" which call-out it is inside.         *)
(*                                                                         *)
(* Bytes are abstracted to pieces of frames.  An intact answer is one      *)
(* "whole" piece, or a "head" (MBAP header or unit/function/count bytes)   *)
(* and a "tail" that arrive in different reads.  A piece the link damaged  *)
(* is "corrupt" (RTU, wrong CRC) or "noise" (RTU, unrecognised function    *)
(* code byte).                                                             *)
(***************************************************************************)
EXTENDS Integers, Sequences, FiniteSets

CONSTANTS
    Transports,    \* the framings in use, a subset of {"Tcp", "Rtu"}
    MaxRequests,   \* bound on the calls of sendRequest()
    MaxInFlight,   \* callers keep at most this many requests waiting
    RetryCount,    \* m_retryCount
    TidModulus,    \* 2^16: m_nextTransactionId is a quint16
    Faults         \* what the link does: a subset of
                   \* {"torn", "corrupt", "noise", "drop"}

ASSUME TransactionAssumption ==
    /\ Transports \subseteq {"Tcp", "Rtu"} /\ Transports # {}
    /\ MaxRequests \in Nat /\ MaxInFlight \in Nat /\ RetryCount \in Nat
    /\ TidModulus \in Nat /\ MaxRequests < TidModulus
    /\ Faults \subseteq {"torn", "corrupt", "noise", "drop"}

VARIABLES
    framing,       \* m_framingMode and the transport listened to
    sent,          \* calls of sendRequest() so far: m_nextTransactionId
    pending,       \* m_pending
    attempts,      \* PendingRequest::attemptsSoFar
    timerArmed,    \* m_timeoutTimer.isActive()
    rxBuffer,      \* m_receiveBuffer, as pieces
    running,       \* the handler on the stack: "none", "consume", "timeout"
    slot,          \* the call-out it is in: "none", "write", "report"
    resending,     \* framesToRetransmit, a local of handleTimeout()
    failing,       \* expiredAndExhausted, a local of handleTimeout()
    atDevice,      \* external: transmissions the device may still answer
    wire,          \* external: pieces on their way to the host
    written,       \* history: transmissions of each request
    outcome,       \* history: how each request ended
    reports,       \* history: how many times each request ended
    origin         \* history: the request whose answer was delivered

managerVars == <<framing, sent, pending, attempts, timerArmed, rxBuffer>>
stackVars   == <<running, slot, resending, failing>>
linkVars    == <<atDevice, wire>>
historyVars == <<written, outcome, reports, origin>>
vars == <<managerVars, stackVars, linkVars, historyVars>>

Requests == 1 .. MaxRequests
Parts    == {"whole", "head", "tail", "corrupt", "noise"}
Pieces   == [of : 0 .. MaxRequests, part : Parts]
Outcomes == {"none", "answered", "failed", "cancelled"}

Piece(n, p) == [of |-> n, part |-> p]

-----------------------------------------------------------------------------
(* Framing.                                                                *)

\* ++m_nextTransactionId of the n-th request, in 16 bits.
TidOf(n) == n % TidModulus

Reassembled(buf) == Len(buf) > 1 /\ buf[1].part = "head" /\ buf[2] = Piece(buf[1].of, "tail")

IsIntact(buf) == buf[1].part = "whole" \/ Reassembled(buf)

\* decodeMbapFrame() and expectedRtuResponseLength() find the frame that begins
\* the buffer where the device made it begin and end.
HoldsFrame(buf) == buf # <<>> /\ (buf[1].part = "corrupt" \/ IsIntact(buf))

\* The buffer begins inside a frame, or with a head whose tail was lost.  What is
\* taken for protocol id, length or byte count are bytes of some payload: a frame
\* may be seen there (protocolId == 0, enough bytes) or not, now or later.
IsOutOfStep(buf) ==
    /\ buf # <<>> /\ ~HoldsFrame(buf)
    /\ buf[1].part = "tail" \/ (buf[1].part = "head" /\ Len(buf) > 1)

\* The buffer once everything up to the k-th piece, or into it, is cut off.
CutAt(buf, k) ==
    LET after == SubSeq(buf, k + 1, Len(buf))
    IN  {after, <<Piece(buf[k].of, "tail")>> \o after}

\* The buffer once the first frame is cut off.  Out of step the frame ends
\* anywhere; a head whose tail was lost reaches into what follows it.
Rests(buf) ==
    IF HoldsFrame(buf)
    THEN {SubSeq(buf, IF Reassembled(buf) THEN 3 ELSE 2, Len(buf))}
    ELSE UNION {CutAt(buf, k) : k \in (IF buf[1].part = "head" THEN 2 ELSE 1) .. Len(buf)}

\* The transaction id read from the first frame: its own, or any two bytes of a
\* payload (0 standing for every id that no request has).
Tids(buf) ==
    IF buf[1].part = "tail" THEN {TidOf(n) : n \in Requests \cup {0}} ELSE {TidOf(buf[1].of)}

\* The request that a frame with transaction id tid completes.  (The first form is
\* the bug of a positional match under both framings.)  TCP: the first entry with
\* that id.  RTU: the oldest entry, if the CRC is right, which a damaged frame or
\* one cut out of step is assumed never to have.
CompletesOldest(n, tid) == n \in pending /\ \A m \in pending : n <= m

Completes(n, tid) ==
    /\ n \in pending
    /\ IF framing = "Tcp"
       THEN TidOf(n) = tid /\ \A m \in pending : TidOf(m) = tid => n <= m
       ELSE IsIntact(rxBuffer) /\ \A m \in pending : n <= m

-----------------------------------------------------------------------------
Init ==
    /\ framing \in Transports
    /\ sent = 0 /\ pending = {} /\ timerArmed = FALSE /\ rxBuffer = <<>>
    /\ attempts = [n \in Requests |-> 0]
    /\ running = "none" /\ slot = "none" /\ resending = {} /\ failing = {}
    /\ atDevice = [n \in Requests |-> 0] /\ wire = <<>>
    /\ written = [n \in Requests |-> 0]
    /\ outcome = [n \in Requests |-> "none"]
    /\ reports = [n \in Requests |-> 0]
    /\ origin = [n \in Requests |-> 0]

\* Bug: rearmTimeoutTimer() does not stop the timer of an empty list.
RearmNeverStops == timerArmed' = (timerArmed \/ pending' # {})

\* Bug: the timer is left alone.
RearmNothing == UNCHANGED timerArmed

\* rearmTimeoutTimer(), run after every change of m_pending.
Rearm == timerArmed' = (pending' # {})

\* Bug: the requests stay in the list until their slots have run.
RemoveLater(S) == pending' = pending

\* Requests leave m_pending before anything is emitted for them.
Remove(S) == pending' = pending \ S

\* The frame of request n goes to the transport.
Transmit(n) ==
    /\ written' = [written EXCEPT ![n] = @ + 1]
    /\ atDevice' = [atDevice EXCEPT ![n] = @ + 1]

\* Request n has come to its end: what the caller was told.
Ends(n, how) ==
    /\ outcome' = [outcome EXCEPT ![n] = how]
    /\ reports' = [reports EXCEPT ![n] = @ + 1]

-----------------------------------------------------------------------------
(* Calls of the poll engine and of the connection controller.              *)

\* Event handlers call while the manager is not running, the slots of
\* responseReceived and requestFailed from inside the emit.
CallerMayAct == running = "none" \/ slot = "report"

\* sendRequest()
SendRequest ==
    /\ CallerMayAct
    /\ sent < MaxRequests
    /\ Cardinality(pending) < MaxInFlight
    /\ sent' = sent + 1
    /\ attempts' = [attempts EXCEPT ![sent'] = 1]
    /\ pending' = pending \cup {sent'}
    /\ Rearm
    /\ Transmit(sent')
    /\ UNCHANGED <<framing, rxBuffer, wire, outcome, reports, origin, stackVars>>

\* cancelAll(), which the handler of a write error also calls.
CancelAll ==
    /\ CallerMayAct \/ slot = "write"
    /\ outcome' = [n \in Requests |-> IF n \in pending THEN "cancelled" ELSE outcome[n]]
    /\ reports' = [n \in Requests |-> IF n \in pending THEN reports[n] + 1 ELSE reports[n]]
    /\ pending' = {}
    /\ rxBuffer' = <<>>
    /\ timerArmed' = FALSE
    /\ UNCHANGED <<framing, sent, attempts, written, origin, linkVars, stackVars>>

\* setTransport() with another transport, and setFramingMode() to match.  What
\* the old link still carries is no longer listened to.
SwitchTransport ==
    /\ running = "none"
    /\ framing' \in Transports \ {framing}
    /\ rxBuffer' = <<>>
    /\ wire' = <<>>
    /\ atDevice' = [n \in Requests |-> 0]
    /\ UNCHANGED <<sent, pending, attempts, timerArmed, stackVars, historyVars>>

-----------------------------------------------------------------------------
(* handleDataReceived() and the two consume loops.                         *)

Arrives(k) ==
    /\ running = "none"
    /\ wire' = SubSeq(wire, k + 1, Len(wire))

\* Nothing is expected: the bytes are thrown away, not buffered.
DropData(k) ==
    /\ Arrives(k)
    /\ pending = {}
    /\ UNCHANGED <<managerVars, stackVars, atDevice, historyVars>>

BufferData(k) ==
    /\ Arrives(k)
    /\ pending # {}
    /\ rxBuffer' = rxBuffer \o SubSeq(wire, 1, k)
    /\ running' = "consume"
    /\ UNCHANGED <<framing, sent, pending, attempts, timerArmed, slot, resending, failing,
                   atDevice, historyVars>>

Consuming == running = "consume" /\ slot = "none"

\* completeRequest(): taken out of m_pending before the slots run.
CompleteRequest(n) ==
    /\ Consuming
    /\ HoldsFrame(rxBuffer) \/ IsOutOfStep(rxBuffer)
    /\ \E tid \in Tids(rxBuffer) : Completes(n, tid)
    /\ rxBuffer' \in Rests(rxBuffer)
    /\ Remove({n})
    /\ Rearm
    /\ slot' = "report"
    /\ Ends(n, "answered")
    /\ origin' = [origin EXCEPT ![n] = IF IsIntact(rxBuffer) THEN rxBuffer[1].of ELSE 0]
    /\ UNCHANGED <<framing, sent, attempts, running, resending, failing, linkVars, written>>

\* A frame of an unknown transaction, or with a bad CRC.
DiscardFrame ==
    /\ Consuming
    /\ pending # {}
    /\ HoldsFrame(rxBuffer) \/ IsOutOfStep(rxBuffer)
    /\ \E tid \in Tids(rxBuffer) : \A n \in pending : ~Completes(n, tid)
    /\ rxBuffer' \in Rests(rxBuffer)
    /\ UNCHANGED <<framing, sent, pending, attempts, timerArmed, stackVars, linkVars, historyVars>>

\* Bug: one frame is taken per read, whatever else has arrived.
LeavesAnyway == TRUE

NothingToTake == pending = {} \/ ~HoldsFrame(rxBuffer)

EndConsume ==
    /\ Consuming
    /\ NothingToTake
    /\ running' = "none"
    /\ UNCHANGED <<managerVars, slot, resending, failing, linkVars, historyVars>>

\* The slots of the last emit have returned.
SlotReturns ==
    /\ slot # "none"
    /\ slot' = "none"
    /\ UNCHANGED <<managerVars, running, resending, failing, linkVars, historyVars>>

-----------------------------------------------------------------------------
(* handleTimeout().                                                        *)

\* Bug: one attempt fewer than the retry count allows.
RetriesOnceLess(n) == attempts[n] < RetryCount

MayRetry(n) == attempts[n] <= RetryCount

\* The timer fires when the deadlines of the requests in E have passed.  (If
\* it fires before any has, the handler only rearms it.)
HandleTimeout(E) ==
    /\ running = "none"
    /\ timerArmed
    /\ E # {}
    /\ resending' = {n \in E : MayRetry(n)}
    /\ failing' = E \ resending'
    /\ attempts' = [n \in Requests |-> IF n \in resending' THEN attempts[n] + 1 ELSE attempts[n]]
    /\ Remove(failing')
    /\ Rearm
    /\ running' = "timeout"
    /\ UNCHANGED <<framing, sent, rxBuffer, slot, linkVars, historyVars>>

TimingOut == running = "timeout" /\ slot = "none"

\* The list is walked from its end, so the newest frame is written first.
Resend(n) ==
    /\ TimingOut
    /\ \A m \in resending : m <= n
    /\ resending' = resending \ {n}
    /\ Transmit(n)
    /\ slot' = "write"
    /\ UNCHANGED <<managerVars, running, failing, wire, outcome, reports, origin>>

\* emit requestFailed(), once every retransmission has been written.
ReportFailure(n) ==
    /\ TimingOut
    /\ resending = {}
    /\ \A m \in failing : m <= n
    /\ failing' = failing \ {n}
    /\ Ends(n, "failed")
    /\ slot' = "report"
    /\ UNCHANGED <<managerVars, running, resending, linkVars, written, origin>>

EndTimeout ==
    /\ TimingOut
    /\ resending = {} /\ failing = {}
    /\ running' = "none"
    /\ UNCHANGED <<managerVars, slot, resending, failing, linkVars, historyVars>>

-----------------------------------------------------------------------------
(* External: the device and the link.                                      *)

\* The device answers a transmission it received, in any order, late or never.
DeviceAnswers(n) ==
    /\ atDevice[n] > 0
    /\ atDevice' = [atDevice EXCEPT ![n] = @ - 1]
    /\ \/ wire' = Append(wire, Piece(n, "whole"))
       \/ "torn" \in Faults /\ wire' = wire \o <<Piece(n, "head"), Piece(n, "tail")>>
       \/ /\ "corrupt" \in Faults /\ framing = "Rtu"
          /\ wire' = Append(wire, Piece(n, "corrupt"))
    /\ UNCHANGED <<managerVars, stackVars, historyVars>>

\* Bound: one burst of noise at a time.
LineNoise ==
    /\ "noise" \in Faults /\ framing = "Rtu"
    /\ \A i \in DOMAIN (rxBuffer \o wire) : (rxBuffer \o wire)[i].part # "noise"
    /\ wire' = Append(wire, Piece(0, "noise"))
    /\ UNCHANGED <<managerVars, stackVars, atDevice, historyVars>>

\* The link goes down and comes back; the manager is not told.
LinkDrops ==
    /\ "drop" \in Faults
    /\ wire' = <<>>
    /\ atDevice' = [n \in Requests |-> 0]
    /\ UNCHANGED <<managerVars, stackVars, historyVars>>

-----------------------------------------------------------------------------
Environment ==
    \/ \E n \in Requests : DeviceAnswers(n)
    \/ LineNoise
    \/ LinkDrops

Caller == SendRequest \/ CancelAll \/ SwitchTransport

\* What runs to completion once a handler has been entered.
Handler ==
    \/ \E n \in pending : CompleteRequest(n)
    \/ DiscardFrame
    \/ EndConsume
    \/ \E n \in resending : Resend(n)
    \/ \E n \in failing : ReportFailure(n)
    \/ EndTimeout
    \/ SlotReturns

Next ==
    \/ Environment
    \/ Caller
    \/ \E k \in 1 .. Len(wire) : DropData(k) \/ BufferData(k)
    \/ Handler
    \/ \E E \in SUBSET pending : HandleTimeout(E)

\* The event loop runs every handler to its end, every deadline passes, and the
\* timer gets its turn between the reads of a line that never falls silent.
TimesOut(n) == \E E \in SUBSET pending : n \in E /\ HandleTimeout(E)

Fairness == WF_vars(Handler) /\ \A n \in Requests : SF_vars(TimesOut(n))

Spec == Init /\ [][Next]_vars /\ Fairness

-----------------------------------------------------------------------------
(* Properties.                                                             *)

\* Every variable stays in its domain; no list of the manager holds a request
\* that was not sent, and no request is retransmitted beyond the retry count.
TypeOK ==
    /\ framing \in Transports
    /\ sent \in 0 .. MaxRequests
    /\ pending \subseteq 1 .. sent
    /\ attempts \in [Requests -> 0 .. RetryCount + 1]
    /\ timerArmed \in BOOLEAN
    /\ rxBuffer \in Seq(Pieces)
    /\ running \in {"none", "consume", "timeout"}
    /\ slot \in {"none", "write", "report"}
    /\ resending \subseteq 1 .. sent
    /\ failing \subseteq 1 .. sent
    /\ atDevice \in [Requests -> Nat]
    /\ wire \in Seq(Pieces)
    /\ written \in [Requests -> Nat]
    /\ outcome \in [Requests -> Outcomes]
    /\ reports \in [Requests -> Nat]
    /\ origin \in [Requests -> 0 .. MaxRequests]

\* The single timer is armed exactly while something waits for it, through every
\* append, removal and cancellation, also those of slots running inside an emit:
\* a request waiting without a timer would never settle.
TimerTracksPending == timerArmed <=> pending # {}

\* A caller hears of a request at most once: no second answer after a late or
\* duplicate frame, no failure after an answer or after cancelAll(), whatever
\* the slots do in between.
EndsOnce == \A n \in Requests : reports[n] <= 1

\* Over Modbus TCP the answer delivered for a request is the device's answer to
\* that request, whatever is late, duplicated, reordered or cancelled.  The code
\* keeps this only while no part of an answer is lost (WholeAnswersMatch).
TcpAnswersMatch ==
    [][ \A n \in Requests :
            framing = "Tcp" /\ outcome[n] # "answered" /\ outcome'[n] = "answered"
                => origin'[n] = n ]_vars

\* Every head is followed by its own tail, and every tail preceded by its head.
IsWhole(s) ==
    \A i \in DOMAIN s :
        /\ s[i].part = "head" => i < Len(s) /\ s[i + 1] = Piece(s[i].of, "tail")
        /\ s[i].part = "tail" => i > 1 /\ s[i - 1] = Piece(s[i].of, "head")

\* Over Modbus TCP no request is ever completed by the device's answer to another
\* one; and while no part of an answer has been lost (neither to the link nor to
\* the manager, which drops what it reads when nothing waits and empties its
\* buffer in cancelAll()), it is completed by the answer to it, however the
\* answers are cut, repeated or reordered.
WholeAnswersMatch ==
    [][ \A n \in Requests :
            framing = "Tcp" /\ outcome[n] # "answered" /\ outcome'[n] = "answered" =>
                \/ origin'[n] = n
                \/ origin'[n] = 0 /\ ~IsWhole(rxBuffer \o wire) ]_vars

\* Over RTU the answer delivered for a request is the device's answer to it.
\* The code does not keep this: a late or repeated answer is taken for the
\* answer to the next request.
RtuAnswersMatch ==
    [][ \A n \in Requests :
            framing = "Rtu" /\ outcome[n] # "answered" /\ outcome'[n] = "answered"
                => origin'[n] = n ]_vars

\* A request is reported failed only once its frame has been written
\* RetryCount + 1 times, and it is never written more often than that.
FailsAfterEveryAttempt ==
    \A n \in Requests :
        /\ written[n] <= RetryCount + 1
        /\ outcome[n] = "failed" => written[n] = RetryCount + 1

HoldsAnswerTo(n, buf) ==
    \E i \in DOMAIN buf :
        \/ buf[i] = Piece(n, "whole")
        \/ i < Len(buf) /\ buf[i] = Piece(n, "head") /\ buf[i + 1] = Piece(n, "tail")

\* When the manager goes back to the event loop, no intact answer to a request
\* that is still waiting lies unread in the receive buffer.
NoStrandedAnswer ==
    running = "none" => \A n \in pending : ~HoldsAnswerTo(n, rxBuffer)

\* What the three properties above rest on, an invariant by induction.
\* The lists of handleTimeout() exist only while it runs, and a request whose
\* failure is decided has left m_pending.
ListsSeparate ==
    /\ pending \cap failing = {}
    /\ running # "timeout" => resending = {} /\ failing = {}

\* A request that was sent and is in no list has ended, once.
EndsCounted ==
    \A n \in Requests :
        /\ reports[n] = IF n <= sent /\ n \notin pending \cup failing THEN 1 ELSE 0
        /\ outcome[n] = "none" <=> reports[n] = 0

\* attemptsSoFar runs ahead of the wire by the retransmission still to write, and
\* a request that has failed or is about to has used every attempt.
AttemptsCounted ==
    \A n \in Requests :
        /\ attempts[n] = written[n] + (IF n \in resending THEN 1 ELSE 0)
        /\ n > sent => attempts[n] = 0
        /\ n \in failing \/ outcome[n] = "failed" =>
               attempts[n] = RetryCount + 1 /\ n \notin resending

\* The bookkeeping as a whole: the lists of the manager, its timer and what the
\* callers have heard agree, between any two of its steps.
Books == TimerTracksPending /\ ListsSeparate /\ EndsCounted /\ AttemptsCounted

\* What a link that does not tear answers apart may carry: answers to requests that
\* were sent, and over TCP, which has its own checksums, whole ones only.
Sound(s) ==
    \A i \in DOMAIN s :
        /\ s[i].part \in {"whole", "corrupt", "noise"} /\ s[i].of <= sent
        /\ s[i].part = "noise" => "noise" \in Faults /\ framing = "Rtu"
        /\ framing = "Tcp" => s[i].part = "whole" /\ s[i].of \in Requests

StreamSound ==
    "torn" \notin Faults =>
        /\ Sound(wire) /\ Sound(rxBuffer)
        /\ \A n \in Requests : atDevice[n] > 0 => n <= sent

\* The link neither tears answers apart nor lets noise into a serial line.
LineIsClean == "torn" \notin Faults /\ ("Rtu" \in Transports => "noise" \notin Faults)

\* Outside the consume loops no waiting request has its answer in the buffer: what
\* is left there came before the request was made.
BufferIsRead ==
    LineIsClean /\ running # "consume" =>
        \A n \in pending : \A i \in DOMAIN rxBuffer : rxBuffer[i] # Piece(n, "whole")

Waiting(n) == n \in pending \cup failing

\* Every request comes to an end: answered, failed or cancelled.
EveryRequestEnds ==
    \A n \in Requests : Waiting(n) ~> outcome[n] # "none"

\* The manager keeps the promise stated in TransactionService.
StatusOf ==
    [n \in Requests |->
        IF n \in failing THEN "expired"
        ELSE IF n \in pending THEN "outstanding"
        ELSE IF outcome[n] # "none" THEN outcome[n]
        ELSE "unsent"]

Service == INSTANCE TransactionService WITH status <- StatusOf

ImplementsService == Service!ServiceSpec
=============================================================================

--------------------- MODULE TransactionManager_proofs ----------------------
(***************************************************************************)
(* Safety of the transaction manager, for every number of requests, retry  *)
(* count, framing and link fault.                                          *)
(***************************************************************************)
EXTENDS TransactionManager, SequenceTheorems, TLAPS

-----------------------------------------------------------------------------
(* Type correctness.                                                       *)

\* Cutting a frame off the receive buffer leaves a sequence of pieces.
LEMMA RestType ==
    ASSUME NEW buf \in Seq(Pieces), NEW rest \in Rests(buf)
    PROVE  rest \in Seq(Pieces)
<1>1. \A k \in Nat : k > 0 => SubSeq(buf, k, Len(buf)) \in Seq(Pieces)
  <2>. TAKE k \in Nat
  <2>. HAVE k > 0
  <2>1. \A i \in k .. Len(buf) : buf[i] \in Pieces
    OBVIOUS
  <2>. QED  BY <2>1, SubSeqProperties
<1>2. CASE HoldsFrame(buf)
  <2>1. rest = SubSeq(buf, 2, Len(buf)) \/ rest = SubSeq(buf, 3, Len(buf))
    BY <1>2, Zenon DEF Rests
  <2>2. SubSeq(buf, 2, Len(buf)) \in Seq(Pieces) /\ SubSeq(buf, 3, Len(buf)) \in Seq(Pieces)
    BY <1>1
  <2>. QED  BY <2>1, <2>2, Zenon
<1>3. CASE ~HoldsFrame(buf)
  <2>1. PICK k \in 1 .. Len(buf) : rest \in CutAt(buf, k)
    BY <1>3 DEF Rests
  <2>2. buf[k] \in Pieces /\ SubSeq(buf, k + 1, Len(buf)) \in Seq(Pieces)
    BY <1>1
  <2>3. <<Piece(buf[k].of, "tail")>> \in Seq(Pieces)
    BY <2>2 DEF Piece, Pieces, Parts
  <2>4. \/ rest = SubSeq(buf, k + 1, Len(buf))
        \/ rest = <<Piece(buf[k].of, "tail")>> \o SubSeq(buf, k + 1, Len(buf))
    BY <2>1, Zenon DEF CutAt
  <2>5. <<Piece(buf[k].of, "tail")>> \o SubSeq(buf, k + 1, Len(buf)) \in Seq(Pieces)
    BY <2>2, <2>3
  <2>. QED  BY <2>2, <2>4, <2>5, Zenon
<1>. QED  BY <1>2, <1>3

\* Putting a frame on the line keeps the counts of written and delivered frames.
LEMMA TransmitType ==
    ASSUME NEW n \in Requests, written \in [Requests -> Nat],
           atDevice \in [Requests -> Nat], Transmit(n)
    PROVE  written' \in [Requests -> Nat] /\ atDevice' \in [Requests -> Nat]
<1>1. written' = [written EXCEPT ![n] = @ + 1] /\ atDevice' = [atDevice EXCEPT ![n] = @ + 1]
  BY DEF Transmit
<1>2. written' \in [Requests -> Nat]
  BY <1>1
<1>3. atDevice' \in [Requests -> Nat]
  BY <1>1
<1>. QED  BY <1>2, <1>3

LEMMA InitType == Init => TypeOK
<1>. SUFFICES ASSUME Init PROVE TypeOK
  OBVIOUS
<1>1. /\ attempts \in [Requests -> 0 .. RetryCount + 1]
      /\ origin \in [Requests -> 0 .. MaxRequests]
      /\ atDevice \in [Requests -> Nat] /\ written \in [Requests -> Nat]
      /\ reports \in [Requests -> Nat]
  BY TransactionAssumption DEF Init
<1>2. outcome \in [Requests -> Outcomes]
  BY DEF Init, Outcomes
<1>3. rxBuffer \in Seq(Pieces) /\ wire \in Seq(Pieces)
  BY DEF Init
<1>4. framing \in Transports /\ sent \in 0 .. MaxRequests
  BY TransactionAssumption DEF Init
<1>6. timerArmed \in BOOLEAN
  BY Zenon DEF Init
<1>5. /\ pending \subseteq 1 .. sent /\ resending \subseteq 1 .. sent
      /\ failing \subseteq 1 .. sent
      /\ running \in {"none", "consume", "timeout"} /\ slot \in {"none", "write", "report"}
  BY DEF Init
<1>. QED  BY <1>1, <1>2, <1>3, <1>4, <1>5, <1>6 DEF TypeOK

LEMMA NextType == TypeOK /\ [Next]_vars => TypeOK'
<1>. SUFFICES ASSUME TypeOK, [Next]_vars PROVE TypeOK'
  OBVIOUS
<1>. USE TransactionAssumption DEF TypeOK
<1>1. ASSUME NEW n \in Requests, DeviceAnswers(n) PROVE TypeOK'
  <2>1. /\ Piece(n, "whole") \in Pieces /\ Piece(n, "corrupt") \in Pieces
        /\ <<Piece(n, "head"), Piece(n, "tail")>> \in Seq(Pieces)
    BY <1>1 DEF Piece, Pieces, Parts, Requests
  <2>2. wire' \in Seq(Pieces)
    <3>1. CASE wire' = Append(wire, Piece(n, "whole"))
      BY <2>1, <3>1
    <3>2. CASE wire' = wire \o <<Piece(n, "head"), Piece(n, "tail")>>
      BY <2>1, <3>2
    <3>3. CASE wire' = Append(wire, Piece(n, "corrupt"))
      BY <2>1, <3>3
    <3>4. \/ wire' = Append(wire, Piece(n, "whole"))
          \/ wire' = wire \o <<Piece(n, "head"), Piece(n, "tail")>>
          \/ wire' = Append(wire, Piece(n, "corrupt"))
      BY <1>1, Zenon DEF DeviceAnswers
    <3>. QED  BY <3>1, <3>2, <3>3, <3>4
  <2>3. atDevice' \in [Requests -> Nat]
    BY <1>1 DEF DeviceAnswers
  <2>. QED  BY <1>1, <2>2, <2>3 DEF DeviceAnswers, managerVars, stackVars, historyVars
<1>2. CASE LineNoise
  <2>1. Piece(0, "noise") \in Pieces
    BY DEF Piece, Pieces, Parts
  <2>. QED  BY <1>2, <2>1 DEF LineNoise, managerVars, stackVars, historyVars
<1>3. CASE LinkDrops
  BY <1>3 DEF LinkDrops, managerVars, stackVars, historyVars
<1>4. CASE SendRequest
  <2>1. sent' \in 0 .. MaxRequests /\ sent' \in Requests /\ pending' \subseteq 1 .. sent'
    <3>1. sent' = sent + 1 /\ sent < MaxRequests /\ pending' = pending \cup {sent'}
      BY <1>4, Zenon DEF SendRequest
    <3>2. sent \in Nat /\ MaxRequests \in Nat /\ pending \subseteq 1 .. sent
      OBVIOUS
    <3>. HIDE TransactionAssumption DEF TypeOK
    <3>3. sent' \in 1 .. MaxRequests
      BY <3>1, <3>2
    <3>4. pending' \subseteq 1 .. sent'
      BY <3>1, <3>2
    <3>. QED  BY <3>3, <3>4 DEF Requests
  <2>2. attempts' \in [Requests -> 0 .. RetryCount + 1]
    BY <1>4, <2>1 DEF SendRequest
  <2>3. written' \in [Requests -> Nat] /\ atDevice' \in [Requests -> Nat]
    BY <1>4, <2>1, TransmitType DEF SendRequest
  <2>4. timerArmed' \in BOOLEAN
    BY <1>4 DEF SendRequest, Rearm
  <2>5. resending' \subseteq 1 .. sent' /\ failing' \subseteq 1 .. sent'
    BY <1>4 DEF SendRequest, stackVars
  <2>. QED  BY <1>4, <2>1, <2>2, <2>3, <2>4, <2>5 DEF SendRequest, stackVars
<1>5. CASE CancelAll
  <2>1. outcome' \in [Requests -> Outcomes]
    BY <1>5 DEF CancelAll, Outcomes
  <2>2. reports' \in [Requests -> Nat]
    BY <1>5 DEF CancelAll
  <2>3. rxBuffer' \in Seq(Pieces) /\ pending' \subseteq 1 .. sent
    BY <1>5 DEF CancelAll
  <2>4. timerArmed' \in BOOLEAN
    BY <1>5, Zenon DEF CancelAll
  <2>. QED  BY <1>5, <2>1, <2>2, <2>3, <2>4 DEF CancelAll, linkVars, stackVars
<1>6. CASE SwitchTransport
  BY <1>6 DEF SwitchTransport, stackVars, historyVars
<1>7. ASSUME NEW k \in 1 .. Len(wire), DropData(k) \/ BufferData(k) PROVE TypeOK'
  <2>1. SubSeq(wire, k + 1, Len(wire)) \in Seq(Pieces)
    <3>1. \A i \in k + 1 .. Len(wire) : wire[i] \in Pieces
      OBVIOUS
    <3>. QED  BY <3>1, SubSeqProperties
  <2>2. SubSeq(wire, 1, k) \in Seq(Pieces)
    <3>1. \A i \in 1 .. k : wire[i] \in Pieces
      OBVIOUS
    <3>. QED  BY <3>1, SubSeqProperties
  <2>3. CASE DropData(k)
    BY <2>1, <2>3 DEF DropData, Arrives, managerVars, stackVars, historyVars
  <2>4. CASE BufferData(k)
    BY <2>1, <2>2, <2>4 DEF BufferData, Arrives, historyVars
  <2>. QED  BY <1>7, <2>3, <2>4
<1>8. ASSUME NEW n \in pending, CompleteRequest(n) PROVE TypeOK'
  <2>0. n \in Requests
    BY <1>8 DEF Requests
  <2>1. rxBuffer' \in Seq(Pieces)
    BY <1>8, RestType DEF CompleteRequest
  <2>2. timerArmed' \in BOOLEAN /\ pending' \subseteq 1 .. sent'
    BY <1>8 DEF CompleteRequest, Rearm, Remove
  <2>3. outcome' \in [Requests -> Outcomes] /\ reports' \in [Requests -> Nat]
    BY <1>8, <2>0 DEF CompleteRequest, Ends, Outcomes
  <2>4. rxBuffer[1].of \in 0 .. MaxRequests
    <3>1. rxBuffer # <<>>
      BY <1>8 DEF CompleteRequest, HoldsFrame, IsOutOfStep
    <3>2. rxBuffer[1] \in Pieces
      BY <3>1
    <3>. QED  BY <3>2 DEF Pieces
  <2>5. origin' \in [Requests -> 0 .. MaxRequests]
    <3>1. CASE IsIntact(rxBuffer)
      BY <1>8, <2>0, <2>4, <3>1 DEF CompleteRequest
    <3>2. CASE ~IsIntact(rxBuffer)
      BY <1>8, <2>0, <3>2 DEF CompleteRequest
    <3>. QED  BY <3>1, <3>2
  <2>. QED  BY <1>8, <2>1, <2>2, <2>3, <2>5 DEF CompleteRequest, linkVars
<1>9. CASE DiscardFrame
  BY <1>9, RestType DEF DiscardFrame, stackVars, linkVars, historyVars
<1>10. CASE EndConsume
  BY <1>10 DEF EndConsume, managerVars, linkVars, historyVars
<1>11. ASSUME NEW n \in resending, Resend(n) PROVE TypeOK'
  <2>1. written' \in [Requests -> Nat] /\ atDevice' \in [Requests -> Nat]
    <3>1. n \in Requests
      BY <1>11 DEF Requests
    <3>. QED  BY <1>11, <3>1, TransmitType DEF Resend
  <2>. QED  BY <1>11, <2>1 DEF Resend, managerVars
<1>12. ASSUME NEW n \in failing, ReportFailure(n) PROVE TypeOK'
  <2>1. outcome' \in [Requests -> Outcomes] /\ reports' \in [Requests -> Nat]
    <3>1. n \in Requests
      BY <1>12 DEF Requests
    <3>. QED  BY <1>12, <3>1 DEF ReportFailure, Ends, Outcomes
  <2>. QED  BY <1>12, <2>1 DEF ReportFailure, managerVars, linkVars
<1>13. CASE EndTimeout
  BY <1>13 DEF EndTimeout, managerVars, linkVars, historyVars
<1>14. CASE SlotReturns
  BY <1>14 DEF SlotReturns, managerVars, linkVars, historyVars
<1>15. ASSUME NEW E \in SUBSET pending, HandleTimeout(E) PROVE TypeOK'
  <2>1. attempts' \in [Requests -> 0 .. RetryCount + 1]
    BY <1>15 DEF HandleTimeout, MayRetry
  <2>2. pending' \subseteq 1 .. sent /\ timerArmed' \in BOOLEAN
    BY <1>15 DEF HandleTimeout, Remove, Rearm
  <2>3. resending' \subseteq 1 .. sent /\ failing' \subseteq 1 .. sent
    BY <1>15 DEF HandleTimeout
  <2>. QED  BY <1>15, <2>1, <2>2, <2>3 DEF HandleTimeout, linkVars, historyVars
<1>16. CASE UNCHANGED vars
  BY <1>16 DEF vars, managerVars, stackVars, linkVars, historyVars
<1>. QED
  BY <1>1, <1>2, <1>3, <1>4, <1>5, <1>6, <1>7, <1>8, <1>9, <1>10, <1>11, <1>12,
     <1>13, <1>14, <1>15, <1>16 DEF Next, Environment, Caller, Handler

\* Every variable of the manager keeps its type, whatever the callers, the device
\* and the link do.
THEOREM TypeCorrect == Spec => []TypeOK
  BY InitType, NextType, PTL DEF Spec

-----------------------------------------------------------------------------
(* Who waits, who has ended, and how often each frame was written.         *)

LEMMA InitBooks == Init => Books
<1>. SUFFICES ASSUME Init PROVE Books
  OBVIOUS
<1>1. TimerTracksPending
  BY Zenon DEF Init, TimerTracksPending
<1>2. ListsSeparate
  BY DEF Init, ListsSeparate
<1>3. EndsCounted
  BY DEF Init, EndsCounted, Requests
<1>4. AttemptsCounted
  BY DEF Init, AttemptsCounted, Requests
<1>. QED  BY <1>1, <1>2, <1>3, <1>4 DEF Books

\* A step that leaves the lists, the timer and the histories alone.
LEMMA BooksUnchanged ==
    ASSUME Books,
           UNCHANGED <<sent, pending, attempts, timerArmed, resending, failing,
                       written, outcome, reports>>,
           (resending = {} /\ failing = {}) \/ running' = running
    PROVE  Books'
<1>1. TimerTracksPending'
  BY Zenon DEF Books, TimerTracksPending
<1>2. ListsSeparate'
  BY DEF Books, ListsSeparate
<1>3. EndsCounted'
  BY DEF Books, EndsCounted
<1>4. AttemptsCounted'
  BY DEF Books, AttemptsCounted
<1>. QED  BY <1>1, <1>2, <1>3, <1>4 DEF Books

LEMMA SendBooks == TypeOK /\ Books /\ SendRequest => Books'
<1>. SUFFICES ASSUME TypeOK, Books, SendRequest PROVE Books'
  OBVIOUS
<1>. USE TransactionAssumption DEF Books, TypeOK
<1>1. sent' = sent + 1 /\ sent' \in Requests /\ sent' \notin pending \cup failing \cup resending
  <2>1. sent' = sent + 1 /\ sent < MaxRequests
    BY Zenon DEF SendRequest
  <2>2. /\ sent \in Nat /\ MaxRequests \in Nat
        /\ pending \subseteq 1 .. sent /\ failing \subseteq 1 .. sent /\ resending \subseteq 1 .. sent
    OBVIOUS
  <2>. HIDE TransactionAssumption DEF Books, TypeOK
  <2>3. sent' \in Requests
    BY <2>1, <2>2 DEF Requests
  <2>4. sent' \notin pending \cup failing \cup resending
    BY <2>1, <2>2
  <2>. QED  BY <2>1, <2>3, <2>4
<1>2. /\ pending' = pending \cup {sent'}
      /\ UNCHANGED <<running, resending, failing, outcome, reports>>
  BY DEF SendRequest, stackVars
<1>3. TimerTracksPending'
  BY <1>2 DEF SendRequest, Rearm, TimerTracksPending
<1>4. ListsSeparate'
  BY <1>1, <1>2 DEF ListsSeparate
<1>5. EndsCounted'
  <2>. SUFFICES ASSUME NEW n \in Requests
                PROVE  /\ reports[n] = IF n <= sent' /\ n \notin pending' \cup failing THEN 1 ELSE 0
                       /\ outcome[n] = "none" <=> reports[n] = 0
    BY <1>2, Zenon DEF EndsCounted
  <2>1. n \in Nat /\ sent \in Nat
    BY DEF Requests
  <2>2. /\ reports[n] = IF n <= sent /\ n \notin pending \cup failing THEN 1 ELSE 0
        /\ outcome[n] = "none" <=> reports[n] = 0
    BY Zenon DEF EndsCounted
  <2>. HIDE TransactionAssumption DEF Books, TypeOK
  <2>3. n <= sent' /\ n \notin pending' \cup failing <=> n <= sent /\ n \notin pending \cup failing
    BY <1>1, <1>2, <2>1
  <2>. QED  BY <2>2, <2>3
<1>6. AttemptsCounted'
  <2>1. attempts' = [attempts EXCEPT ![sent'] = 1] /\ written' = [written EXCEPT ![sent'] = @ + 1]
    BY DEF SendRequest, Transmit
  <2>2. attempts[sent'] = 0 /\ written[sent'] = 0
    BY <1>1 DEF AttemptsCounted
  <2>3. sent' \notin resending' /\ sent' \notin failing'
    BY <1>1, <1>2
  <2>4. outcome[sent'] = "none"
    BY <1>1 DEF EndsCounted
  <2>. SUFFICES ASSUME NEW n \in Requests
                PROVE  /\ attempts'[n] = written'[n] + (IF n \in resending' THEN 1 ELSE 0)
                       /\ n > sent' => attempts'[n] = 0
                       /\ n \in failing' \/ outcome'[n] = "failed" =>
                              attempts'[n] = RetryCount + 1 /\ n \notin resending'
    BY DEF AttemptsCounted
  <2>5. CASE n = sent'
    BY <1>1, <1>2, <2>1, <2>2, <2>3, <2>4, <2>5
  <2>6. CASE n # sent'
    <3>1. attempts'[n] = attempts[n] /\ written'[n] = written[n]
      BY <2>1, <2>6
    <3>. QED  BY <1>1, <1>2, <2>6, <3>1 DEF AttemptsCounted, Requests
  <2>. QED  BY <2>5, <2>6
<1>. QED  BY <1>3, <1>4, <1>5, <1>6

LEMMA CancelBooks == TypeOK /\ Books /\ CancelAll => Books'
<1>. SUFFICES ASSUME TypeOK, Books, CancelAll PROVE Books'
  OBVIOUS
<1>. USE DEF Books, TypeOK
<1>1. /\ pending' = {}
      /\ UNCHANGED <<sent, attempts, written, running, resending, failing>>
  BY DEF CancelAll, stackVars
<1>2. TimerTracksPending'
  BY Zenon DEF CancelAll, TimerTracksPending
<1>3. ListsSeparate'
  BY <1>1 DEF ListsSeparate
<1>4. \A n \in Requests :
          /\ outcome'[n] = IF n \in pending THEN "cancelled" ELSE outcome[n]
          /\ reports'[n] = IF n \in pending THEN reports[n] + 1 ELSE reports[n]
  BY DEF CancelAll
<1>5. EndsCounted'
  BY <1>1, <1>4 DEF EndsCounted, ListsSeparate, Requests
<1>6. AttemptsCounted'
  BY <1>1, <1>4 DEF AttemptsCounted
<1>. QED  BY <1>2, <1>3, <1>5, <1>6

LEMMA CompleteBooks ==
    TypeOK /\ Books /\ (\E n \in pending : CompleteRequest(n)) => Books'
<1>. SUFFICES ASSUME TypeOK, Books, NEW n \in pending, CompleteRequest(n) PROVE Books'
  OBVIOUS
<1>. USE DEF Books, TypeOK
<1>1. /\ pending' = pending \ {n}
      /\ UNCHANGED <<sent, attempts, written, running, resending, failing>>
      /\ running = "consume"
  BY DEF CompleteRequest, Consuming, Remove
<1>2. n \in Requests /\ n <= sent /\ n \notin failing /\ reports[n] = 0
  BY TransactionAssumption DEF Requests, ListsSeparate, EndsCounted
<1>3. TimerTracksPending'
  BY DEF CompleteRequest, Rearm, TimerTracksPending
<1>4. ListsSeparate'
  BY <1>1 DEF ListsSeparate
<1>5. /\ outcome' = [outcome EXCEPT ![n] = "answered"]
      /\ reports' = [reports EXCEPT ![n] = @ + 1]
  BY DEF CompleteRequest, Ends
<1>6. EndsCounted'
  BY <1>1, <1>2, <1>5 DEF EndsCounted, Requests
<1>7. AttemptsCounted'
  BY <1>1, <1>2, <1>5 DEF AttemptsCounted
<1>. QED  BY <1>3, <1>4, <1>6, <1>7

LEMMA TimeoutBooks ==
    TypeOK /\ Books /\ (\E E \in SUBSET pending : HandleTimeout(E)) => Books'
<1>. SUFFICES ASSUME TypeOK, Books, NEW E \in SUBSET pending, HandleTimeout(E) PROVE Books'
  OBVIOUS
<1>. USE TransactionAssumption DEF Books, TypeOK
<1>1. /\ pending' = pending \ failing'
      /\ resending' = {n \in E : attempts[n] <= RetryCount}
      /\ failing' = E \ resending'
      /\ running' = "timeout" /\ resending = {} /\ failing = {}
      /\ UNCHANGED <<sent, written, outcome, reports>>
  BY DEF HandleTimeout, MayRetry, Remove, ListsSeparate, historyVars
<1>2. TimerTracksPending'
  BY DEF HandleTimeout, Rearm, TimerTracksPending
<1>3. ListsSeparate'
  BY <1>1 DEF ListsSeparate
<1>4. pending' \cup failing' = pending \cup failing
  BY <1>1
<1>5. EndsCounted'
  BY <1>1, <1>4 DEF EndsCounted
<1>6. \A n \in Requests :
          attempts'[n] = IF n \in resending' THEN attempts[n] + 1 ELSE attempts[n]
  BY DEF HandleTimeout
<1>7. AttemptsCounted'
  <2>. SUFFICES ASSUME NEW n \in Requests
                PROVE  /\ attempts'[n] = written'[n] + (IF n \in resending' THEN 1 ELSE 0)
                       /\ n > sent' => attempts'[n] = 0
                       /\ n \in failing' \/ outcome'[n] = "failed" =>
                              attempts'[n] = RetryCount + 1 /\ n \notin resending'
    BY DEF AttemptsCounted
  <2>1. attempts[n] = written[n]
    BY <1>1 DEF AttemptsCounted
  <2>2. n \in E => outcome[n] = "none" /\ n <= sent
    BY DEF EndsCounted
  <2>3. n \in failing' => attempts[n] = RetryCount + 1 /\ n \notin resending'
    BY <1>1
  <2>4. outcome'[n] = "failed" => attempts[n] = RetryCount + 1 /\ n \notin resending'
    BY <1>1, <2>2 DEF AttemptsCounted
  <2>5. n > sent => n \notin resending'
    BY <1>1, <2>2 DEF Requests
  <2>. QED  BY <1>1, <1>6, <2>1, <2>3, <2>4, <2>5 DEF AttemptsCounted
<1>. QED  BY <1>2, <1>3, <1>5, <1>7

LEMMA ResendBooks ==
    TypeOK /\ Books /\ (\E n \in resending : Resend(n)) => Books'
<1>. SUFFICES ASSUME TypeOK, Books, NEW n \in resending, Resend(n) PROVE Books'
  OBVIOUS
<1>. USE DEF Books, TypeOK
<1>1. /\ resending' = resending \ {n}
      /\ written' = [written EXCEPT ![n] = @ + 1]
      /\ running = "timeout"
      /\ UNCHANGED <<sent, pending, attempts, timerArmed, running, failing, outcome, reports>>
  BY DEF Resend, TimingOut, Transmit, managerVars
<1>2. n \in Requests
  BY TransactionAssumption DEF Requests
<1>3. TimerTracksPending'
  BY <1>1, Zenon DEF TimerTracksPending
<1>4. ListsSeparate'
  BY <1>1 DEF ListsSeparate
<1>5. EndsCounted'
  BY <1>1 DEF EndsCounted
<1>6. AttemptsCounted'
  BY <1>1, <1>2 DEF AttemptsCounted
<1>. QED  BY <1>3, <1>4, <1>5, <1>6

LEMMA ReportBooks ==
    TypeOK /\ Books /\ (\E n \in failing : ReportFailure(n)) => Books'
<1>. SUFFICES ASSUME TypeOK, Books, NEW n \in failing, ReportFailure(n) PROVE Books'
  OBVIOUS
<1>. USE DEF Books, TypeOK
<1>1. /\ failing' = failing \ {n}
      /\ outcome' = [outcome EXCEPT ![n] = "failed"]
      /\ reports' = [reports EXCEPT ![n] = @ + 1]
      /\ running = "timeout"
      /\ UNCHANGED <<sent, pending, attempts, timerArmed, running, resending, written>>
  BY DEF ReportFailure, TimingOut, Ends, managerVars
<1>2. n \in Requests /\ n <= sent /\ n \notin pending /\ reports[n] = 0
  BY TransactionAssumption DEF Requests, ListsSeparate, EndsCounted
<1>3. TimerTracksPending'
  BY <1>1, Zenon DEF TimerTracksPending
<1>4. ListsSeparate'
  BY <1>1 DEF ListsSeparate
<1>5. EndsCounted'
  BY <1>1, <1>2 DEF EndsCounted
<1>6. AttemptsCounted'
  BY <1>1, <1>2 DEF AttemptsCounted
<1>. QED  BY <1>3, <1>4, <1>5, <1>6

LEMMA NextBooks == TypeOK /\ Books /\ [Next]_vars => Books'
<1>. SUFFICES ASSUME TypeOK, Books, [Next]_vars PROVE Books'
  OBVIOUS
<1>. USE DEF managerVars, stackVars, linkVars, historyVars
<1>1. CASE Environment \/ UNCHANGED vars
  BY <1>1, BooksUnchanged DEF Environment, DeviceAnswers, LineNoise, LinkDrops, vars
<1>2. CASE SendRequest
  BY <1>2, SendBooks
<1>3. CASE CancelAll
  BY <1>3, CancelBooks
<1>4. CASE SwitchTransport
  BY <1>4, BooksUnchanged DEF SwitchTransport
<1>5. ASSUME NEW k \in 1 .. Len(wire), DropData(k) \/ BufferData(k) PROVE Books'
  <2>1. running = "none"
    BY <1>5 DEF DropData, BufferData, Arrives
  <2>2. resending = {} /\ failing = {}
    BY <2>1 DEF Books, ListsSeparate
  <2>. QED  BY <1>5, <2>2, BooksUnchanged DEF DropData, BufferData
<1>6. CASE \E n \in pending : CompleteRequest(n)
  BY <1>6, CompleteBooks
<1>7. CASE DiscardFrame
  BY <1>7, BooksUnchanged DEF DiscardFrame
<1>8. CASE EndConsume
  <2>1. resending = {} /\ failing = {}
    BY <1>8 DEF EndConsume, Consuming, Books, ListsSeparate
  <2>. QED  BY <1>8, <2>1, BooksUnchanged DEF EndConsume
<1>9. CASE \E n \in resending : Resend(n)
  BY <1>9, ResendBooks
<1>10. CASE \E n \in failing : ReportFailure(n)
  BY <1>10, ReportBooks
<1>11. CASE EndTimeout
  BY <1>11, BooksUnchanged DEF EndTimeout
<1>12. CASE SlotReturns
  BY <1>12, BooksUnchanged DEF SlotReturns
<1>13. CASE \E E \in SUBSET pending : HandleTimeout(E)
  BY <1>13, TimeoutBooks
<1>. QED
  BY <1>1, <1>2, <1>3, <1>4, <1>5, <1>6, <1>7, <1>8, <1>9, <1>10, <1>11, <1>12, <1>13
     DEF Next, Caller, Handler

\* The manager's books agree throughout: its lists, its timer, the count of
\* attempts, and what the callers have heard.
THEOREM BooksCorrect == Spec => [](TypeOK /\ Books)
<1>1. Init => TypeOK /\ Books
  BY InitType, InitBooks
<1>2. TypeOK /\ Books /\ [Next]_vars => (TypeOK /\ Books)'
  BY NextType, NextBooks
<1>. QED  BY <1>1, <1>2, PTL DEF Spec

\* The timeout timer is armed exactly while a request waits for it.
THEOREM TimerCorrect == Spec => []TimerTracksPending
<1>1. Books => TimerTracksPending
  BY DEF Books
<1>. QED  BY <1>1, BooksCorrect, PTL

\* No caller hears twice of one request.
THEOREM EndsOnceCorrect == Spec => []EndsOnce
<1>1. Books => EndsOnce
  BY DEF Books, EndsCounted, EndsOnce
<1>. QED  BY <1>1, BooksCorrect, PTL

\* A request fails after exactly RetryCount + 1 transmissions, never earlier, and
\* none is transmitted more often.
THEOREM RetriesCorrect == Spec => []FailsAfterEveryAttempt
<1>1. TypeOK /\ Books => FailsAfterEveryAttempt
  BY TransactionAssumption DEF Books, AttemptsCounted, TypeOK, FailsAfterEveryAttempt
<1>. QED  BY <1>1, BooksCorrect, PTL

-----------------------------------------------------------------------------
(* Matching over Modbus TCP.                                               *)

\* Fewer requests than transaction ids: a transaction id names one request.
LEMMA TidsDistinct ==
    ASSUME NEW m \in Requests, NEW n \in Requests, TidOf(m) = TidOf(n)
    PROVE  m = n
<1>1. \A k \in Requests : k % TidModulus = k
  BY TransactionAssumption DEF Requests
<1>. QED  BY <1>1 DEF TidOf

LEMMA RestSound ==
    ASSUME NEW buf \in Seq(Pieces), HoldsFrame(buf), buf[1].part # "head", NEW rest \in Rests(buf)
    PROVE  /\ rest = SubSeq(buf, 2, Len(buf))
           /\ \A i \in DOMAIN rest : i + 1 \in DOMAIN buf /\ rest[i] = buf[i + 1]
<1>1. rest = SubSeq(buf, 2, Len(buf))
  BY DEF Rests, Reassembled
<1>. QED  BY <1>1

\* Only a request that was sent is at the device.
LEMMA NextAtDevice ==
    ASSUME TypeOK, [Next]_vars, \A n \in Requests : atDevice[n] > 0 => n <= sent
    PROVE  \A n \in Requests : atDevice'[n] > 0 => n <= sent'
<1>. USE DEF TypeOK
<1>1. CASE UNCHANGED <<atDevice, sent>>
  BY <1>1
<1>2. CASE UNCHANGED sent /\ atDevice' = [n \in Requests |-> 0]
  BY <1>2
<1>3. CASE SendRequest
  <2>1. sent' = sent + 1 /\ sent' \in Requests /\ atDevice' = [atDevice EXCEPT ![sent'] = @ + 1]
    BY <1>3, TransactionAssumption DEF SendRequest, Transmit, Requests
  <2>. QED  BY <2>1
<1>4. ASSUME NEW m \in Requests, DeviceAnswers(m) PROVE \A n \in Requests : atDevice'[n] > 0 => n <= sent'
  <2>1. atDevice' = [atDevice EXCEPT ![m] = @ - 1] /\ sent' = sent /\ atDevice[m] > 0
    BY <1>4 DEF DeviceAnswers, managerVars
  <2>. QED  BY <2>1
<1>5. ASSUME NEW m \in resending, Resend(m) PROVE \A n \in Requests : atDevice'[n] > 0 => n <= sent'
  <2>1. atDevice' = [atDevice EXCEPT ![m] = @ + 1] /\ sent' = sent /\ m <= sent
    BY <1>5 DEF Resend, Transmit, managerVars
  <2>. QED  BY <2>1
<1>. QED
  BY <1>1, <1>2, <1>3, <1>4, <1>5
     DEF Next, Environment, Caller, Handler, LinkDrops, LineNoise, CancelAll, SwitchTransport,
         DropData, BufferData, CompleteRequest, DiscardFrame, EndConsume, ReportFailure,
         EndTimeout, SlotReturns, HandleTimeout, vars, managerVars, stackVars, linkVars, historyVars

LEMMA NextStream == TypeOK /\ StreamSound /\ [Next]_vars => StreamSound'
<1>. SUFFICES ASSUME TypeOK, StreamSound, [Next]_vars, "torn" \notin Faults
              PROVE  Sound(wire)' /\ Sound(rxBuffer)'
  BY NextAtDevice DEF StreamSound
<1>. USE DEF TypeOK
<1>0. Sound(wire) /\ Sound(rxBuffer) /\ \A n \in Requests : atDevice[n] > 0 => n <= sent
  BY DEF StreamSound
<1>1. CASE UNCHANGED <<framing, wire, rxBuffer>> /\ sent' \in {sent, sent + 1}
  <2>1. \A m \in 0 .. MaxRequests : m <= sent => m <= sent'
    BY <1>1, TransactionAssumption
  <2>2. \A s \in Seq(Pieces) : \A i \in DOMAIN s : s[i].of \in 0 .. MaxRequests
    <3>1. \A piece \in Pieces : piece.of \in 0 .. MaxRequests
      BY DEF Pieces
    <3>. QED  BY <3>1
  <2>. QED  BY <1>0, <1>1, <2>1, <2>2 DEF Sound
<1>2. CASE UNCHANGED <<framing, wire, sent>> /\ rxBuffer' = <<>>
  BY <1>0, <1>2 DEF Sound
<1>3. CASE wire' = <<>> /\ UNCHANGED <<framing, rxBuffer, sent>>
  BY <1>0, <1>3 DEF Sound
<1>4. CASE SwitchTransport
  BY <1>4 DEF SwitchTransport, Sound
<1>5. ASSUME NEW p \in Pieces, p.part \in {"whole", "corrupt", "noise"}, p.of <= sent,
             p.part = "noise" => "noise" \in Faults /\ framing = "Rtu",
             framing = "Tcp" => p.part = "whole" /\ p.of \in Requests,
             wire' = Append(wire, p), UNCHANGED <<framing, rxBuffer, sent>>
      PROVE  Sound(wire)' /\ Sound(rxBuffer)'
  BY <1>0, <1>5 DEF Sound
<1>6. ASSUME NEW k \in 1 .. Len(wire), DropData(k) \/ BufferData(k) PROVE Sound(wire)' /\ Sound(rxBuffer)'
  <2>1. wire' = SubSeq(wire, k + 1, Len(wire)) /\ UNCHANGED <<framing, sent>>
    BY <1>6 DEF DropData, BufferData, Arrives, managerVars
  <2>2. \A i \in DOMAIN wire' : wire'[i] = wire[k + i] /\ k + i \in DOMAIN wire
    BY <2>1
  <2>3. Sound(wire)'
    BY <1>0, <2>1, <2>2 DEF Sound
  <2>4. rxBuffer' = rxBuffer \/ rxBuffer' = rxBuffer \o SubSeq(wire, 1, k)
    BY <1>6 DEF DropData, BufferData, managerVars
  <2>5. Sound(rxBuffer)'
    <3>1. CASE rxBuffer' = rxBuffer
      BY <1>0, <2>1, <3>1 DEF Sound
    <3>2. CASE rxBuffer' = rxBuffer \o SubSeq(wire, 1, k)
      <4>1. SubSeq(wire, 1, k) \in Seq(Pieces) /\ Len(SubSeq(wire, 1, k)) = k
        OBVIOUS
      <4>2. \A i \in DOMAIN rxBuffer' :
               IF i <= Len(rxBuffer)
               THEN i \in DOMAIN rxBuffer /\ rxBuffer'[i] = rxBuffer[i]
               ELSE /\ i - Len(rxBuffer) \in DOMAIN wire
                    /\ rxBuffer'[i] = wire[i - Len(rxBuffer)]
        BY <3>2, <4>1
      <4>. QED  BY <1>0, <2>1, <4>2 DEF Sound
    <3>. QED  BY <2>4, <3>1, <3>2
  <2>. QED  BY <2>3, <2>5
<1>7. CASE /\ HoldsFrame(rxBuffer) \/ IsOutOfStep(rxBuffer)
           /\ rxBuffer' \in Rests(rxBuffer) /\ UNCHANGED <<framing, wire, sent>>
  <2>0. rxBuffer # <<>> /\ 1 \in DOMAIN rxBuffer
    BY <1>7 DEF HoldsFrame, IsOutOfStep
  <2>1. rxBuffer[1].part \notin {"head", "tail"} /\ HoldsFrame(rxBuffer)
    BY <1>0, <1>7, <2>0 DEF IsOutOfStep, Sound
  <2>2. \A i \in DOMAIN rxBuffer' : i + 1 \in DOMAIN rxBuffer /\ rxBuffer'[i] = rxBuffer[i + 1]
    BY <1>7, <2>1, RestSound
  <2>. QED  BY <1>0, <1>7, <2>2 DEF Sound
<1>8. ASSUME NEW n \in Requests, DeviceAnswers(n) PROVE Sound(wire)' /\ Sound(rxBuffer)'
  <2>1. Piece(n, "whole") \in Pieces /\ Piece(n, "corrupt") \in Pieces
    BY DEF Piece, Pieces, Parts, Requests
  <2>2. \/ wire' = Append(wire, Piece(n, "whole"))
        \/ framing = "Rtu" /\ wire' = Append(wire, Piece(n, "corrupt"))
    BY <1>8 DEF DeviceAnswers
  <2>3. UNCHANGED <<framing, rxBuffer, sent>> /\ n <= sent
    BY <1>0, <1>8 DEF DeviceAnswers, managerVars
  <2>. QED  BY <1>5, <2>1, <2>2, <2>3 DEF Piece
<1>9. CASE LineNoise
  <2>1. Piece(0, "noise") \in Pieces
    BY TransactionAssumption DEF Piece, Pieces, Parts
  <2>2. 0 <= sent
    BY TransactionAssumption
  <2>. QED  BY <1>5, <1>9, <2>1, <2>2 DEF LineNoise, Piece, managerVars
<1>. QED
  BY <1>1, <1>2, <1>3, <1>4, <1>6, <1>7, <1>8, <1>9
     DEF Next, Environment, Caller, Handler, LinkDrops, SendRequest, CancelAll,
         CompleteRequest, DiscardFrame, EndConsume, Resend, ReportFailure, EndTimeout,
         SlotReturns, HandleTimeout, vars, managerVars, stackVars, linkVars, historyVars

LEMMA InitStream == Init => StreamSound /\ BufferIsRead
  BY DEF Init, StreamSound, Sound, BufferIsRead

\* The answers to a link that does not tear them apart are what the device sent.
LEMMA StreamCorrect == Spec => [](TypeOK /\ StreamSound)
<1>1. TypeOK /\ StreamSound /\ [Next]_vars => StreamSound'
  BY NextStream
<1>. QED  BY <1>1, InitStream, TypeCorrect, PTL DEF Spec

\* Only completeRequest() answers a request, and over TCP it answers it with the
\* frame that carries the request's own transaction id.
LEMMA StepMatches ==
    "torn" \notin Faults /\ TypeOK /\ StreamSound /\ [Next]_vars =>
        \A n \in Requests :
            framing = "Tcp" /\ outcome[n] # "answered" /\ outcome'[n] = "answered"
                => origin'[n] = n
<1>. SUFFICES ASSUME "torn" \notin Faults, TypeOK, StreamSound, [Next]_vars,
                     NEW n \in Requests, framing = "Tcp",
                     outcome[n] # "answered", outcome'[n] = "answered"
              PROVE  origin'[n] = n
  OBVIOUS
<1>1. ASSUME NEW m \in pending, CompleteRequest(m) PROVE origin'[n] = n
  <2>1. m \in Requests /\ rxBuffer # <<>> /\ 1 \in DOMAIN rxBuffer
    <3>1. m \in Requests
      BY <1>1, TransactionAssumption DEF TypeOK, Requests
    <3>2. rxBuffer # <<>> /\ rxBuffer \in Seq(Pieces)
      BY <1>1 DEF TypeOK, CompleteRequest, HoldsFrame, IsOutOfStep
    <3>. QED  BY <3>1, <3>2
  <2>2. rxBuffer[1].part = "whole" /\ rxBuffer[1].of \in Requests
    BY <2>1 DEF StreamSound, Sound
  <2>3. TidOf(m) = TidOf(rxBuffer[1].of)
    BY <1>1, <2>2 DEF CompleteRequest, Completes, Tids
  <2>4. m = rxBuffer[1].of
    BY <2>1, <2>2, <2>3, TidsDistinct
  <2>5. origin' = [origin EXCEPT ![m] = m]
    BY <1>1, <2>2, <2>4 DEF CompleteRequest, IsIntact
  <2>6. n = m
    BY <1>1 DEF CompleteRequest, Ends, TypeOK
  <2>. QED  BY <2>1, <2>5, <2>6 DEF TypeOK
<1>2. ASSUME NEW m \in failing, ReportFailure(m) PROVE outcome'[n] # "answered"
  BY <1>2 DEF ReportFailure, Ends, TypeOK
<1>3. CASE CancelAll
  BY <1>3 DEF CancelAll
<1>4. CASE UNCHANGED outcome
  BY <1>4
<1>. QED
  BY <1>1, <1>2, <1>3, <1>4
     DEF Next, Environment, Caller, Handler, DeviceAnswers, LineNoise, LinkDrops,
         SendRequest, SwitchTransport, DropData, BufferData, DiscardFrame, EndConsume,
         Resend, EndTimeout, SlotReturns, HandleTimeout, vars, historyVars

\* What a Modbus TCP stream carries, torn or not: answers to requests, undamaged.
TcpIsClean ==
    framing = "Tcp" =>
        /\ \A i \in DOMAIN wire : wire[i].part \in {"whole", "head", "tail"}
        /\ \A i \in DOMAIN rxBuffer : rxBuffer[i].part \in {"whole", "head", "tail"}

LEMMA NextClean == TypeOK /\ TcpIsClean /\ [Next]_vars => TcpIsClean'
<1>. SUFFICES ASSUME TypeOK, TcpIsClean, [Next]_vars, framing' = "Tcp"
              PROVE  /\ \A i \in DOMAIN wire' : wire'[i].part \in {"whole", "head", "tail"}
                     /\ \A i \in DOMAIN rxBuffer' : rxBuffer'[i].part \in {"whole", "head", "tail"}
  BY DEF TcpIsClean
<1>. USE DEF TypeOK
<1>1. CASE SwitchTransport
  BY <1>1 DEF SwitchTransport
<1>. SUFFICES ASSUME framing = "Tcp", ~SwitchTransport,
                     \A i \in DOMAIN wire : wire[i].part \in {"whole", "head", "tail"},
                     \A i \in DOMAIN rxBuffer : rxBuffer[i].part \in {"whole", "head", "tail"}
              PROVE  /\ \A i \in DOMAIN wire' : wire'[i].part \in {"whole", "head", "tail"}
                     /\ \A i \in DOMAIN rxBuffer' : rxBuffer'[i].part \in {"whole", "head", "tail"}
  <2>1. framing' = framing \/ SwitchTransport
    BY DEF Next, Environment, Caller, Handler, DeviceAnswers, LineNoise, LinkDrops, SendRequest,
           CancelAll, DropData, BufferData, CompleteRequest, DiscardFrame, EndConsume, Resend,
           ReportFailure, EndTimeout, SlotReturns, HandleTimeout, vars, managerVars
  <2>. QED  BY <1>1, <2>1 DEF TcpIsClean
<1>2. CASE (UNCHANGED wire \/ wire' = <<>>) /\ (UNCHANGED rxBuffer \/ rxBuffer' = <<>>)
  BY <1>2
<1>3. ASSUME NEW n \in Requests, DeviceAnswers(n)
      PROVE  /\ \A i \in DOMAIN wire' : wire'[i].part \in {"whole", "head", "tail"}
             /\ \A i \in DOMAIN rxBuffer' : rxBuffer'[i].part \in {"whole", "head", "tail"}
  <2>1. Piece(n, "whole") \in Pieces /\ Piece(n, "head") \in Pieces /\ Piece(n, "tail") \in Pieces
    BY DEF Piece, Pieces, Parts, Requests
  <2>2. rxBuffer' = rxBuffer
    BY <1>3 DEF DeviceAnswers, managerVars
  <2>3. CASE wire' = Append(wire, Piece(n, "whole"))
    BY <2>1, <2>2, <2>3 DEF Piece
  <2>4. CASE wire' = wire \o <<Piece(n, "head"), Piece(n, "tail")>>
    BY <2>1, <2>2, <2>4 DEF Piece
  <2>. QED  BY <1>3, <2>3, <2>4 DEF DeviceAnswers
<1>4. CASE LineNoise
  BY <1>4 DEF LineNoise
<1>5. ASSUME NEW k \in 1 .. Len(wire), DropData(k) \/ BufferData(k)
      PROVE  /\ \A i \in DOMAIN wire' : wire'[i].part \in {"whole", "head", "tail"}
             /\ \A i \in DOMAIN rxBuffer' : rxBuffer'[i].part \in {"whole", "head", "tail"}
  <2>1. wire' = SubSeq(wire, k + 1, Len(wire))
    BY <1>5 DEF DropData, BufferData, Arrives
  <2>2. \A i \in DOMAIN wire' : wire'[i] = wire[k + i] /\ k + i \in DOMAIN wire
    BY <2>1
  <2>3. CASE rxBuffer' = rxBuffer
    BY <2>2, <2>3
  <2>4. CASE rxBuffer' = rxBuffer \o SubSeq(wire, 1, k)
    <3>1. \A i \in DOMAIN rxBuffer' :
             IF i <= Len(rxBuffer)
             THEN i \in DOMAIN rxBuffer /\ rxBuffer'[i] = rxBuffer[i]
             ELSE i - Len(rxBuffer) \in DOMAIN wire /\ rxBuffer'[i] = wire[i - Len(rxBuffer)]
      BY <2>4
    <3>. QED  BY <2>2, <3>1
  <2>. QED  BY <1>5, <2>3, <2>4 DEF DropData, BufferData, managerVars
<1>6. CASE rxBuffer' \in Rests(rxBuffer) /\ wire' = wire
  <2>1. \A k \in Nat : \A i \in DOMAIN SubSeq(rxBuffer, k + 1, Len(rxBuffer)) :
            SubSeq(rxBuffer, k + 1, Len(rxBuffer))[i].part \in {"whole", "head", "tail"}
    <3>. SUFFICES ASSUME NEW k \in Nat, NEW i \in DOMAIN SubSeq(rxBuffer, k + 1, Len(rxBuffer))
                  PROVE  SubSeq(rxBuffer, k + 1, Len(rxBuffer))[i].part \in {"whole", "head", "tail"}
      OBVIOUS
    <3>1. /\ k + i \in DOMAIN rxBuffer
          /\ SubSeq(rxBuffer, k + 1, Len(rxBuffer))[i] = rxBuffer[k + i]
      OBVIOUS
    <3>. QED  BY <3>1
  <2>2. CASE HoldsFrame(rxBuffer)
    <3>1. rxBuffer' \in {SubSeq(rxBuffer, 1 + 1, Len(rxBuffer)), SubSeq(rxBuffer, 2 + 1, Len(rxBuffer))}
      BY <1>6, <2>2 DEF Rests
    <3>. QED  BY <1>6, <2>1, <3>1
  <2>3. CASE ~HoldsFrame(rxBuffer)
    <3>1. PICK k \in 1 .. Len(rxBuffer) : rxBuffer' \in CutAt(rxBuffer, k)
      BY <1>6, <2>3 DEF Rests
    <3>. DEFINE after == SubSeq(rxBuffer, k + 1, Len(rxBuffer))
    <3>2. after \in Seq(Pieces) /\ rxBuffer[k] \in Pieces
      <4>1. \A i \in k + 1 .. Len(rxBuffer) : rxBuffer[i] \in Pieces
        OBVIOUS
      <4>. QED  BY <4>1, SubSeqProperties
    <3>3. <<Piece(rxBuffer[k].of, "tail")>> \in Seq(Pieces) /\ Piece(rxBuffer[k].of, "tail").part = "tail"
      BY <3>2 DEF Piece, Pieces, Parts
    <3>4. \A i \in DOMAIN after : after[i].part \in {"whole", "head", "tail"}
      BY <2>1
    <3>. HIDE DEF after
    <3>5. rxBuffer' \in {after, <<Piece(rxBuffer[k].of, "tail")>> \o after}
      BY <3>1 DEF CutAt, after
    <3>6. CASE rxBuffer' = <<Piece(rxBuffer[k].of, "tail")>> \o after
      <4>1. \A i \in DOMAIN rxBuffer' :
               IF i = 1 THEN rxBuffer'[i] = Piece(rxBuffer[k].of, "tail")
               ELSE i - 1 \in DOMAIN after /\ rxBuffer'[i] = after[i - 1]
        BY <3>2, <3>3, <3>6
      <4>. QED  BY <1>6, <3>3, <3>4, <4>1
    <3>. QED  BY <1>6, <3>4, <3>5, <3>6
  <2>. QED  BY <2>2, <2>3
<1>. QED
  BY <1>2, <1>3, <1>4, <1>5, <1>6
     DEF Next, Environment, Caller, Handler, LinkDrops, SendRequest, CancelAll,
         CompleteRequest, DiscardFrame, EndConsume, Resend, ReportFailure, EndTimeout,
         SlotReturns, HandleTimeout, vars, managerVars, stackVars, linkVars, historyVars

LEMMA CleanCorrect == Spec => [](TypeOK /\ TcpIsClean)
<1>1. Init => TcpIsClean
  BY DEF Init, TcpIsClean
<1>2. TypeOK /\ TcpIsClean /\ [Next]_vars => TcpIsClean'
  BY NextClean
<1>. QED  BY <1>1, <1>2, TypeCorrect, PTL DEF Spec

LEMMA StepMatchesWhole ==
    TypeOK /\ TcpIsClean /\ [Next]_vars =>
        \A n \in Requests :
            framing = "Tcp" /\ outcome[n] # "answered" /\ outcome'[n] = "answered" =>
                \/ origin'[n] = n
                \/ origin'[n] = 0 /\ ~IsWhole(rxBuffer \o wire)
<1>. SUFFICES ASSUME TypeOK, TcpIsClean, [Next]_vars,
                     NEW n \in Requests, framing = "Tcp",
                     outcome[n] # "answered", outcome'[n] = "answered"
              PROVE  origin'[n] = n \/ (origin'[n] = 0 /\ ~IsWhole(rxBuffer \o wire))
  OBVIOUS
<1>1. ASSUME NEW m \in pending, CompleteRequest(m)
      PROVE  origin'[n] = n \/ (origin'[n] = 0 /\ ~IsWhole(rxBuffer \o wire))
  <2>1. m \in Requests
    BY <1>1, TransactionAssumption DEF TypeOK, Requests
  <2>2. rxBuffer \in Seq(Pieces) /\ rxBuffer # <<>> /\ 1 \in DOMAIN rxBuffer /\ rxBuffer[1] \in Pieces
    <3>1. rxBuffer \in Seq(Pieces) /\ rxBuffer # <<>>
      BY <1>1 DEF TypeOK, CompleteRequest, HoldsFrame, IsOutOfStep
    <3>. QED  BY <3>1
  <2>3. n = m
    BY <1>1 DEF CompleteRequest, Ends, TypeOK
  <2>4. CASE IsIntact(rxBuffer)
    <3>1. rxBuffer[1].part \in {"whole", "head"} /\ rxBuffer[1].of \in 0 .. MaxRequests
      BY <2>2, <2>4 DEF IsIntact, Reassembled, Pieces
    <3>2. TidOf(m) = TidOf(rxBuffer[1].of)
      BY <1>1, <3>1 DEF CompleteRequest, Completes, Tids
    <3>3. m = rxBuffer[1].of
      <4>1. \A k \in 0 .. MaxRequests : k % TidModulus = k
        BY TransactionAssumption
      <4>2. m \in 0 .. MaxRequests
        BY <2>1, TransactionAssumption DEF Requests
      <4>. QED  BY <3>1, <3>2, <4>1, <4>2 DEF TidOf
    <3>4. origin' = [origin EXCEPT ![m] = m]
      BY <1>1, <2>4, <3>3 DEF CompleteRequest
    <3>. QED  BY <2>1, <2>3, <3>4 DEF TypeOK
  <2>5. CASE ~IsIntact(rxBuffer)
    <3>1. origin'[n] = 0
      BY <1>1, <2>1, <2>3, <2>5 DEF CompleteRequest, TypeOK
    <3>2. rxBuffer[1].part = "tail" \/ (rxBuffer[1].part = "head" /\ Len(rxBuffer) > 1)
      <4>1. rxBuffer[1].part # "corrupt"
        BY <2>2 DEF TcpIsClean
      <4>. QED  BY <1>1, <2>5, <4>1 DEF CompleteRequest, HoldsFrame, IsOutOfStep
    <3>3. ~IsWhole(rxBuffer \o wire)
      <4>. DEFINE stream == rxBuffer \o wire
      <4>1. /\ 1 \in DOMAIN stream /\ stream[1] = rxBuffer[1]
            /\ Len(rxBuffer) > 1 => 2 \in DOMAIN stream /\ stream[2] = rxBuffer[2]
        BY <2>2 DEF TypeOK
      <4>. HIDE DEF stream
      <4>2. ASSUME rxBuffer[1].part = "tail" PROVE ~IsWhole(stream)
        <5>1. stream[1].part = "tail" /\ ~(1 > 1)
          BY <4>1, <4>2
        <5>. QED  BY <4>1, <5>1 DEF IsWhole
      <4>3. ASSUME rxBuffer[1].part = "head", Len(rxBuffer) > 1 PROVE ~IsWhole(stream)
        <5>1. stream[1].part = "head" /\ stream[1 + 1] # Piece(stream[1].of, "tail")
          BY <2>5, <4>1, <4>3 DEF IsIntact, Reassembled
        <5>. QED  BY <4>1, <5>1 DEF IsWhole
      <4>4. ~IsWhole(stream)
        BY <3>2, <4>2, <4>3
      <4>. QED  BY <4>4 DEF stream
    <3>. QED  BY <3>1, <3>3
  <2>. QED  BY <2>4, <2>5
<1>2. ASSUME NEW m \in failing, ReportFailure(m) PROVE outcome'[n] # "answered"
  BY <1>2 DEF ReportFailure, Ends, TypeOK
<1>3. CASE CancelAll
  BY <1>3 DEF CancelAll
<1>4. CASE UNCHANGED outcome
  BY <1>4
<1>. QED
  BY <1>1, <1>2, <1>3, <1>4
     DEF Next, Environment, Caller, Handler, DeviceAnswers, LineNoise, LinkDrops,
         SendRequest, SwitchTransport, DropData, BufferData, DiscardFrame, EndConsume,
         Resend, EndTimeout, SlotReturns, HandleTimeout, vars, historyVars

\* Over Modbus TCP and any link, torn or not, no request is completed by the answer to
\* another one, and by none but its own while no part of an answer has been lost.
THEOREM WholeMatchCorrect == Spec => WholeAnswersMatch
<1>1. TypeOK /\ TcpIsClean /\ [Next]_vars =>
        [ \A n \in Requests :
            framing = "Tcp" /\ outcome[n] # "answered" /\ outcome'[n] = "answered" =>
                \/ origin'[n] = n
                \/ origin'[n] = 0 /\ ~IsWhole(rxBuffer \o wire) ]_vars
  BY StepMatchesWhole
<1>. QED  BY <1>1, CleanCorrect, PTL DEF Spec, WholeAnswersMatch

\* Over Modbus TCP the answer a caller receives is the device's answer to that very
\* request, if answers are not torn apart by the link.
THEOREM TcpMatchCorrect == "torn" \notin Faults /\ Spec => TcpAnswersMatch
<1>. SUFFICES ASSUME "torn" \notin Faults PROVE Spec => TcpAnswersMatch
  OBVIOUS
<1>1. TypeOK /\ StreamSound /\ [Next]_vars =>
        [ \A n \in Requests :
            framing = "Tcp" /\ outcome[n] # "answered" /\ outcome'[n] = "answered"
                => origin'[n] = n ]_vars
  BY StepMatches
<1>. QED  BY <1>1, StreamCorrect, PTL DEF Spec, TcpAnswersMatch

-----------------------------------------------------------------------------
(* The receive buffer.                                                     *)

\* Every consume loop takes what it can, and what it leaves is older than any request
\* made afterwards.
LEMMA NextBuffer == TypeOK /\ StreamSound /\ BufferIsRead /\ [Next]_vars => BufferIsRead'
<1>. SUFFICES ASSUME TypeOK, StreamSound, BufferIsRead, [Next]_vars, LineIsClean, running' # "consume",
                     NEW n \in pending', NEW i \in DOMAIN rxBuffer', rxBuffer'[i] = Piece(n, "whole")
              PROVE  FALSE
  BY DEF BufferIsRead
<1>. USE DEF TypeOK
<1>0. /\ \A j \in DOMAIN rxBuffer : rxBuffer[j].of <= sent /\ rxBuffer[j].part \in {"whole", "corrupt"}
      /\ running # "consume" =>
            \A m \in pending : \A j \in DOMAIN rxBuffer : rxBuffer[j] # Piece(m, "whole")
  BY DEF StreamSound, Sound, LineIsClean, BufferIsRead
<1>1. CASE rxBuffer' = rxBuffer /\ running # "consume" /\ pending' \subseteq pending
  BY <1>0, <1>1
<1>2. CASE rxBuffer' = <<>>
  BY <1>2
<1>3. CASE SendRequest
  <2>1. pending' = pending \cup {sent + 1} /\ rxBuffer' = rxBuffer /\ running' = running
    BY <1>3 DEF SendRequest, stackVars
  <2>2. rxBuffer[i].of <= sent /\ Piece(sent + 1, "whole").of = sent + 1
    BY <1>0, <2>1 DEF Piece
  <2>. QED  BY <1>0, <2>1, <2>2
<1>4. CASE EndConsume
  <2>1. pending' = pending /\ rxBuffer' = rxBuffer /\ ~HoldsFrame(rxBuffer)
    BY <1>4 DEF EndConsume, NothingToTake, managerVars
  <2>2. rxBuffer # <<>> /\ 1 \in DOMAIN rxBuffer
    BY <2>1
  <2>. QED  BY <1>0, <2>1, <2>2 DEF HoldsFrame, IsIntact
<1>5. ASSUME NEW k \in 1 .. Len(wire), DropData(k) \/ BufferData(k) PROVE FALSE
  BY <1>1, <1>5 DEF DropData, BufferData, Arrives, managerVars
<1>6. ASSUME NEW E \in SUBSET pending, HandleTimeout(E) PROVE FALSE
  BY <1>1, <1>6 DEF HandleTimeout, Remove
<1>7. CASE running' = running /\ rxBuffer' = rxBuffer /\ pending' = pending
  BY <1>1, <1>7
<1>8. CASE \/ CancelAll \/ SwitchTransport
           \/ (\E m \in pending : CompleteRequest(m)) \/ DiscardFrame
           \/ (\E m \in resending : Resend(m)) \/ (\E m \in failing : ReportFailure(m))
           \/ EndTimeout \/ SlotReturns
  BY <1>1, <1>2, <1>7, <1>8
     DEF CancelAll, SwitchTransport, CompleteRequest, DiscardFrame, Resend, ReportFailure, EndTimeout,
         SlotReturns, Consuming, TimingOut, managerVars, stackVars
<1>. QED
  BY <1>3, <1>4, <1>5, <1>6, <1>7, <1>8
     DEF Next, Environment, Caller, Handler, DeviceAnswers, LineNoise, LinkDrops, vars,
         managerVars, stackVars

\* On a line that neither tears answers apart nor inserts noise, no intact answer to a
\* waiting request is left unread in the receive buffer.
THEOREM NoneStranded == LineIsClean /\ Spec => []NoStrandedAnswer
<1>. SUFFICES ASSUME LineIsClean PROVE Spec => []NoStrandedAnswer
  OBVIOUS
<1>1. TypeOK /\ StreamSound /\ BufferIsRead => NoStrandedAnswer
  <2>. SUFFICES ASSUME TypeOK, StreamSound, BufferIsRead, running = "none", NEW n \in pending,
                       HoldsAnswerTo(n, rxBuffer)
                PROVE  FALSE
    BY DEF NoStrandedAnswer
  <2>1. \A i \in DOMAIN rxBuffer : rxBuffer[i].part # "head" /\ rxBuffer[i] # Piece(n, "whole")
    BY DEF StreamSound, Sound, BufferIsRead, LineIsClean
  <2>. QED  BY <2>1 DEF HoldsAnswerTo, Piece
<1>2. TypeOK /\ StreamSound /\ BufferIsRead /\ [Next]_vars => BufferIsRead'
  BY NextBuffer
<1>. QED  BY <1>1, <1>2, InitStream, StreamCorrect, PTL DEF Spec

-----------------------------------------------------------------------------
(* The manager implements TransactionService.                              *)

LEMMA InitService == Init => Service!ServiceInit
  BY DEF Init, Service!ServiceInit, StatusOf, Requests, Service!Requests

\* What the books say of the abstract status of a request.
LEMMA StatusFacts ==
    ASSUME TypeOK, Books, NEW n \in Requests
    PROVE  /\ StatusOf[n] = "outstanding" <=> n \in pending
           /\ StatusOf[n] = "expired" <=> n \in failing
           /\ StatusOf[n] = "unsent" <=> n > sent
           /\ n \notin pending \cup failing => StatusOf[n] = IF n > sent THEN "unsent" ELSE outcome[n]
<1>. USE DEF TypeOK, Books, Requests
<1>1. outcome[n] \in {"none", "answered", "failed", "cancelled"}
  BY DEF Outcomes
<1>2. n \in pending => n \notin failing
  BY DEF ListsSeparate
<1>3. n > sent => n \notin pending /\ n \notin failing
  BY TransactionAssumption
<1>4. n \notin pending \cup failing => (outcome[n] = "none" <=> n > sent)
  BY TransactionAssumption DEF EndsCounted
<1>. QED  BY <1>1, <1>2, <1>3, <1>4 DEF StatusOf

LEMMA StepService ==
    TypeOK /\ Books /\ TypeOK' /\ Books' /\ [Next]_vars => [Service!ServiceNext]_StatusOf
<1>. SUFFICES ASSUME TypeOK, Books, TypeOK', Books', [Next]_vars
              PROVE  [Service!ServiceNext]_StatusOf
  OBVIOUS
<1>0. /\ Service!Requests = Requests
      /\ StatusOf = [n \in Requests |-> StatusOf[n]]
      /\ StatusOf' = [n \in Requests |-> StatusOf'[n]]
  BY DEF Service!Requests, Requests, StatusOf
<1>1. CASE SendRequest
  <2>1. /\ sent' = sent + 1 /\ sent' \in Requests /\ pending' = pending \cup {sent'}
        /\ UNCHANGED <<failing, outcome>>
    BY <1>1, TransactionAssumption DEF SendRequest, stackVars, TypeOK, Requests
  <2>2. StatusOf[sent'] = "unsent" /\ \A m \in 1 .. sent' - 1 : StatusOf[m] # "unsent"
    <3>1. sent \in Nat
      BY TransactionAssumption DEF TypeOK
    <3>2. sent' > sent /\ \A m \in 1 .. sent' - 1 : m \in Requests /\ ~(m > sent)
      BY <2>1, <3>1, TransactionAssumption DEF Requests
    <3>3. StatusOf[sent'] = "unsent"
      BY <2>1, <3>2, StatusFacts
    <3>4. ASSUME NEW m \in 1 .. sent' - 1 PROVE StatusOf[m] # "unsent"
      <4>1. m \in Requests /\ ~(m > sent)
        BY <3>2
      <4>. QED  BY <4>1, StatusFacts
    <3>. QED  BY <3>3, <3>4
  <2>3. \A n \in Requests : StatusOf'[n] = IF n = sent' THEN "outstanding" ELSE StatusOf[n]
    <3>1. sent' \notin failing
      BY <2>1 DEF TypeOK
    <3>. QED  BY <2>1, <3>1 DEF StatusOf
  <2>4. Service!Issue(sent')
    BY <1>0, <2>1, <2>2, <2>3 DEF Service!Issue
  <2>. QED  BY <1>0, <2>1, <2>4 DEF Service!ServiceNext
<1>2. CASE CancelAll
  <2>1. /\ pending' = {} /\ UNCHANGED <<failing, sent>>
        /\ \A n \in Requests : outcome'[n] = IF n \in pending THEN "cancelled" ELSE outcome[n]
    BY <1>2 DEF CancelAll, stackVars
  <2>2. \A n \in Requests :
            StatusOf'[n] = IF StatusOf[n] = "outstanding" THEN "cancelled" ELSE StatusOf[n]
    <3>. TAKE n \in Requests
    <3>1. StatusOf[n] = "outstanding" <=> n \in pending
      BY StatusFacts
    <3>2. n \in pending => n \notin failing
      BY DEF Books, ListsSeparate
    <3>. QED  BY <2>1, <3>1, <3>2 DEF StatusOf
  <2>. QED  BY <1>0, <2>2 DEF Service!ServiceNext, Service!Cancel, Service!IsOutstanding
<1>3. ASSUME NEW n \in pending, CompleteRequest(n) PROVE Service!ServiceNext
  <2>1. n \in Requests
    BY TransactionAssumption DEF TypeOK, Requests
  <2>2. /\ pending' = pending \ {n} /\ outcome' = [outcome EXCEPT ![n] = "answered"]
        /\ UNCHANGED failing
    BY <1>3 DEF CompleteRequest, Remove, Ends
  <2>3. \A m \in Requests : StatusOf'[m] = IF m = n THEN "answered" ELSE StatusOf[m]
    <3>1. n \notin failing
      BY DEF Books, ListsSeparate
    <3>. QED  BY <2>1, <2>2, <3>1 DEF StatusOf, TypeOK
  <2>4. Service!Answer(n)
    BY <1>0, <2>1, <2>3, StatusFacts DEF Service!Answer, Service!IsOutstanding
  <2>. QED  BY <1>0, <2>1, <2>4 DEF Service!ServiceNext
<1>4. ASSUME NEW n \in failing, ReportFailure(n) PROVE Service!ServiceNext
  <2>1. n \in Requests
    BY TransactionAssumption DEF TypeOK, Requests
  <2>2. /\ failing' = failing \ {n} /\ outcome' = [outcome EXCEPT ![n] = "failed"]
        /\ UNCHANGED pending
    BY <1>4 DEF ReportFailure, Ends, managerVars
  <2>3. \A m \in Requests : StatusOf'[m] = IF m = n THEN "failed" ELSE StatusOf[m]
    <3>1. n \notin pending
      BY DEF Books, ListsSeparate
    <3>. QED  BY <2>1, <2>2, <3>1 DEF StatusOf, TypeOK
  <2>4. Service!Fail(n)
    BY <1>0, <2>1, <2>3, StatusFacts DEF Service!Fail
  <2>. QED  BY <1>0, <2>1, <2>4 DEF Service!ServiceNext
<1>5. ASSUME NEW E \in SUBSET pending, HandleTimeout(E) PROVE [Service!ServiceNext]_StatusOf
  <2>1. /\ pending' = pending \ failing' /\ failing' \subseteq pending /\ failing = {}
        /\ UNCHANGED outcome
    BY <1>5 DEF HandleTimeout, Remove, historyVars, Books, ListsSeparate
  <2>2. \A n \in Requests : StatusOf'[n] = IF n \in failing' THEN "expired" ELSE StatusOf[n]
    BY <2>1 DEF StatusOf
  <2>3. failing' \subseteq Requests /\ \A n \in failing' : StatusOf[n] = "outstanding"
    <3>1. failing' \subseteq Requests
      BY <2>1, TransactionAssumption DEF TypeOK, Requests
    <3>. QED  BY <2>1, <3>1, StatusFacts
  <2>4. CASE failing' = {}
    BY <1>0, <2>2, <2>4
  <2>5. CASE failing' # {}
    <3>1. Service!Expire(failing')
      BY <1>0, <2>2, <2>3, <2>5 DEF Service!Expire, Service!IsOutstanding
    <3>. QED  BY <1>0, <2>3, <3>1 DEF Service!ServiceNext
  <2>. QED  BY <2>4, <2>5
<1>6. CASE UNCHANGED <<pending, failing, outcome>>
  BY <1>6 DEF StatusOf
<1>. QED
  BY <1>1, <1>2, <1>3, <1>4, <1>5, <1>6
     DEF Next, Environment, Caller, Handler, DeviceAnswers, LineNoise, LinkDrops,
         SwitchTransport, DropData, BufferData, DiscardFrame, EndConsume, Resend,
         EndTimeout, SlotReturns, vars, managerVars, stackVars, historyVars

\* Whatever the framing, the link and the slots do, the callers of the manager see
\* the behaviour of TransactionService: issued once, ended once, and nothing heard
\* of a request after its end.
THEOREM ServiceImplemented == Spec => ImplementsService
<1>1. Init => Service!ServiceInit
  BY InitService
<1>2. TypeOK /\ Books /\ TypeOK' /\ Books' /\ [Next]_vars => [Service!ServiceNext]_StatusOf
  BY StepService
<1>. QED  BY <1>1, <1>2, BooksCorrect, PTL DEF Spec, ImplementsService, Service!ServiceSpec
=============================================================================

------------------------------ MODULE DataPath ------------------------------
(***************************************************************************)
(* The way of a value from the text a user types to the device's registers *)
(* and back to the text a row shows: ValueFormatter, the PDU codec, the    *)
(* framers and the consume loops of the transaction manager, byte by byte. *)
(* A job is what one user does: batches of requests, each batch handed to  *)
(* the manager at once and followed by the next when it is over.  Over RTU *)
(* the line may change or lose a byte of an answer.  The log panel lists   *)
(* the frames as they pass.                                                *)
(***************************************************************************)
EXTENDS Codec, ValueFormat, CommunicationLogModel

CONSTANTS
    Jobs,          \* the jobs a user may have
    RetryCount,    \* m_retryCount
    MaxDamage,     \* bound on the bytes the line changes or loses
    Flips          \* what a changed byte may be off by

PossibleAsks == [code : 1 .. 6, address : Register, argument : Register]

ASSUME JobsAssumption ==
    \A j \in Jobs : j.framing \in {"Tcp", "Rtu"} /\ j.batches \in Seq(Seq(PossibleAsks))

ASSUME PathAssumption == RetryCount \in Nat /\ MaxDamage \in Nat /\ Flips \subseteq 1 .. 255

VARIABLES
    job,           \* the user's job
    todo,          \* its batches still to be sent
    sent,          \* requests so far: m_nextTransactionId
    pending,       \* m_pending
    buffer,        \* m_receiveBuffer
    consuming,     \* a consume loop is running
    results,       \* what the controller decoded or was told, in order
    log,           \* m_entries of the log panel
    line,          \* external: frames on their way to the device
    memory,        \* external: the device's registers and coils
    wire,          \* external: bytes on their way to the host
    damage,        \* external: bytes changed or lost so far
    heard          \* history: what the device took each request for, what it
                   \* answered, and how the answer came through the line; on the
                   \* line each frame has beside its bytes what the host meant

hostVars   == <<todo, sent, pending, buffer, consuming, results, log>>
deviceVars == <<line, memory, wire, damage, heard>>
vars == <<job, hostVars, deviceVars>>

UnitId == 1

-----------------------------------------------------------------------------
(* Jobs.                                                                   *)

\* setValueAt() and writeSingleRegister(): a request for each register.
WriteAsks(address, settings, text) ==
    IF CanParse(settings, text)
    THEN LET registers == ParseValue(settings, text)
         IN  [k \in 1 .. Len(registers) |-> Ask(FunctionCode.WriteSingleRegister, address + k - 1, registers[k])]
    ELSE <<>>

\* A value is typed into a row, then the row is read again.
TypeValue(framing, address, settings, text) ==
    [framing |-> framing, settings |-> settings, text |-> text,
     batches |-> <<WriteAsks(address, settings, text),
                   <<Ask(FunctionCode.ReadHoldingRegisters, address, RegisterSpanFor(settings.format))>>>>]

\* Requests one after the other: reads, and writes of coils.
Requests(framing, asks) ==
    [framing |-> framing, settings |-> <<>>, text |-> <<>>,
     batches |-> [k \in 1 .. Len(asks) |-> <<asks[k]>>]]

\* The scale is positive, since rounding to it is modelled for positive ones.
IsTyped(j) ==
    /\ j = TypeValue(j.framing, j.batches[2][1].address, j.settings, j.text)
    /\ j.settings \in [format : IntegerFormats, byteOrder : ByteOrders, scale : Nat \ {0},
                       offset : Int, unit : STRING]
    /\ j.text.number \in Int

ASSUME TypedAssumption == \A j \in Jobs : j.text # <<>> => IsTyped(j)

-----------------------------------------------------------------------------
(* The device, which goes by the protocol and not by this program: it sees *)
(* nothing of a frame but its bytes, answers no frame that is no request   *)
(* to it, and makes the frames of its answers itself.                      *)

Registers == 0 .. 3
Coils     == 0 .. 9

\* A request of five bytes for this unit: over TCP behind a header with protocol 0
\* and the number of bytes that follow it, over RTU before a checksum, low byte first.
IsRequest(bytes) ==
    IF job.framing = "Tcp"
    THEN /\ Len(bytes) = 12
         /\ bytes[3] * 256 + bytes[4] = 0
         /\ bytes[5] * 256 + bytes[6] = 6
         /\ bytes[7] = UnitId
    ELSE /\ Len(bytes) = 8
         /\ bytes[1] = UnitId
         /\ LET crc == Crc16(SubSeq(bytes, 1, 6)) IN bytes[7] = crc % 256 /\ bytes[8] = crc \div 256

TidIn(bytes) == bytes[1] * 256 + bytes[2]

AskIn(bytes) ==
    LET first == IF job.framing = "Tcp" THEN 8 ELSE 2
    IN  Ask(bytes[first], bytes[first + 1] * 256 + bytes[first + 2],
            bytes[first + 3] * 256 + bytes[first + 4])

Knows(ask) ==
    LET last == IF ask.code \in ReadCodes THEN ask.address + ask.argument - 1 ELSE ask.address
    IN  {ask.address, last} \subseteq (IF ask.code \in {1, 2, 5} THEN Coils ELSE Registers)

Written(ask) ==
    IF ~Knows(ask) THEN memory
    ELSE CASE ask.code = 5 -> [memory EXCEPT !.coil[ask.address] = IF ask.argument = CoilOn THEN 1 ELSE 0]
           [] ask.code = 6 -> [memory EXCEPT !.register[ask.address] = ask.argument]
           [] OTHER -> memory

\* What the answer says; a device without the address says exception 2.
AnswerTo(ask) ==
    IF ~Knows(ask) THEN Exception(2)
    ELSE IF ask.code \in WriteCodes THEN Success(<<ask.address, ask.argument>>)
    ELSE Success([i \in 1 .. ask.argument |->
             IF ask.code \in {1, 2} THEN memory.coil[ask.address + i - 1]
             ELSE memory.register[ask.address + i - 1]])

BitAt(bits, i) == IF i <= Len(bits) THEN bits[i] ELSE 0

ByteOfBits(bits, i) ==
    BitAt(bits, i) + 2 * BitAt(bits, i + 1) + 4 * BitAt(bits, i + 2) + 8 * BitAt(bits, i + 3)
        + 16 * BitAt(bits, i + 4) + 32 * BitAt(bits, i + 5) + 64 * BitAt(bits, i + 6) + 128 * BitAt(bits, i + 7)

DataBytes(ask, values) ==
    IF ask.code \in {1, 2}
    THEN [j \in 1 .. (Len(values) + 7) \div 8 |-> ByteOfBits(values, 8 * j - 7)]
    ELSE [j \in 1 .. 2 * Len(values) |-> IF j % 2 = 1 THEN values[(j + 1) \div 2] \div 256
                                         ELSE values[j \div 2] % 256]

AnswerPdu(ask, answer) ==
    IF answer.status = "exception" THEN <<ask.code + 128>> \o answer.values
    ELSE LET data == DataBytes(ask, answer.values)
         IN  <<ask.code>> \o (IF ask.code \in ReadCodes THEN <<Len(data)>> ELSE <<>>) \o data

\* Its frame: over TCP with the transaction id of the request and a length that
\* counts the unit id, over RTU with the checksum of all that comes before it.
AnswerFrame(request, pdu) ==
    IF job.framing = "Tcp"
    THEN <<request[1], request[2], 0, 0, (1 + Len(pdu)) \div 256, (1 + Len(pdu)) % 256, request[7]>> \o pdu
    ELSE LET body == <<request[1]>> \o pdu
         IN  body \o <<Crc16(body) % 256, Crc16(body) \div 256>>

\* The line changes or loses a byte.
Damaged(bytes) ==
    {ReplaceAt(bytes, i, (bytes[i] + flip) % 256) : i \in DOMAIN bytes, flip \in Flips}
        \cup {RemoveAt(bytes, i) : i \in DOMAIN bytes}

-----------------------------------------------------------------------------
Init ==
    /\ job \in Jobs
    /\ todo = job.batches /\ sent = 0 /\ pending = <<>> /\ buffer = <<>>
    /\ consuming = FALSE /\ results = <<>> /\ log = <<>>
    /\ line = <<>> /\ wire = <<>> /\ damage = 0 /\ heard = <<>>
    /\ memory = [register |-> [a \in Registers |-> 4660 + 4 * a], coil |-> [a \in Coils |-> (a \div 2) % 2]]

\* frameFor()
Framed(tid, pdu) ==
    IF job.framing = "Tcp" THEN EncodeMbapFrame(tid, UnitId, pdu) ELSE EncodeRtuFrame(UnitId, pdu)

FrameFor(request) ==
    [tid |-> request.tid, meant |-> request.ask,
     bytes |-> Framed(request.tid, EncodeRequest(request.ask))]

\* sendRequest() for each request of the next batch.
SendRequests ==
    /\ todo # <<>> /\ pending = <<>> /\ ~consuming
    /\ LET batch == Head(todo)
       IN  /\ sent' = sent + Len(batch)
           /\ pending' = [k \in DOMAIN batch |-> [tid |-> sent + k, ask |-> batch[k], attempts |-> 1]]
           /\ line' = line \o [k \in DOMAIN batch |-> FrameFor(pending'[k])]
           /\ log' = AppendEntries(log, [k \in DOMAIN batch |-> Tx(sent + k)])
    /\ todo' = Tail(todo)
    /\ UNCHANGED <<job, buffer, consuming, results, memory, wire, damage, heard>>

MayDamage == job.framing = "Rtu" /\ damage < MaxDamage /\ Len(pending) = 1

AnswerRequest(frame) ==
    LET ask    == AskIn(frame.bytes)
        answer == AnswerTo(ask)
        bytes  == AnswerFrame(frame.bytes, AnswerPdu(ask, answer))
        Hear(came) == heard' = Append(heard, [tid |-> frame.tid, took |-> ask,
                                              answer |-> answer, came |-> came])
    IN  /\ memory' = Written(ask)
        /\ \/ wire' = wire \o bytes /\ Hear("intact") /\ UNCHANGED damage
           \/ /\ MayDamage
              /\ damage' = damage + 1
              /\ \E damaged \in Damaged(bytes) :
                    /\ wire' = wire \o damaged
                    /\ Hear(IF ExpectedRtuResponseLength(damaged) = Len(damaged) THEN "changed" ELSE "cut")

DeviceAnswers ==
    /\ line # <<>>
    /\ line' = Tail(line)
    /\ IF IsRequest(Head(line).bytes) THEN AnswerRequest(Head(line))
       ELSE UNCHANGED <<memory, wire, damage, heard>>
    /\ UNCHANGED <<job, hostVars>>

-----------------------------------------------------------------------------
(* The host.                                                               *)

\* handleDataReceived()
DataReceived(n) ==
    /\ ~consuming
    /\ wire' = SubSeq(wire, n + 1, Len(wire))
    /\ IF pending = <<>> THEN UNCHANGED <<buffer, consuming>>
       ELSE buffer' = buffer \o SubSeq(wire, 1, n) /\ consuming' = TRUE
    /\ UNCHANGED <<job, todo, sent, pending, results, log, line, memory, damage, heard>>

\* A frame of n bytes is taken from the buffer, and frameReceived() emitted.
Cut(n) ==
    /\ buffer' = SubSeq(buffer, n + 1, Len(buffer))
    /\ log' = AppendEntry(log, Rx(n))

\* completeRequest(); the controller decodes the answer to its last request.
CompleteRequest(k, pdu) ==
    LET request == pending[k]
    IN  /\ pending' = RemoveAt(pending, k)
        /\ results' = IF request.tid # sent THEN results
                      ELSE Append(results, [tid |-> request.tid, ask |-> request.ask,
                                            got |-> Decode(request.ask, pdu)])

\* One turn of consumeTcpFrames().
ConsumeTcpFrame ==
    /\ consuming /\ job.framing = "Tcp" /\ pending # <<>>
    /\ \E frame \in ToSet(DecodeMbapFrame(buffer)) :
           /\ Cut(frame.size)
           /\ \/ \E k \in DOMAIN pending : pending[k].tid = frame.tid /\ CompleteRequest(k, frame.pdu)
              \/ /\ \A k \in DOMAIN pending : pending[k].tid # frame.tid
                 /\ UNCHANGED <<pending, results>>
    /\ UNCHANGED <<job, todo, sent, consuming, deviceVars>>

HoldsRtuFrame ==
    LET length == ExpectedRtuResponseLength(buffer) IN length > 0 /\ Len(buffer) >= length

\* One turn of consumeRtuFrames().
ConsumeRtuFrame ==
    /\ consuming /\ job.framing = "Rtu" /\ pending # <<>>
    /\ HoldsRtuFrame
    /\ LET length == ExpectedRtuResponseLength(buffer)
           frame  == SubSeq(buffer, 1, length)
       IN  /\ Cut(length)
           /\ IF IsRtuFrame(frame) THEN CompleteRequest(1, PduOfRtuFrame(frame))
              ELSE UNCHANGED <<pending, results>>
    /\ UNCHANGED <<job, todo, sent, consuming, deviceVars>>

EndConsume ==
    /\ consuming
    /\ pending # <<>> => IF job.framing = "Tcp" THEN DecodeMbapFrame(buffer) = <<>> ELSE ~HoldsRtuFrame
    /\ consuming' = FALSE
    /\ UNCHANGED <<job, todo, sent, pending, buffer, results, log, deviceVars>>

\* Bug: the first transmission is counted as a retry.
RetriesOnceLess(request) == request.attempts < RetryCount

MayRetry(request) == request.attempts <= RetryCount

\* The members of a list that are in a set, in the order of the list.
Chosen(list, S) ==
    LET chosen[n \in 0 .. Len(list)] ==
            IF n = 0 THEN <<>>
            ELSE IF list[n] \in S THEN Append(chosen[n - 1], list[n]) ELSE chosen[n - 1]
    IN  chosen[Len(list)]

\* handleTimeout(), when no answer can come any more.
HandleTimeout ==
    /\ pending # <<>> /\ ~consuming /\ line = <<>> /\ wire = <<>>
    /\ LET again     == Chosen(pending, {request \in ToSet(pending) : MayRetry(request)})
           exhausted == Chosen(pending, {request \in ToSet(pending) : ~MayRetry(request)})
       IN  /\ pending' = [k \in DOMAIN again |-> [again[k] EXCEPT !.attempts = @ + 1]]
           /\ line' = Reverse([k \in DOMAIN again |-> FrameFor(again[k])])
           /\ log' = AppendEntries(log, Reverse([k \in DOMAIN again |-> Tx(again[k].tid)])
                                           \o [k \in DOMAIN exhausted |-> TimeoutLine])
           /\ results' = results \o
                 [k \in DOMAIN Chosen(exhausted, {request \in ToSet(exhausted) : request.tid = sent}) |->
                     [tid |-> sent, ask |-> exhausted[Len(exhausted)].ask, got |-> [status |-> "failed", values |-> <<>>]]]
    /\ UNCHANGED <<job, todo, sent, buffer, consuming, memory, wire, damage, heard>>

\* "Clear" on the log panel: clear().
ClearLog ==
    /\ log # <<>>
    /\ log' = <<>>
    /\ UNCHANGED <<job, todo, sent, pending, buffer, consuming, results, deviceVars>>

Next ==
    \/ SendRequests
    \/ DeviceAnswers
    \/ \E n \in DOMAIN wire : DataReceived(n)
    \/ ConsumeTcpFrame
    \/ ConsumeRtuFrame
    \/ EndConsume
    \/ HandleTimeout
    \/ ClearLog

Spec == Init /\ [][Next]_vars

-----------------------------------------------------------------------------
(* Properties.                                                             *)

\* Every frame the program sends, retransmissions included, is by the protocol a
\* request to its device - protocol and length of the header, unit id, checksum -,
\* and one for what the caller asked, under the transaction id by which the answer
\* will be looked up (encodeReadRequest(), encodeWriteSingle...Request(),
\* encodeMbapFrame(), encodeRtuFrame()).  A job is too short for the 16-bit
\* transaction id to wrap.
RequestsAreUnderstood ==
    \A i \in DOMAIN line :
        LET bytes == line[i].bytes
        IN  /\ IsRequest(bytes)
            /\ AskIn(bytes) = line[i].meant
            /\ job.framing = "Tcp" => TidIn(bytes) = line[i].tid

\* What the controller decodes is what the device answered to that request,
\* in whatever pieces it arrived and whichever byte the line changed or lost
\* (consumeRtuFrames(), decodeRtuFrame(), decode...Response()).
ResultsAreTrue ==
    \A i \in DOMAIN results : results[i].got.status # "failed" =>
        \E j \in DOMAIN heard : heard[j].tid = results[i].tid /\ heard[j].answer = results[i].got

\* On a line that does no damage no byte of an answer is left over and no
\* request is left waiting once everything has been read: frames are cut
\* where they end (decodeMbapFrame(), expectedRtuResponseLength()).
FramesAreCut ==
    damage = 0 /\ line = <<>> /\ wire = <<>> /\ ~consuming => pending = <<>> /\ buffer = <<>>

\* A request is reported failed only when the answer to each of its RetryCount + 1
\* transmissions came changed, unless an answer came that does not end where its
\* byte count says: a transient fault costs a retry and not the request
\* (handleTimeout(), consumeRtuFrames()).  The code does not keep this once a byte
\* was lost: the rest of that answer stays in front of the next.
TransientFaultsAreRetried ==
    \A i \in DOMAIN results : results[i].got.status = "failed" =>
        \/ \E j \in DOMAIN heard : heard[j].came = "cut"
        \/ Cardinality({j \in DOMAIN heard :
               heard[j].tid = results[i].tid /\ heard[j].came = "changed"}) = RetryCount + 1

\* The log panel shows the last frames sent, retransmissions included and each one
\* once, in the order in which the device is given them (append(), frameSent()).
LogIsTheTail ==
    LET given == [i \in DOMAIN heard |-> heard[i].tid] \o [i \in DOMAIN line |-> line[i].tid]
        shown == Chosen(log, TxLines)
    IN  /\ Len(log) <= MaxEntries
        /\ IsSuffix([i \in DOMAIN shown |-> shown[i].summary], given)

\* The number typed, in steps of the row, has the width of its format.
Fits(settings, text) ==
    LET n == RoundedQuotient(text.number - settings.offset, settings.scale)
    IN  CASE settings.format = "SignedDecimal"   -> -32768 <= n /\ n <= 32767
          [] settings.format = "UnsignedDecimal" -> n \in Register
          [] settings.format = "Int32Signed"     -> -32768 <= n \div 65536 /\ n \div 65536 <= 32767
          [] settings.format = "Int32Unsigned"   -> n \div 65536 \in Register
          [] OTHER -> text.number \in Register

\* Half a step of the row's scale and, where six digits are shown, half of the last.
IsNearest(settings, n, m) ==
    LET distance == IF n < m THEN m - n ELSE n - m
    IN  distance <= (settings.scale + (IF IsDefaultScaling(settings) THEN 0 ELSE LastDigit(n))) \div 2

\* A value typed into a row, written and read back is shown as it was typed, up
\* to the row's resolution, in every format but Float32 and every byte order and
\* scaling (parseValue(), setValueAt(), formatValue()).
TypedIsShown ==
    /\ job.text # <<>> /\ Len(results) = 2
    /\ \A i \in DOMAIN results : results[i].got.status = "ok"
    /\ Fits(job.settings, job.text)
    => LET shown == FormatValue(job.settings, results[2].got.values)
       IN  IF job.settings.format \in PlainFormats THEN shown.number = job.text.number
           ELSE IsNearest(job.settings, shown.number, job.text.number)
=============================================================================

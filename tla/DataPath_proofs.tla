---------------------------- MODULE DataPath_proofs ----------------------------
(***************************************************************************)
(* For all jobs, retry counts and log sizes, and whatever computes the     *)
(* checksum: the device understands the requests, the log panel shows the  *)
(* last frames sent, and on a line that does no damage answers are cut     *)
(* from the buffer where they end and decoded to what the device said.     *)
(* Whatever the line changes, a request is reported failed only when its   *)
(* answer came changed each time it was sent.                              *)
(* For all values, formats but Float32, byte orders and scalings: a value  *)
(* typed into a row, written and read again is shown as it was typed.      *)
(***************************************************************************)
EXTENDS DataPath, ListLemmas

-----------------------------------------------------------------------------
(* Lists, whatever they hold.                                              *)

IsList(s) == s \in Seq(Range(s))

\* A sequence over any set is a list of its own members.
LEMMA AList ==
    ASSUME NEW T, NEW s \in Seq(T)
    PROVE  IsList(s)
  BY SeqOfRange DEF IsList

\* A list is a function on the numbers up to its length.
LEMMA ListIsFunction ==
    ASSUME NEW s, IsList(s)
    PROVE  Len(s) \in Nat /\ DOMAIN s = 1 .. Len(s) /\ s = [i \in 1 .. Len(s) |-> s[i]]
  BY DEF IsList

\* And such a function is a list.
LEMMA FunctionIsList ==
    ASSUME NEW n \in Nat, NEW f, f = [i \in 1 .. n |-> f[i]]
    PROVE  IsList(f) /\ Len(f) = n /\ DOMAIN f = 1 .. n
<1>1. f \in [1 .. n -> {f[i] : i \in 1 .. n}]
  OBVIOUS
<1>2. f \in Seq({f[i] : i \in 1 .. n}) /\ Len(f) = n
  BY <1>1
<1>. QED  BY <1>1, <1>2, AList

\* Lists of the same length with the same members are the same.
LEMMA SameList ==
    ASSUME NEW s, IsList(s), NEW t, IsList(t), Len(s) = Len(t),
           \A i \in 1 .. Len(s) : s[i] = t[i]
    PROVE  s = t
  BY ListIsFunction

\* The empty list is one.
LEMMA Empty == IsList(<<>>) /\ Len(<<>>) = 0
<1>1. <<>> \in Seq({})
  OBVIOUS
<1>. QED  BY <1>1, AList

\* Only the empty list has length zero.
LEMMA EmptyList ==
    ASSUME NEW s, IsList(s)
    PROVE  Len(s) = 0 <=> s = <<>>
  BY DEF IsList

\* The list c holds a and then b.
IsJoined(c, a, b) ==
    /\ IsList(c) /\ Len(c) = Len(a) + Len(b)
    /\ Len(a) \in Nat /\ Len(b) \in Nat
    /\ \A i \in 1 .. Len(a) : c[i] = a[i]
    /\ \A i \in 1 .. Len(b) : c[Len(a) + i] = b[i]

\* What o makes of two lists.
LEMMA Joined ==
    ASSUME NEW a, IsList(a), NEW b, IsList(b)
    PROVE  IsJoined(a \o b, a, b)
<1>. DEFINE T == Range(a) \cup Range(b)
<1>1. a \in Seq(Range(a)) /\ b \in Seq(Range(b)) /\ Range(a) \subseteq T /\ Range(b) \subseteq T
  BY DEF IsList
<1>2. a \in Seq(T) /\ b \in Seq(T)
  <2>. HIDE DEF T
  <2>. QED  BY <1>1, SeqMonotonic
<1>. HIDE DEF T
<1>3. a \o b \in Seq(T)
  BY <1>2
<1>4. IsList(a \o b)
  BY <1>3, AList
<1>5. \A i \in 1 .. Len(a) : (a \o b)[i] = a[i]
  BY <1>2
<1>6. \A i \in 1 .. Len(b) : (a \o b)[Len(a) + i] = b[i]
  BY <1>2
<1>7. Len(a \o b) = Len(a) + Len(b) /\ Len(a) \in Nat /\ Len(b) \in Nat
  BY <1>2
<1>. QED  BY <1>4, <1>5, <1>6, <1>7, Zenon DEF IsJoined

\* What Append() makes of a list.
LEMMA Appended ==
    ASSUME NEW s, IsList(s), NEW x
    PROVE  /\ IsList(Append(s, x)) /\ Len(Append(s, x)) = Len(s) + 1
           /\ Append(s, x)[Len(s) + 1] = x
           /\ \A i \in 1 .. Len(s) : Append(s, x)[i] = s[i]
<1>. DEFINE T == Range(s) \cup {x}
<1>1. s \in Seq(Range(s)) /\ Range(s) \subseteq T /\ x \in T
  BY DEF IsList
<1>2. s \in Seq(T) /\ x \in T
  <2>. HIDE DEF T
  <2>. QED  BY <1>1, SeqMonotonic
<1>. HIDE DEF T
<1>3. Append(s, x) \in Seq(T)
  BY <1>2
<1>4. IsList(Append(s, x))
  BY <1>3, AList
<1>5. Len(Append(s, x)) = Len(s) + 1 /\ Append(s, x)[Len(s) + 1] = x
  BY <1>2
<1>6. \A i \in 1 .. Len(s) : Append(s, x)[i] = s[i]
  BY <1>2
<1>. QED  BY <1>4, <1>5, <1>6

\* What SubSeq() makes of a list.
LEMMA Part ==
    ASSUME NEW s, IsList(s), NEW first \in Nat \ {0}, NEW last \in Nat, last <= Len(s)
    PROVE  LET part == SubSeq(s, first, last)
           IN  /\ IsList(part) /\ Len(part) = IF first <= last THEN (last - first) + 1 ELSE 0
               /\ \A i \in 1 .. Len(part) : part[i] = s[(first - 1) + i]
<1>. DEFINE part == SubSeq(s, first, last)
<1>1. s \in Seq(Range(s)) /\ Len(s) \in Nat
  BY DEF IsList
<1>2. CASE first <= last
  <2>1. part \in Seq(Range(s)) /\ Len(part) = (last - first) + 1
    BY <1>1, <1>2
  <2>2. \A i \in 1 .. Len(part) : part[i] = s[(first - 1) + i]
    BY <1>1, <1>2, <2>1
  <2>. QED  BY <1>2, <2>1, <2>2, AList
<1>3. CASE ~(first <= last)
  <2>1. part = <<>>
    BY <1>1, <1>3
  <2>. QED  BY <1>3, <2>1, Empty
<1>. QED  BY <1>2, <1>3

\* What Tail() makes of a list.
LEMMA Beheaded ==
    ASSUME NEW s, IsList(s), s # <<>>
    PROVE  /\ IsList(Tail(s)) /\ Len(Tail(s)) = Len(s) - 1 /\ Len(s) \in Nat \ {0}
           /\ Head(s) = s[1]
           /\ \A i \in 1 .. Len(s) - 1 : Tail(s)[i] = s[i + 1]
<1>1. s \in Seq(Range(s)) /\ s # <<>> /\ Len(s) \in Nat
  BY DEF IsList
<1>2. Tail(s) \in Seq(Range(s))
  BY <1>1
<1>3. IsList(Tail(s))
  BY <1>2, AList
<1>4. /\ Len(Tail(s)) = Len(s) - 1 /\ Len(s) \in Nat \ {0} /\ Head(s) = s[1]
      /\ \A i \in 1 .. Len(s) - 1 : Tail(s)[i] = s[i + 1]
  BY <1>1
<1>. QED  BY <1>3, <1>4

\* What Reverse() makes of a list.
LEMMA Reversed ==
    ASSUME NEW s, IsList(s)
    PROVE  /\ IsList(Reverse(s)) /\ Len(Reverse(s)) = Len(s)
           /\ \A i \in 1 .. Len(s) : Reverse(s)[i] = s[(Len(s) - i) + 1]
<1>1. Len(s) \in Nat
  BY ListIsFunction
<1>. QED  BY <1>1, FunctionIsList DEF Reverse

\* A list of one member.
LEMMA OneMember == ASSUME NEW x PROVE IsList(<<x>>) /\ Len(<<x>>) = 1 /\ <<x>>[1] = x
<1>1. <<x>> \in Seq({x})
  OBVIOUS
<1>. QED  BY <1>1, AList

\* A list of two members.
LEMMA TwoMembers == ASSUME NEW x, NEW y PROVE IsList(<<x, y>>) /\ Len(<<x, y>>) = 2 /\ <<x, y>>[1] = x /\ <<x, y>>[2] = y
<1>1. <<x, y>> \in Seq({x, y})
  OBVIOUS
<1>. QED  BY <1>1, AList

\* What stands where in an RTU frame.
LEMMA RtuFrameParts ==
    ASSUME NEW unit, NEW pdu, IsList(pdu)
    PROVE  LET frame == EncodeRtuFrame(unit, pdu)
           IN  /\ IsList(frame) /\ Len(frame) = Len(pdu) + 3 /\ Len(pdu) \in Nat
               /\ frame[1] = unit /\ \A i \in 1 .. Len(pdu) : frame[1 + i] = pdu[i]
               /\ IsRtuFrame(frame)
<1>. DEFINE body  == <<unit>> \o pdu
            crc   == Reverse(BigEndianU16(Crc16(body)))
            frame == body \o crc
<1>1. /\ IsList(body) /\ Len(body) = Len(pdu) + 1 /\ Len(pdu) \in Nat
      /\ body[1] = unit /\ \A i \in 1 .. Len(pdu) : body[1 + i] = pdu[i]
  <2>. DEFINE front == <<unit>>
  <2>1. IsList(front) /\ Len(front) = 1 /\ front[1] = unit
    BY OneMember
  <2>. HIDE DEF front
  <2>2. IsJoined(front \o pdu, front, pdu)
    BY <2>1, Joined, Zenon
  <2>3. body = front \o pdu
    BY DEF front
  <2>. HIDE DEF body
  <2>. QED  BY <2>1, <2>2, <2>3 DEF IsJoined
<1>2. frame = EncodeRtuFrame(unit, pdu)
  BY DEF EncodeRtuFrame
<1>. HIDE DEF body
<1>3. IsList(crc) /\ Len(crc) = 2
  <2>. DEFINE n == Crc16(body)
  <2>1. IsList(BigEndianU16(n)) /\ Len(BigEndianU16(n)) = 2
    BY TwoMembers DEF BigEndianU16
  <2>. HIDE DEF n
  <2>2. IsList(Reverse(BigEndianU16(n))) /\ Len(Reverse(BigEndianU16(n))) = 2
    BY <2>1, Reversed
  <2>. QED  BY <2>2 DEF n
<1>. HIDE DEF crc
<1>4. /\ IsList(frame) /\ Len(frame) = Len(body) + Len(crc)
      /\ \A i \in 1 .. Len(body) : frame[i] = body[i]
      /\ \A i \in 1 .. Len(crc) : frame[Len(body) + i] = crc[i]
  <2>1. IsJoined(frame, body, crc)
    BY <1>1, <1>3, Joined, Zenon
  <2>. QED  BY <2>1, Zenon DEF IsJoined
<1>. HIDE DEF frame
<1>5. Len(frame) = Len(pdu) + 3
  BY <1>1, <1>3, <1>4
<1>6. frame[1] = unit /\ \A i \in 1 .. Len(pdu) : frame[1 + i] = pdu[i]
  BY <1>1, <1>4
<1>. DEFINE front == SubSeq(frame, 1, Len(frame) - 2)
            rear  == SubSeq(frame, Len(frame) - 1, Len(frame))
<1>7. front = body
  <2>1. Len(frame) - 2 = Len(body) /\ Len(body) \in Nat /\ 1 <= Len(body) /\ Len(body) <= Len(frame)
    BY <1>1, <1>5
  <2>2. 1 \in Nat \ {0}
    OBVIOUS
  <2>. DEFINE l == Len(frame) - 2
  <2>3. l \in Nat /\ l <= Len(frame) /\ 1 <= l
    BY <2>1
  <2>. HIDE DEF l
  <2>4. /\ IsList(SubSeq(frame, 1, l)) /\ Len(SubSeq(frame, 1, l)) = (l - 1) + 1
        /\ \A i \in 1 .. Len(SubSeq(frame, 1, l)) : SubSeq(frame, 1, l)[i] = frame[(1 - 1) + i]
    BY <1>4, <2>2, <2>3, Part
  <2>5. IsList(front) /\ Len(front) = Len(body) /\ \A i \in 1 .. Len(body) : front[i] = frame[i]
    BY <2>1, <2>4 DEF l
  <2>. HIDE DEF front
  <2>. QED  BY <1>1, <1>4, <2>5, SameList
<1>8. rear = crc
  <2>. DEFINE k == Len(frame) - 1  l == Len(frame)
  <2>1. l \in Nat /\ k \in Nat \ {0} /\ l <= Len(frame) /\ k <= l /\ (l - k) + 1 = 2 /\ k - 1 = Len(body)
    BY <1>1, <1>5
  <2>2. rear = SubSeq(frame, k, l)
    OBVIOUS
  <2>. HIDE DEF k, l, rear
  <2>3. /\ IsList(SubSeq(frame, k, l)) /\ Len(SubSeq(frame, k, l)) = (l - k) + 1
        /\ \A i \in 1 .. Len(SubSeq(frame, k, l)) : SubSeq(frame, k, l)[i] = frame[(k - 1) + i]
    BY <1>4, <2>1, Part
  <2>4. IsList(rear) /\ Len(rear) = 2 /\ \A i \in 1 .. 2 : rear[i] = frame[Len(body) + i]
    BY <2>1, <2>2, <2>3
  <2>. QED  BY <1>3, <1>4, <2>4, SameList
<1>9. IsRtuFrame(frame)
  <2>1. Len(frame) >= 3
    BY <1>1, <1>5
  <2>2. rear = Reverse(BigEndianU16(Crc16(front)))
    BY <1>7, <1>8 DEF crc
  <2>. QED  BY <2>1, <2>2 DEF IsRtuFrame
<1>. QED  BY <1>1, <1>2, <1>4, <1>5, <1>6, <1>9

\* What stands where in a Modbus TCP frame.
LEMMA MbapFrameParts ==
    ASSUME NEW tid \in Nat, NEW unit, NEW pdu, IsList(pdu)
    PROVE  LET frame == EncodeMbapFrame(tid, unit, pdu)
           IN  /\ IsList(frame) /\ Len(frame) = Len(pdu) + 7 /\ Len(pdu) \in Nat
               /\ ReadBigEndianU16(frame, 1) = tid
               /\ ReadBigEndianU16(frame, 3) = 0
               /\ ReadBigEndianU16(frame, 5) = 1 + Len(pdu)
               /\ frame[1] = tid \div 256 /\ frame[2] = tid % 256 /\ frame[3] = 0 /\ frame[4] = 0
               /\ frame[5] = (1 + Len(pdu)) \div 256 /\ frame[6] = (1 + Len(pdu)) % 256 /\ frame[7] = unit
               /\ \A i \in 1 .. Len(pdu) : frame[7 + i] = pdu[i]
<1>. DEFINE a == tid \div 256  b == tid % 256  c == (1 + Len(pdu)) \div 256  d == (1 + Len(pdu)) % 256
<1>1. Len(pdu) \in Nat
  BY ListIsFunction
<1>2. BigEndianU16(tid) = <<a, b>> /\ BigEndianU16(1 + Len(pdu)) = <<c, d>>
  BY Zenon DEF BigEndianU16
<1>3. BigEndianU16(0) = <<0, 0>>
  BY SMT DEF BigEndianU16
<1>. HIDE DEF a, b, c, d
<1>. DEFINE ab == <<a, b>>  cd == <<c, d>>  zeros == <<0, 0>>  last == <<unit>>
            four == ab \o zeros
            six == four \o cd
            head == six \o last
            frame == head \o pdu
<1>4. EncodeMbapFrame(tid, unit, pdu) = frame
  BY <1>2, <1>3 DEF EncodeMbapFrame
<1>5. /\ IsList(ab) /\ Len(ab) = 2 /\ ab[1] = a /\ ab[2] = b
      /\ IsList(cd) /\ Len(cd) = 2 /\ cd[1] = c /\ cd[2] = d
      /\ IsList(zeros) /\ Len(zeros) = 2 /\ zeros[1] = 0 /\ zeros[2] = 0
      /\ IsList(last) /\ Len(last) = 1 /\ last[1] = unit
  BY OneMember, TwoMembers
<1>. HIDE DEF ab, cd, zeros, last
<1>6. /\ IsList(four) /\ Len(four) = 4
      /\ four[1] = a /\ four[2] = b /\ four[3] = 0 /\ four[4] = 0
  <2>1. IsJoined(four, ab, zeros)
    BY <1>5, Joined, Zenon
  <2>. HIDE DEF four
  <2>2. four[2 + 1] = 0 /\ four[2 + 2] = 0
    BY <1>5, <2>1 DEF IsJoined
  <2>. QED  BY <1>5, <2>1, <2>2 DEF IsJoined
<1>. HIDE DEF four
<1>7. /\ IsList(six) /\ Len(six) = 6 /\ \A i \in 1 .. 4 : six[i] = four[i]
      /\ six[5] = c /\ six[6] = d
  <2>1. IsJoined(six, four, cd)
    BY <1>5, <1>6, Joined, Zenon
  <2>. HIDE DEF six
  <2>2. six[4 + 1] = c /\ six[4 + 2] = d
    BY <1>5, <1>6, <2>1 DEF IsJoined
  <2>. QED  BY <1>5, <1>6, <2>1, <2>2 DEF IsJoined
<1>. HIDE DEF six
<1>8. IsList(head) /\ Len(head) = 7 /\ (\A i \in 1 .. 6 : head[i] = six[i]) /\ head[7] = unit
  <2>1. IsJoined(head, six, last)
    BY <1>5, <1>7, Joined, Zenon
  <2>. HIDE DEF head
  <2>2. head[6 + 1] = unit
    BY <1>5, <1>7, <2>1 DEF IsJoined
  <2>. QED  BY <1>5, <1>7, <2>1, <2>2 DEF IsJoined
<1>. HIDE DEF head
<1>9. /\ IsList(frame) /\ Len(frame) = 7 + Len(pdu)
      /\ \A i \in 1 .. 7 : frame[i] = head[i]
      /\ \A i \in 1 .. Len(pdu) : frame[7 + i] = pdu[i]
  <2>1. IsJoined(frame, head, pdu)
    BY <1>8, Joined, Zenon
  <2>. HIDE DEF frame
  <2>. QED  BY <1>8, <2>1 DEF IsJoined
<1>. HIDE DEF frame
<1>10. \A n \in Nat : (n \div 256) * 256 + (n % 256) = n
  BY SMTT(30)
<1>11. ReadBigEndianU16(frame, 1) = tid
  <2>1. ReadBigEndianU16(frame, 1) = a * 256 + b
    BY <1>6, <1>7, <1>8, <1>9 DEF ReadBigEndianU16
  <2>. QED  BY <1>10, <2>1 DEF a, b
<1>12. ReadBigEndianU16(frame, 3) = 0
  BY <1>6, <1>7, <1>8, <1>9 DEF ReadBigEndianU16
<1>13. ReadBigEndianU16(frame, 5) = 1 + Len(pdu)
  <2>1. ReadBigEndianU16(frame, 5) = c * 256 + d
    BY <1>7, <1>8, <1>9 DEF ReadBigEndianU16
  <2>. QED  BY <1>1, <1>10, <2>1 DEF c, d
<1>14. Len(frame) = Len(pdu) + 7
  BY <1>1, <1>9
<1>15. /\ frame[1] = a /\ frame[2] = b /\ frame[3] = 0 /\ frame[4] = 0
       /\ frame[5] = c /\ frame[6] = d /\ frame[7] = unit
  BY <1>6, <1>7, <1>8, <1>9
<1>. QED  BY <1>1, <1>4, <1>9, <1>11, <1>12, <1>13, <1>14, <1>15 DEF a, b, c, d

\* A checksum, low byte first.
LEMMA CrcBytes == ASSUME NEW crc PROVE Reverse(BigEndianU16(crc)) = <<crc % 256, crc \div 256>>
<1>. DEFINE h == crc \div 256  l == crc % 256
<1>. HIDE DEF h, l
<1>1. /\ IsList(<<h, l>>) /\ Len(<<h, l>>) = 2 /\ <<h, l>>[1] = h /\ <<h, l>>[2] = l
      /\ IsList(<<l, h>>) /\ Len(<<l, h>>) = 2 /\ <<l, h>>[1] = l /\ <<l, h>>[2] = h
  BY TwoMembers
<1>. DEFINE hl == <<h, l>>  lh == <<l, h>>
<1>2. /\ IsList(hl) /\ Len(hl) = 2 /\ hl[1] = h /\ hl[2] = l
      /\ IsList(lh) /\ Len(lh) = 2 /\ lh[1] = l /\ lh[2] = h
  BY <1>1
<1>. HIDE DEF hl, lh
<1>3. IsList(Reverse(hl)) /\ Len(Reverse(hl)) = 2 /\ Reverse(hl)[1] = l /\ Reverse(hl)[2] = h
  <2>1. IsList(Reverse(hl)) /\ Len(Reverse(hl)) = 2 /\ \A i \in 1 .. 2 : Reverse(hl)[i] = hl[(2 - i) + 1]
    BY <1>2, Reversed
  <2>2. Reverse(hl)[1] = hl[2] /\ Reverse(hl)[2] = hl[1]
    BY <2>1
  <2>. QED  BY <1>2, <2>1, <2>2
<1>4. Reverse(hl) = lh
  <2>1. \A i \in 1 .. Len(lh) : Reverse(hl)[i] = lh[i]
    <3>1. \A i \in 1 .. 2 : i = 1 \/ i = 2
      OBVIOUS
    <3>. QED  BY <1>2, <1>3, <3>1
  <2>. QED  BY <1>2, <1>3, <2>1, SameList
<1>5. BigEndianU16(crc) = hl
  BY DEF BigEndianU16, hl, h, l
<1>. QED  BY <1>4, <1>5 DEF lh, l, h

-----------------------------------------------------------------------------
(* The members of a list that are in a set.                                *)

ChosenSteps(f, list, S) ==
    /\ f[0] = <<>>
    /\ \A k \in 1 .. Len(list) : f[k] = IF list[k] \in S THEN Append(f[k - 1], list[k]) ELSE f[k - 1]

\* What is chosen is found in steps, one for each member.
LEMMA ChosenGoesOn ==
    ASSUME NEW T, NEW list \in Seq(T), NEW S
    PROVE  \E f \in [0 .. Len(list) -> Seq(T)] : ChosenSteps(f, list, S) /\ Chosen(list, S) = f[Len(list)]
<1>. DEFINE n == Len(list)
            D == Seq(T)
            After(before, k) == IF list[k] \in S THEN Append(before, list[k]) ELSE before
            Follow(g) == g = [k \in 0 .. n |-> IF k = 0 THEN <<>> ELSE After(g[k - 1], k)]
            step == [p \in D \X (1 .. n) |-> After(p[1], p[2])]
            none == <<>>
<1>1. n \in Nat /\ none \in D /\ \A k \in 1 .. n : list[k] \in T
  OBVIOUS
<1>2. ASSUME NEW s \in D, NEW k \in 1 .. n PROVE After(s, k) \in D
  <2>1. list[k] \in T
    BY <1>1
  <2>. QED  BY <2>1
<1>3. step \in [D \X (1 .. n) -> D] /\ \A s \in D, k \in 1 .. n : step[<<s, k>>] = After(s, k)
  <2>. HIDE DEF D, n, After
  <2>. QED  BY <1>2
<1>. HIDE DEF D, n, step, none
<1>4. PICK f \in [0 .. n -> D] : Steps(f, none, step, n)
  BY <1>1, <1>3, Repeated
<1>5. f[0] = none /\ \A k \in 1 .. n : f[k] = After(f[k - 1], k)
  <2>1. ASSUME NEW k \in 1 .. n PROVE f[k] = After(f[k - 1], k)
    <3>1. k - 1 \in 0 .. n
      BY <1>1
    <3>2. f[k - 1] \in D /\ f[k] = step[<<f[k - 1], k>>]
      BY <1>4, <3>1 DEF Steps
    <3>. HIDE DEF After
    <3>. QED  BY <1>3, <3>2
  <2>. QED  BY <1>4, <2>1 DEF Steps
<1>6. Follow(f)
  <2>. HIDE DEF After
  <2>. QED  BY <1>1, <1>5 DEF none
<1>7. \E g : Follow(g)
  <2>. HIDE DEF Follow
  <2>. QED  BY <1>6
<1>. DEFINE chosen == CHOOSE g : Follow(g)
<1>8. Follow(chosen)
  <2>. HIDE DEF Follow
  <2>. QED  BY <1>7, Zenon
<1>9. Chosen(list, S) = chosen[n]
  BY Zenon DEF Chosen, n
<1>. HIDE DEF chosen
<1>10. \A k \in 0 .. n : chosen[k] = IF k = 0 THEN <<>> ELSE After(chosen[k - 1], k)
  BY <1>8, Zenon
<1>11. chosen[0] = none /\ \A k \in 1 .. n : chosen[k] = After(chosen[k - 1], k)
  <2>. HIDE DEF After
  <2>. QED  BY <1>1, <1>10 DEF none
<1>. DEFINE M == {k \in Nat : k <= n => chosen[k] = f[k]}
<1>12. 0 \in M
  BY <1>5, <1>11
<1>13. ASSUME NEW k \in M PROVE k + 1 \in M
  <2>1. ASSUME k + 1 <= n PROVE chosen[k + 1] = f[k + 1]
    <3>1. k + 1 \in 1 .. n /\ (k + 1) - 1 = k /\ k <= n
      BY <1>1, <2>1
    <3>. HIDE DEF After
    <3>2. chosen[k] = f[k]
      BY <3>1
    <3>. QED  BY <1>5, <1>11, <3>1, <3>2
  <2>. QED  BY <2>1
<1>14. n \in M
  <2>1. M \in SUBSET Nat
    OBVIOUS
  <2>. HIDE DEF M
  <2>. QED  BY <1>1, <1>12, <1>13, <2>1, Upwards
<1>15. Chosen(list, S) = f[n]
  BY <1>1, <1>9, <1>14
<1>. QED  BY <1>4, <1>5, <1>15 DEF ChosenSteps, n, D, none

\* What is chosen from a list is a list over the same set.
LEMMA ChosenIsList ==
    ASSUME NEW T, NEW list \in Seq(T), NEW S
    PROVE  Chosen(list, S) \in Seq(T)
<1>1. Len(list) \in 0 .. Len(list)
  OBVIOUS
<1>. QED  BY <1>1, ChosenGoesOn

\* Nothing is chosen from nothing.
LEMMA NoneChosen == ASSUME NEW S PROVE Chosen(<<>>, S) = <<>>
<1>. DEFINE none == <<>>
<1>1. none \in Seq({}) /\ Len(none) = 0
  OBVIOUS
<1>. HIDE DEF none
<1>2. PICK f \in [0 .. Len(none) -> Seq({})] : ChosenSteps(f, none, S) /\ Chosen(none, S) = f[Len(none)]
  BY <1>1, ChosenGoesOn
<1>. QED  BY <1>1, <1>2 DEF ChosenSteps, none

\* The steps determine what is chosen.
LEMMA StepsDetermine ==
    ASSUME NEW list, Len(list) \in Nat, NEW S, NEW f, NEW g, ChosenSteps(f, list, S), ChosenSteps(g, list, S)
    PROVE  \A k \in 0 .. Len(list) : f[k] = g[k]
<1>. DEFINE n == Len(list)
            After(before, k) == IF list[k] \in S THEN Append(before, list[k]) ELSE before
            M == {k \in Nat : k <= n => f[k] = g[k]}
<1>1. n \in Nat /\ f[0] = g[0] /\ \A k \in 1 .. n : f[k] = After(f[k - 1], k) /\ g[k] = After(g[k - 1], k)
  BY DEF ChosenSteps
<1>. HIDE DEF n, After
<1>2. 0 \in M
  BY <1>1
<1>3. ASSUME NEW k \in M PROVE k + 1 \in M
  <2>1. ASSUME k + 1 <= n PROVE f[k + 1] = g[k + 1]
    <3>1. k + 1 \in 1 .. n /\ (k + 1) - 1 = k /\ f[k] = g[k]
      BY <1>1, <2>1
    <3>. QED  BY <1>1, <3>1
  <2>. QED  BY <2>1
<1>4. M = Nat
  <2>1. M \in SUBSET Nat
    OBVIOUS
  <2>. HIDE DEF M
  <2>. QED  BY <1>2, <1>3, <2>1, Upwards
<1>. QED  BY <1>1, <1>4 DEF n

\* A member added at the end is chosen last.
LEMMA ChosenAppended ==
    ASSUME NEW list, IsList(list), NEW x, NEW S
    PROVE  Chosen(Append(list, x), S) = IF x \in S THEN Append(Chosen(list, S), x) ELSE Chosen(list, S)
<1>. DEFINE more == Append(list, x)  n == Len(list)
<1>1. IsList(more) /\ Len(more) = n + 1 /\ more[n + 1] = x /\ n \in Nat /\ \A k \in 1 .. n : more[k] = list[k]
  BY Appended, ListIsFunction
<1>. HIDE DEF more
<1>2. PICK f \in [0 .. Len(more) -> Seq(Range(more))] :
          ChosenSteps(f, more, S) /\ Chosen(more, S) = f[Len(more)]
  BY <1>1, ChosenGoesOn DEF IsList
<1>3. PICK g \in [0 .. Len(list) -> Seq(Range(list))] :
          ChosenSteps(g, list, S) /\ Chosen(list, S) = g[Len(list)]
  BY ChosenGoesOn DEF IsList
<1>4. ChosenSteps(f, list, S)
  <2>1. ASSUME NEW k \in 1 .. n
        PROVE  f[k] = IF list[k] \in S THEN Append(f[k - 1], list[k]) ELSE f[k - 1]
    <3>1. k \in 1 .. Len(more)
      BY <1>1
    <3>. QED  BY <1>1, <1>2, <3>1 DEF ChosenSteps
  <2>. QED  BY <1>2, <2>1 DEF ChosenSteps
<1>5. f[n] = g[n]
  BY <1>1, <1>3, <1>4, StepsDetermine
<1>6. f[n + 1] = IF x \in S THEN Append(f[n], x) ELSE f[n]
  <2>1. n + 1 \in 1 .. Len(more) /\ (n + 1) - 1 = n
    BY <1>1
  <2>2. f[n + 1] = IF more[n + 1] \in S THEN Append(f[(n + 1) - 1], more[n + 1]) ELSE f[(n + 1) - 1]
    BY <1>2, <2>1, Zenon DEF ChosenSteps
  <2>. QED  BY <1>1, <2>1, <2>2
<1>. QED  BY <1>1, <1>2, <1>3, <1>5, <1>6 DEF more

\* Without its first member a list loses what was chosen first, if that was it.
LEMMA ChosenBeheaded ==
    ASSUME NEW list, IsList(list), list # <<>>, NEW S
    PROVE  /\ list[1] \in S => Chosen(list, S) # <<>>
           /\ Chosen(Tail(list), S) = IF list[1] \in S THEN Tail(Chosen(list, S)) ELSE Chosen(list, S)
<1>. DEFINE less == Tail(list)  n == Len(less)
<1>1. IsList(less) /\ n + 1 = Len(list) /\ n \in Nat /\ \A k \in 1 .. n : less[k] = list[k + 1]
  BY Beheaded
<1>. HIDE DEF less
<1>2. PICK f \in [0 .. Len(list) -> Seq(Range(list))] :
          ChosenSteps(f, list, S) /\ Chosen(list, S) = f[Len(list)]
  BY ChosenGoesOn DEF IsList
<1>3. PICK g \in [0 .. Len(less) -> Seq(Range(less))] :
          ChosenSteps(g, less, S) /\ Chosen(less, S) = g[Len(less)]
  BY <1>1, ChosenGoesOn DEF IsList
<1>. DEFINE Follows(k) == IF list[1] \in S THEN f[k + 1] # <<>> /\ g[k] = Tail(f[k + 1]) ELSE g[k] = f[k + 1]
            M == {k \in Nat : k <= n => Follows(k)}
<1>4. \A k \in 1 .. n + 1 : f[k] = IF list[k] \in S THEN Append(f[k - 1], list[k]) ELSE f[k - 1]
  BY <1>1, <1>2 DEF ChosenSteps
<1>5. \A k \in 1 .. n : g[k] = IF list[k + 1] \in S THEN Append(g[k - 1], list[k + 1]) ELSE g[k - 1]
  BY <1>1, <1>3 DEF ChosenSteps
<1>6. 0 \in M
  <2>1. 1 \in 1 .. n + 1 /\ 1 - 1 = 0
    BY <1>1
  <2>2. f[1] = IF list[1] \in S THEN Append(f[0], list[1]) ELSE f[0]
    BY <1>4, <2>1
  <2>3. f[0] = <<>> /\ g[0] = <<>>
    BY <1>2, <1>3 DEF ChosenSteps
  <2>4. \A x : Append(<<>>, x) # <<>> /\ Tail(Append(<<>>, x)) = <<>>
    OBVIOUS
  <2>5. Follows(0)
    <3>1. 0 + 1 = 1
      OBVIOUS
    <3>2. IF list[1] \in S THEN f[1] # <<>> /\ g[0] = Tail(f[1]) ELSE g[0] = f[1]
      BY <2>2, <2>3, <2>4, Zenon
    <3>. QED  BY <3>1, <3>2
  <2>. HIDE DEF Follows
  <2>. QED  BY <2>5
<1>7. ASSUME NEW k \in M PROVE k + 1 \in M
  <2>1. ASSUME k + 1 <= n PROVE Follows(k + 1)
    <3>1. k \in Nat /\ k + 1 \in 1 .. n /\ (k + 1) - 1 = k /\ Follows(k)
      BY <1>1, <2>1
    <3>2. (k + 1) + 1 \in 1 .. n + 1 /\ ((k + 1) + 1) - 1 = k + 1
      BY <1>1, <3>1
    <3>. DEFINE x == list[(k + 1) + 1]  before == f[k + 1]  after == f[(k + 1) + 1]
    <3>3. after = IF x \in S THEN Append(before, x) ELSE before
      BY <1>4, <3>2
    <3>4. g[k + 1] = IF x \in S THEN Append(g[k], x) ELSE g[k]
      BY <1>5, <3>1
    <3>5. before \in Seq(Range(list)) /\ x \in Range(list)
      <4>1. k + 1 \in 0 .. Len(list) /\ (k + 1) + 1 \in 1 .. Len(list)
        BY <1>1, <3>1
      <4>2. x \in Range(list)
        BY <4>1, ListIsFunction DEF Range
      <4>. QED  BY <1>2, <4>1, <4>2
    <3>6. Append(before, x) # <<>>
      BY <3>5
    <3>7. before # <<>> => Tail(Append(before, x)) = Append(Tail(before), x)
      BY <3>5
    <3>. HIDE DEF x
    <3>. QED  BY <3>1, <3>3, <3>4, <3>6, <3>7
  <2>. QED  BY <2>1
<1>8. Follows(n)
  <2>1. M \in SUBSET Nat
    OBVIOUS
  <2>2. n \in M
    <3>. HIDE DEF M
    <3>. QED  BY <1>1, <1>6, <1>7, <2>1, Upwards
  <2>. QED  BY <1>1, <2>2
<1>. QED  BY <1>1, <1>2, <1>3, <1>8 DEF less

-----------------------------------------------------------------------------
(* The log panel.                                                          *)

EntriesSteps(f, entries, more) ==
    f[0] = entries /\ \A k \in 1 .. Len(more) : f[k] = AppendEntry(f[k - 1], more[k])

\* AppendEntries() goes on in steps, one for each line.
LEMMA EntriesGoOn ==
    ASSUME NEW T, NEW entries \in Seq(T), NEW more \in Seq(T)
    PROVE  \E f : EntriesSteps(f, entries, more) /\ AppendEntries(entries, more) = f[Len(more)]
<1>. DEFINE n == Len(more)
            D == Seq(T)
            Follow(g) == g = [k \in 0 .. n |-> IF k = 0 THEN entries ELSE AppendEntry(g[k - 1], more[k])]
            step == [p \in D \X (1 .. n) |-> AppendEntry(p[1], more[p[2]])]
<1>1. n \in Nat /\ entries \in D /\ \A k \in 1 .. n : more[k] \in T
  OBVIOUS
<1>2. ASSUME NEW s \in D, NEW k \in 1 .. n PROVE AppendEntry(s, more[k]) \in D
  <2>1. more[k] \in T
    BY <1>1
  <2>2. MakeRoom(s) \in Seq(T)
    <3>1. CASE Len(s) >= MaxEntries
      <4>1. s # <<>>
        BY <3>1, LogAssumption
      <4>. QED  BY <3>1, <4>1 DEF MakeRoom
    <3>. QED  BY <3>1 DEF MakeRoom
  <2>. QED  BY <2>1, <2>2 DEF AppendEntry
<1>3. step \in [D \X (1 .. n) -> D] /\ \A s \in D, k \in 1 .. n : step[<<s, k>>] = AppendEntry(s, more[k])
  <2>. HIDE DEF D, n
  <2>. QED  BY <1>2
<1>. HIDE DEF D, n, step
<1>4. PICK f \in [0 .. n -> D] : Steps(f, entries, step, n)
  BY <1>1, <1>3, Repeated
<1>5. \A k \in 1 .. n : f[k] = AppendEntry(f[k - 1], more[k])
  <2>1. ASSUME NEW k \in 1 .. n PROVE f[k] = AppendEntry(f[k - 1], more[k])
    <3>1. k - 1 \in 0 .. n
      BY <1>1
    <3>2. f[k - 1] \in D /\ f[k] = step[<<f[k - 1], k>>]
      BY <1>4, <3>1 DEF Steps
    <3>. QED  BY <1>3, <3>2
  <2>. QED  BY <2>1
<1>6. Follow(f)
  BY <1>1, <1>4, <1>5 DEF Steps
<1>7. \E g : Follow(g)
  <2>. HIDE DEF Follow
  <2>. QED  BY <1>6
<1>. DEFINE all == CHOOSE g : Follow(g)
<1>8. Follow(all)
  <2>. HIDE DEF Follow
  <2>. QED  BY <1>7, Zenon
<1>9. AppendEntries(entries, more) = all[n]
  BY Zenon DEF AppendEntries, n
<1>. HIDE DEF all
<1>10. \A k \in 0 .. n : all[k] = IF k = 0 THEN entries ELSE AppendEntry(all[k - 1], more[k])
  BY <1>8, Zenon
<1>11. all[0] = entries /\ \A k \in 1 .. n : all[k] = AppendEntry(all[k - 1], more[k])
  BY <1>1, <1>10
<1>12. EntriesSteps(all, entries, more)
  BY <1>11, Zenon DEF EntriesSteps, n
<1>. QED  BY <1>9, <1>12 DEF n

\* The last of the given frames, as far as the lines go.
EndsAs(shown, given) ==
    /\ Len(shown) <= Len(given)
    /\ \A k \in 0 .. Len(shown) - 1 : shown[Len(shown) - k].summary = given[Len(given) - k]

Shows(entries, given) ==
    /\ IsList(entries) /\ Len(entries) <= MaxEntries /\ IsList(given)
    /\ EndsAs(Chosen(entries, TxLines), given)

\* Making room takes the oldest line, so the frames shown still come last.
LEMMA MadeRoom ==
    ASSUME NEW entries, NEW given, Shows(entries, given)
    PROVE  /\ IsList(MakeRoom(entries)) /\ Len(MakeRoom(entries)) < MaxEntries
           /\ EndsAs(Chosen(MakeRoom(entries), TxLines), given)
<1>1. IsList(entries) /\ Len(entries) \in Nat /\ Len(entries) <= MaxEntries /\ Len(given) \in Nat /\ EndsAs(Chosen(entries, TxLines), given)
  BY ListIsFunction DEF Shows
<1>2. CASE Len(entries) >= MaxEntries
  <2>. DEFINE shown == Chosen(entries, TxLines)  less == Chosen(Tail(entries), TxLines)
  <2>1. entries # <<>>
    <3>1. Len(entries) # 0
      BY <1>1, <1>2, LogAssumption
    <3>. QED  BY <3>1, Empty
  <2>2. IsList(Tail(entries)) /\ Len(Tail(entries)) = Len(entries) - 1
    BY <1>1, <2>1, Beheaded
  <2>3. IsList(shown)
    BY <1>1, ChosenIsList, AList DEF IsList
  <2>4. /\ entries[1] \in TxLines => shown # <<>>
        /\ less = IF entries[1] \in TxLines THEN Tail(shown) ELSE shown
    BY <1>1, <2>1, ChosenBeheaded
  <2>. HIDE DEF shown, less
  <2>5. EndsAs(less, given)
    <3>1. EndsAs(shown, given)
      BY <1>1 DEF shown
    <3>2. CASE entries[1] \in TxLines
      <4>1. /\ Len(less) = Len(shown) - 1 /\ Len(shown) \in Nat \ {0}
            /\ \A i \in 1 .. Len(shown) - 1 : less[i] = shown[i + 1]
        BY <2>3, <2>4, <3>2, Beheaded
      <4>2. ASSUME NEW k \in 0 .. Len(less) - 1 PROVE less[Len(less) - k] = shown[Len(shown) - k] /\ k \in 0 .. Len(shown) - 1
        <5>1. Len(less) - k \in 1 .. Len(shown) - 1 /\ (Len(less) - k) + 1 = Len(shown) - k /\ k \in 0 .. Len(shown) - 1
          BY <4>1
        <5>. QED  BY <4>1, <5>1
      <4>3. \A k \in 0 .. Len(less) - 1 : less[Len(less) - k].summary = given[Len(given) - k]
        BY <3>1, <4>2 DEF EndsAs
      <4>. QED  BY <3>1, <4>1, <4>3 DEF EndsAs
    <3>. QED  BY <2>4, <3>1, <3>2
  <2>. QED  BY <1>1, <1>2, <2>2, <2>5, LogAssumption DEF MakeRoom, less
<1>3. CASE ~(Len(entries) >= MaxEntries)
  BY <1>1, <1>3, LogAssumption DEF MakeRoom
<1>. QED  BY <1>2, <1>3

\* The line of a frame that is sent comes last, as the frame does.
LEMMA TxShown ==
    ASSUME NEW entries, NEW given, Shows(entries, given), NEW tid \in Nat
    PROVE  Shows(AppendEntry(entries, Tx(tid)), Append(given, tid))
<1>. DEFINE room == MakeRoom(entries)  more == Append(room, Tx(tid))  shown == Chosen(room, TxLines)
            now == Append(given, tid)
<1>1. IsList(room) /\ Len(room) < MaxEntries /\ EndsAs(shown, given)
  BY MadeRoom
<1>2. IsList(now) /\ Len(now) = Len(given) + 1 /\ now[Len(given) + 1] = tid /\ Len(given) \in Nat
      /\ \A i \in 1 .. Len(given) : now[i] = given[i]
  BY Appended, ListIsFunction DEF Shows
<1>3. Tx(tid) \in TxLines /\ Tx(tid).summary = tid
  BY DEF Tx, TxLines
<1>4. IsList(shown)
  BY <1>1, ChosenIsList, AList DEF IsList
<1>. HIDE DEF room, now
<1>5. Chosen(more, TxLines) = Append(shown, Tx(tid))
  BY <1>1, <1>3, ChosenAppended
<1>6. IsList(more) /\ Len(more) = Len(room) + 1 /\ Len(room) \in Nat
  BY <1>1, Appended, ListIsFunction
<1>. DEFINE last == Append(shown, Tx(tid))
<1>7. /\ Len(last) = Len(shown) + 1 /\ Len(shown) \in Nat /\ last[Len(shown) + 1] = Tx(tid)
      /\ \A i \in 1 .. Len(shown) : last[i] = shown[i]
  BY <1>4, Appended, ListIsFunction
<1>. HIDE DEF last, shown
<1>8. ASSUME NEW k \in 0 .. Len(last) - 1 PROVE last[Len(last) - k].summary = now[Len(now) - k]
  <2>1. CASE k = 0
    <3>1. Len(last) - k = Len(shown) + 1 /\ Len(now) - k = Len(given) + 1
      BY <1>2, <1>7, <2>1
    <3>. QED  BY <1>2, <1>3, <1>7, <3>1
  <2>2. CASE k # 0
    <3>1. k - 1 \in 0 .. Len(shown) - 1 /\ Len(last) - k = Len(shown) - (k - 1) /\ Len(now) - k = Len(given) - (k - 1)
      BY <1>2, <1>7, <2>2
    <3>2. shown[Len(shown) - (k - 1)].summary = given[Len(given) - (k - 1)] /\ Len(shown) <= Len(given)
      BY <1>1, <3>1 DEF EndsAs
    <3>3. Len(shown) - (k - 1) \in 1 .. Len(shown) /\ Len(given) - (k - 1) \in 1 .. Len(given)
      BY <1>2, <1>7, <3>1, <3>2
    <3>4. last[Len(last) - k] = shown[Len(shown) - (k - 1)] /\ now[Len(now) - k] = given[Len(given) - (k - 1)]
      BY <1>2, <1>7, <3>1, <3>3
    <3>. QED  BY <3>2, <3>4
  <2>. QED  BY <2>1, <2>2
<1>9. EndsAs(last, now)
  <2>1. Len(last) <= Len(now)
    BY <1>1, <1>2, <1>7 DEF EndsAs
  <2>. QED  BY <1>8, <2>1 DEF EndsAs
<1>10. Len(more) <= MaxEntries
  BY <1>1, <1>6, LogAssumption
<1>. QED  BY <1>2, <1>5, <1>6, <1>9, <1>10 DEF Shows, AppendEntry, last, now, room

\* Another line changes nothing about the frames.
LEMMA OtherShown ==
    ASSUME NEW entries, NEW given, Shows(entries, given), NEW entry, entry \notin TxLines
    PROVE  Shows(AppendEntry(entries, entry), given)
<1>. DEFINE room == MakeRoom(entries)  more == Append(room, entry)
<1>1. IsList(room) /\ Len(room) < MaxEntries /\ EndsAs(Chosen(room, TxLines), given) /\ IsList(given)
  BY MadeRoom DEF Shows
<1>. HIDE DEF room
<1>2. Chosen(more, TxLines) = Chosen(room, TxLines)
  BY <1>1, ChosenAppended
<1>3. IsList(more) /\ Len(more) = Len(room) + 1 /\ Len(room) \in Nat
  BY <1>1, Appended, ListIsFunction
<1>4. Len(more) <= MaxEntries
  BY <1>1, <1>3, LogAssumption
<1>. QED  BY <1>1, <1>2, <1>3, <1>4 DEF Shows, AppendEntry, room

\* The first n + 1 members are the first n and one more.
LEMMA GrownPart ==
    ASSUME NEW s, IsList(s), NEW n \in Nat, n + 1 <= Len(s)
    PROVE  SubSeq(s, 1, n + 1) = Append(SubSeq(s, 1, n), s[n + 1])
<1>. DEFINE part == SubSeq(s, 1, n)  more == SubSeq(s, 1, n + 1)  longer == Append(part, s[n + 1])
<1>1. Len(s) \in Nat /\ 1 \in Nat \ {0} /\ n + 1 \in Nat /\ n <= Len(s)
  BY ListIsFunction
<1>2. IsList(part) /\ Len(part) = n /\ \A i \in 1 .. n : part[i] = s[i]
  <2>1. /\ IsList(part) /\ Len(part) = IF 1 <= n THEN (n - 1) + 1 ELSE 0
        /\ \A i \in 1 .. Len(part) : part[i] = s[(1 - 1) + i]
    BY <1>1, Part
  <2>. HIDE DEF part
  <2>. QED  BY <2>1
<1>3. IsList(more) /\ Len(more) = n + 1 /\ \A i \in 1 .. n + 1 : more[i] = s[i]
  <2>1. /\ IsList(more) /\ Len(more) = IF 1 <= n + 1 THEN ((n + 1) - 1) + 1 ELSE 0
        /\ \A i \in 1 .. Len(more) : more[i] = s[(1 - 1) + i]
    BY <1>1, Part
  <2>. HIDE DEF more
  <2>. QED  BY <2>1
<1>. HIDE DEF part, more
<1>4. /\ IsList(longer) /\ Len(longer) = n + 1 /\ longer[n + 1] = s[n + 1]
      /\ \A i \in 1 .. n : longer[i] = s[i]
  BY <1>2, Appended
<1>. HIDE DEF longer
<1>5. \A i \in 1 .. n + 1 : more[i] = longer[i]
  BY <1>3, <1>4
<1>6. more = longer
  BY <1>3, <1>4, <1>5, SameList
<1>. QED  BY <1>6 DEF more, longer, part

\* The part of a list that it was joined from.
LEMMA FirstPart ==
    ASSUME NEW a, IsList(a), NEW b, IsList(b)
    PROVE  SubSeq(a \o b, 1, Len(a)) = a /\ SubSeq(b, 1, Len(b)) = b
<1>1. ASSUME NEW c, NEW d, IsList(d), IsList(c), Len(d) <= Len(c), \A i \in 1 .. Len(d) : c[i] = d[i]
      PROVE  SubSeq(c, 1, Len(d)) = d
  <2>. DEFINE part == SubSeq(c, 1, Len(d))
  <2>1. Len(d) \in Nat /\ 1 \in Nat \ {0}
    BY <1>1, ListIsFunction
  <2>2. /\ IsList(part) /\ Len(part) = IF 1 <= Len(d) THEN (Len(d) - 1) + 1 ELSE 0
        /\ \A i \in 1 .. Len(part) : part[i] = c[(1 - 1) + i]
    BY <1>1, <2>1, Part
  <2>. HIDE DEF part
  <2>3. Len(part) = Len(d) /\ \A i \in 1 .. Len(part) : part[i] = d[i]
    BY <1>1, <2>1, <2>2
  <2>4. part = d
    BY <1>1, <2>2, <2>3, SameList
  <2>. QED  BY <2>4 DEF part
<1>2. IsJoined(a \o b, a, b)
  BY Joined
<1>. DEFINE c == a \o b
<1>3. IsList(c) /\ Len(a) <= Len(c) /\ \A i \in 1 .. Len(a) : c[i] = a[i]
  <2>1. IsJoined(c, a, b)
    BY <1>2
  <2>. HIDE DEF c
  <2>. QED  BY <2>1 DEF IsJoined
<1>. HIDE DEF c
<1>4. SubSeq(c, 1, Len(a)) = a
  BY <1>1, <1>3
<1>5. SubSeq(b, 1, Len(b)) = b
  <2>1. Len(b) <= Len(b)
    BY ListIsFunction
  <2>. QED  BY <1>1, <2>1
<1>. QED  BY <1>4, <1>5 DEF c

\* After a number of frames sent and then other events the log shows those frames last.
LEMMA EntriesShown ==
    ASSUME NEW entries, NEW given, Shows(entries, given),
           NEW tids \in Seq(Nat), NEW more, IsList(more), Len(tids) <= Len(more),
           \A k \in 1 .. Len(more) : IF k <= Len(tids) THEN more[k] = Tx(tids[k]) ELSE more[k] \notin TxLines
    PROVE  Shows(AppendEntries(entries, more), given \o tids)
<1>. DEFINE m == Len(tids)  n == Len(more)  now == given \o tids
            Sent(k) == IF k <= m THEN k ELSE m
            T == Range(entries) \cup Range(more)
<1>1. IsList(given) /\ IsList(tids) /\ Len(given) \in Nat /\ m \in Nat /\ n \in Nat /\ m <= n
  BY ListIsFunction, AList DEF Shows
<1>2. IsJoined(now, given, tids)
  BY <1>1, Joined
<1>3. \A k \in 1 .. m : tids[k] \in Nat
  OBVIOUS
<1>4. PICK f : EntriesSteps(f, entries, more) /\ AppendEntries(entries, more) = f[n]
  <2>1. entries \in Seq(T) /\ more \in Seq(T)
    <3>1. entries \in Seq(Range(entries)) /\ more \in Seq(Range(more)) /\ Range(entries) \subseteq T /\ Range(more) \subseteq T
      BY DEF Shows, IsList
    <3>. HIDE DEF T
    <3>. QED  BY <3>1, SeqMonotonic
  <2>. QED  BY <2>1, EntriesGoOn
<1>. DEFINE Upto(k) == SubSeq(now, 1, Len(given) + Sent(k))
            M == {k \in Nat : k <= n => Shows(f[k], Upto(k))}
<1>5. Upto(0) = given /\ Upto(n) = now
  <2>1. Sent(0) = 0 /\ Sent(n) = m
    BY <1>1
  <2>2. Len(given) + 0 = Len(given) /\ Len(now) = Len(given) + m /\ IsList(now)
    BY <1>1, <1>2 DEF IsJoined
  <2>3. SubSeq(now, 1, Len(given)) = given /\ SubSeq(now, 1, Len(now)) = now
    BY <1>1, <2>2, FirstPart
  <2>. HIDE DEF now, m, Sent
  <2>. QED  BY <2>1, <2>2, <2>3
<1>6. 0 \in M
  BY <1>4, <1>5 DEF EntriesSteps
<1>7. ASSUME NEW k \in M PROVE k + 1 \in M
  <2>1. ASSUME k + 1 <= n PROVE Shows(f[k + 1], Upto(k + 1))
    <3>1. k \in Nat /\ k + 1 \in 1 .. n /\ (k + 1) - 1 = k /\ Shows(f[k], Upto(k))
      BY <1>1, <2>1
    <3>2. f[k + 1] = AppendEntry(f[k], more[k + 1])
      BY <1>4, <3>1 DEF EntriesSteps
    <3>3. CASE k + 1 <= m
      <4>1. Sent(k) = k /\ Sent(k + 1) = k + 1 /\ k + 1 \in 1 .. m
        BY <1>1, <3>1, <3>3
      <4>. DEFINE p == Len(given) + k
      <4>2. p \in Nat /\ p + 1 = Len(given) + (k + 1) /\ p + 1 <= Len(now) /\ IsList(now)
        BY <1>1, <1>2, <3>1, <4>1 DEF IsJoined
      <4>3. now[p + 1] = tids[k + 1]
        <5>1. now[Len(given) + (k + 1)] = tids[k + 1]
          BY <1>2, <4>1 DEF IsJoined
        <5>. QED  BY <4>2, <5>1
      <4>4. Upto(k + 1) = Append(Upto(k), tids[k + 1])
        <5>1. SubSeq(now, 1, p + 1) = Append(SubSeq(now, 1, p), now[p + 1])
          BY <4>2, GrownPart
        <5>2. Upto(k) = SubSeq(now, 1, p) /\ Upto(k + 1) = SubSeq(now, 1, p + 1)
          BY <4>1, <4>2
        <5>. HIDE DEF Upto, p, now
        <5>. QED  BY <4>3, <5>1, <5>2
      <4>5. more[k + 1] = Tx(tids[k + 1]) /\ tids[k + 1] \in Nat
        BY <1>3, <3>1, <3>3, <4>1
      <4>. HIDE DEF Upto
      <4>. QED  BY <3>1, <3>2, <4>4, <4>5, TxShown
    <3>4. CASE ~(k + 1 <= m)
      <4>1. Sent(k) = m /\ Sent(k + 1) = m
        BY <1>1, <3>1, <3>4
      <4>2. more[k + 1] \notin TxLines
        BY <3>1, <3>4
      <4>3. Upto(k + 1) = Upto(k)
        BY <4>1
      <4>. HIDE DEF Upto
      <4>. QED  BY <3>1, <3>2, <4>2, <4>3, OtherShown
    <3>. QED  BY <3>3, <3>4
  <2>. QED  BY <2>1
<1>8. Shows(f[n], Upto(n))
  <2>1. M \in SUBSET Nat
    OBVIOUS
  <2>2. n \in M
    <3>. HIDE DEF M
    <3>. QED  BY <1>1, <1>6, <1>7, <2>1, Upwards
  <2>. QED  BY <1>1, <2>2
<1>. QED  BY <1>4, <1>5, <1>8

\* Read backwards from the end, the two agree.
LEMMA EndsAsSuffix ==
    ASSUME NEW shown, IsList(shown), NEW given, IsList(given), EndsAs(shown, given)
    PROVE  IsSuffix([i \in DOMAIN shown |-> shown[i].summary], given)
<1>. DEFINE s == [i \in DOMAIN shown |-> shown[i].summary]  n == Len(shown)
            a == Reverse(s)  b == Reverse(given)
<1>1. n \in Nat /\ DOMAIN shown = 1 .. n /\ Len(given) \in Nat /\ n <= Len(given)
  BY ListIsFunction DEF EndsAs
<1>2. IsList(s) /\ Len(s) = n /\ \A i \in 1 .. n : s[i] = shown[i].summary
  <2>1. s = [i \in 1 .. n |-> s[i]]
    BY <1>1
  <2>. QED  BY <1>1, <2>1, FunctionIsList
<1>. HIDE DEF s
<1>3. /\ IsList(a) /\ Len(a) = n /\ \A i \in 1 .. n : a[i] = s[(n - i) + 1]
      /\ IsList(b) /\ Len(b) = Len(given) /\ \A i \in 1 .. Len(given) : b[i] = given[(Len(given) - i) + 1]
  BY <1>2, Reversed
<1>. HIDE DEF a, b
<1>4. ASSUME NEW i \in 1 .. n PROVE b[i] = a[i]
  <2>1. i - 1 \in 0 .. n - 1 /\ (n - i) + 1 = n - (i - 1) /\ (Len(given) - i) + 1 = Len(given) - (i - 1)
        /\ (n - i) + 1 \in 1 .. n /\ i \in 1 .. Len(given)
    BY <1>1
  <2>2. shown[n - (i - 1)].summary = given[Len(given) - (i - 1)]
    BY <2>1 DEF EndsAs
  <2>. HIDE DEF n
  <2>. QED  BY <1>2, <1>3, <2>1, <2>2
<1>5. SubSeq(b, 1, Len(a)) = a
  <2>1. Len(a) <= Len(b) /\ 1 \in Nat \ {0} /\ Len(a) \in Nat
    BY <1>1, <1>3
  <2>. DEFINE part == SubSeq(b, 1, Len(a))
  <2>2. /\ IsList(part) /\ Len(part) = IF 1 <= Len(a) THEN (Len(a) - 1) + 1 ELSE 0
        /\ \A i \in 1 .. Len(part) : part[i] = b[(1 - 1) + i]
    BY <1>3, <2>1, Part
  <2>. HIDE DEF part
  <2>3. Len(part) = Len(a) /\ \A i \in 1 .. Len(part) : part[i] = a[i]
    BY <1>3, <1>4, <2>1, <2>2
  <2>4. part = a
    BY <1>3, <2>2, <2>3, SameList
  <2>. QED  BY <2>4 DEF part
<1>6. SubSeq(a, 1, Len(a)) = a
  BY <1>3, FirstPart
<1>7. IsPrefix(a, b)
  BY <1>1, <1>3, <1>5, <1>6 DEF IsPrefix
<1>. QED  BY <1>7 DEF IsSuffix, a, b, s

-----------------------------------------------------------------------------
(* Requests.                                                               *)

\* A register is a number of 16 bits.
LEMMA RegisterBounds == \A n \in Register : n \in Nat /\ n \in Int /\ 0 <= n /\ n <= 65535
<1>. DEFINE top == 65535
<1>1. top \in Nat
  OBVIOUS
<1>2. Register = 0 .. top
  BY SMT DEF Register
<1>. HIDE DEF top
<1>3. \A n \in Register : n \in Nat /\ n \in Int /\ 0 <= n /\ n <= top
  BY <1>1, <1>2
<1>. QED  BY <1>3 DEF top

\* Two bytes, high one first, are the number they were made of.
LEMMA RequestBytes ==
    ASSUME NEW ask \in PossibleAsks
    PROVE  LET pdu == EncodeRequest(ask)
           IN  /\ IsList(pdu) /\ Len(pdu) = 5
               /\ pdu[1] = ask.code
               /\ pdu[2] * 256 + pdu[3] = ask.address
               /\ pdu[4] * 256 + pdu[5] = ask.argument
<1>. DEFINE a == ask.address \div 256  b == ask.address % 256
            c == ask.argument \div 256  d == ask.argument % 256
            code == <<ask.code>>  ab == <<a, b>>  cd == <<c, d>>
            three == code \o ab
            pdu == three \o cd
<1>1. ask.address \in Nat /\ ask.argument \in Nat
  <2>1. ask.address \in Register /\ ask.argument \in Register
    BY DEF PossibleAsks
  <2>2. \A n \in Register : n \in Nat
    BY RegisterBounds
  <2>. HIDE DEF a, b, c, d
  <2>. QED  BY <2>1, <2>2, Zenon
<1>2. \A n \in Nat : (n \div 256) * 256 + (n % 256) = n
  BY SMTT(30)
<1>3. a * 256 + b = ask.address /\ c * 256 + d = ask.argument
  BY <1>1, <1>2
<1>4. EncodeRequest(ask) = pdu
  BY Zenon DEF EncodeRequest, BigEndianU16
<1>. HIDE DEF a, b, c, d
<1>5. /\ IsList(code) /\ Len(code) = 1 /\ code[1] = ask.code
      /\ IsList(ab) /\ Len(ab) = 2 /\ ab[1] = a /\ ab[2] = b
      /\ IsList(cd) /\ Len(cd) = 2 /\ cd[1] = c /\ cd[2] = d
  BY OneMember, TwoMembers
<1>. HIDE DEF code, ab, cd
<1>6. /\ IsList(three) /\ Len(three) = 3
      /\ three[1] = ask.code /\ three[2] = a /\ three[3] = b
  <2>1. IsJoined(three, code, ab)
    BY <1>5, Joined, Zenon
  <2>. HIDE DEF three
  <2>2. three[1 + 1] = a /\ three[1 + 2] = b
    BY <1>5, <2>1 DEF IsJoined
  <2>. QED  BY <1>5, <2>1, <2>2 DEF IsJoined
<1>. HIDE DEF three
<1>7. /\ IsList(pdu) /\ Len(pdu) = 5
      /\ pdu[1] = ask.code /\ pdu[2] = a /\ pdu[3] = b /\ pdu[4] = c /\ pdu[5] = d
  <2>1. IsJoined(pdu, three, cd)
    BY <1>5, <1>6, Joined, Zenon
  <2>. HIDE DEF pdu
  <2>2. pdu[3 + 1] = c /\ pdu[3 + 2] = d
    BY <1>5, <1>6, <2>1 DEF IsJoined
  <2>. QED  BY <1>5, <1>6, <2>1, <2>2 DEF IsJoined
<1>. HIDE DEF pdu
<1>. QED  BY <1>3, <1>4, <1>7

PendingRequests == [tid : Nat, ask : PossibleAsks, attempts : Nat]

\* What stands where in the frame of a request, in either framing.
LEMMA RequestFrame ==
    ASSUME job \in Jobs, NEW tid \in Nat, NEW ask \in PossibleAsks
    PROVE  LET bytes == Framed(tid, EncodeRequest(ask))
           IN  /\ IsRequest(bytes) /\ AskIn(bytes) = ask
               /\ job.framing = "Tcp" =>
                      /\ TidIn(bytes) = tid /\ bytes[1] = tid \div 256 /\ bytes[2] = tid % 256
                      /\ bytes[7] = UnitId
               /\ job.framing # "Tcp" => bytes[1] = UnitId
<1>. DEFINE pdu == EncodeRequest(ask)  tcp == EncodeMbapFrame(tid, UnitId, pdu)  rtu == EncodeRtuFrame(UnitId, pdu)
<1>1. /\ IsList(pdu) /\ Len(pdu) = 5 /\ pdu[1] = ask.code
      /\ pdu[2] * 256 + pdu[3] = ask.address /\ pdu[4] * 256 + pdu[5] = ask.argument
  BY RequestBytes
<1>2. Ask(ask.code, ask.address, ask.argument) = ask
  BY DEF PossibleAsks, Ask
<1>. HIDE DEF pdu
<1>3. CASE job.framing = "Tcp"
  <2>1. /\ IsList(tcp) /\ Len(tcp) = Len(pdu) + 7
        /\ ReadBigEndianU16(tcp, 1) = tid /\ ReadBigEndianU16(tcp, 3) = 0
        /\ ReadBigEndianU16(tcp, 5) = 1 + Len(pdu)
        /\ tcp[1] = tid \div 256 /\ tcp[2] = tid % 256 /\ tcp[7] = UnitId
        /\ \A i \in 1 .. Len(pdu) : tcp[7 + i] = pdu[i]
    <3>1. IsList(pdu)
      BY <1>1
    <3>. HIDE DEF UnitId
    <3>. QED  BY <3>1, MbapFrameParts
  <2>2. Framed(tid, pdu) = tcp
    BY <1>3 DEF Framed, tcp
  <2>. HIDE DEF tcp
  <2>3. tcp[8] = pdu[1] /\ tcp[9] = pdu[2] /\ tcp[10] = pdu[3] /\ tcp[11] = pdu[4] /\ tcp[12] = pdu[5]
    BY <1>1, <2>1
  <2>4. AskIn(tcp) = Ask(tcp[8], tcp[9] * 256 + tcp[10], tcp[11] * 256 + tcp[12])
    BY <1>3 DEF AskIn
  <2>5. AskIn(tcp) = ask
    BY <1>1, <1>2, <2>3, <2>4
  <2>6. /\ Len(tcp) = 12 /\ tcp[3] * 256 + tcp[4] = 0 /\ tcp[5] * 256 + tcp[6] = 6
        /\ tcp[1] * 256 + tcp[2] = tid
    BY <1>1, <2>1 DEF ReadBigEndianU16
  <2>7. IsRequest(tcp) /\ TidIn(tcp) = tid
    BY <1>3, <2>1, <2>6 DEF IsRequest, TidIn
  <2>. QED  BY <1>3, <2>1, <2>2, <2>5, <2>7 DEF pdu
<1>4. CASE job.framing # "Tcp"
  <2>1. /\ IsList(rtu) /\ Len(rtu) = Len(pdu) + 3
        /\ rtu[1] = UnitId /\ \A i \in 1 .. Len(pdu) : rtu[1 + i] = pdu[i]
        /\ IsRtuFrame(rtu)
    <3>1. IsList(pdu)
      BY <1>1
    <3>. HIDE DEF UnitId
    <3>. QED  BY <3>1, RtuFrameParts
  <2>2. Framed(tid, pdu) = rtu
    BY <1>4 DEF Framed, rtu
  <2>. HIDE DEF rtu
  <2>3. rtu[2] = pdu[1] /\ rtu[3] = pdu[2] /\ rtu[4] = pdu[3] /\ rtu[5] = pdu[4] /\ rtu[6] = pdu[5]
    BY <1>1, <2>1
  <2>4. AskIn(rtu) = Ask(rtu[2], rtu[3] * 256 + rtu[4], rtu[5] * 256 + rtu[6])
    BY <1>4 DEF AskIn
  <2>5. AskIn(rtu) = ask
    BY <1>1, <1>2, <2>3, <2>4
  <2>6. Len(rtu) = 8
    BY <1>1, <2>1
  <2>7. rtu[7] = Crc16(SubSeq(rtu, 1, 6)) % 256 /\ rtu[8] = Crc16(SubSeq(rtu, 1, 6)) \div 256
    <3>. DEFINE crc == Crc16(SubSeq(rtu, 1, 6))  rear == SubSeq(rtu, 7, 8)
                l == crc % 256  h == crc \div 256
    <3>1. Reverse(BigEndianU16(crc)) = rear
      <4>1. Len(rtu) - 2 = 6 /\ Len(rtu) - 1 = 7
        BY <2>6
      <4>. QED  BY <2>1, <2>6, <4>1 DEF IsRtuFrame
    <3>2. Reverse(BigEndianU16(crc)) = <<l, h>>
      BY CrcBytes
    <3>3. rear[1] = rtu[7] /\ rear[2] = rtu[8]
      <4>1. Len(SubSeq(rtu, 7, 8)) = 2 /\ \A i \in 1 .. Len(SubSeq(rtu, 7, 8)) : SubSeq(rtu, 7, 8)[i] = rtu[(7 - 1) + i]
        BY <2>1, <2>6, Part
      <4>. QED  BY <4>1
    <3>. HIDE DEF rear, l, h, crc
    <3>4. rear = <<l, h>>
      BY <3>1, <3>2
    <3>5. rtu[7] = l /\ rtu[8] = h
      BY <3>3, <3>4
    <3>. QED  BY <3>5 DEF l, h, crc
  <2>8. IsRequest(rtu)
    BY <1>4, <2>1, <2>6, <2>7 DEF IsRequest
  <2>. QED  BY <1>4, <2>1, <2>2, <2>5, <2>8 DEF pdu
<1>. QED  BY <1>3, <1>4

\* A frame that is what frameFor() makes of the request it is meant to be.
Understood(frame) ==
    /\ frame.tid \in Nat /\ frame.meant \in PossibleAsks
    /\ frame.bytes = Framed(frame.tid, EncodeRequest(frame.meant))
    /\ AskIn(frame.bytes) = frame.meant

\* Such is the frame of every request.
LEMMA FramesAreUnderstood ==
    ASSUME job \in Jobs, NEW request \in PendingRequests
    PROVE  Understood(FrameFor(request)) /\ FrameFor(request).tid = request.tid
<1>. DEFINE ask == request.ask  bytes == Framed(request.tid, EncodeRequest(ask))
<1>1. ask \in PossibleAsks /\ request.tid \in Nat
  BY DEF PendingRequests
<1>2. AskIn(bytes) = ask
  BY <1>1, RequestFrame
<1>3. FrameFor(request) = [tid |-> request.tid, meant |-> ask, bytes |-> bytes]
  BY DEF FrameFor
<1>. HIDE DEF ask
<1>4. FrameFor(request).tid = request.tid /\ FrameFor(request).meant = ask /\ FrameFor(request).bytes = bytes
  BY <1>3
<1>. QED  BY <1>1, <1>2, <1>4 DEF Understood

\* A list of seven members.
LEMMA SevenMembers ==
    ASSUME NEW a, NEW b, NEW c, NEW d, NEW e, NEW f, NEW g
    PROVE  LET s == <<a, b, c, d, e, f, g>>
           IN  /\ IsList(s) /\ Len(s) = 7 /\ s[1] = a /\ s[2] = b /\ s[3] = c /\ s[4] = d
               /\ s[5] = e /\ s[6] = f /\ s[7] = g
<1>. DEFINE s == <<a, b, c, d, e, f, g>>  T == {a, b, c, d, e, f, g}
<1>1. s \in Seq(T)
  OBVIOUS
<1>2. /\ Len(s) = 7 /\ s[1] = a /\ s[2] = b /\ s[3] = c /\ s[4] = d
      /\ s[5] = e /\ s[6] = f /\ s[7] = g
  OBVIOUS
<1>. HIDE DEF s, T
<1>3. IsList(s)
  BY <1>1, AList
<1>. QED  BY <1>2, <1>3 DEF s

\* The frame the device makes of an answer to such a frame is the one the program would make.
LEMMA DeviceFrames ==
    ASSUME NEW frame, Understood(frame), job \in Jobs, NEW pdu, IsList(pdu)
    PROVE  IsRequest(frame.bytes) /\ AnswerFrame(frame.bytes, pdu) = Framed(frame.tid, pdu)
<1>. DEFINE bytes == frame.bytes  tid == frame.tid
<1>1. /\ IsRequest(bytes) /\ tid \in Nat
      /\ job.framing = "Tcp" => bytes[1] = tid \div 256 /\ bytes[2] = tid % 256 /\ bytes[7] = UnitId
      /\ job.framing # "Tcp" => bytes[1] = UnitId
  <2>1. frame.tid \in Nat /\ frame.meant \in PossibleAsks
        /\ frame.bytes = Framed(frame.tid, EncodeRequest(frame.meant))
    BY DEF Understood
  <2>. QED  BY <2>1, RequestFrame
<1>. HIDE DEF bytes, tid
<1>2. CASE job.framing = "Tcp"
  <2>. DEFINE c == (1 + Len(pdu)) \div 256  d == (1 + Len(pdu)) % 256  a == tid \div 256  b == tid % 256
              unit == UnitId
              front == <<a, b, 0, 0, c, d, unit>>
              made == front \o pdu  coded == EncodeMbapFrame(tid, unit, pdu)
  <2>1. AnswerFrame(bytes, pdu) = made
    BY <1>1, <1>2 DEF AnswerFrame
  <2>2. Framed(tid, pdu) = coded
    BY <1>2 DEF Framed
  <2>. HIDE DEF unit, UnitId
  <2>3. /\ IsList(coded) /\ Len(coded) = Len(pdu) + 7 /\ Len(pdu) \in Nat
        /\ coded[1] = a /\ coded[2] = b /\ coded[3] = 0 /\ coded[4] = 0
        /\ coded[5] = c /\ coded[6] = d /\ coded[7] = unit
        /\ \A i \in 1 .. Len(pdu) : coded[7 + i] = pdu[i]
    BY <1>1, MbapFrameParts, SMTT(30)
  <2>. HIDE DEF a, b, c, d
  <2>4. /\ IsList(front) /\ Len(front) = 7 /\ front[1] = a /\ front[2] = b /\ front[3] = 0 /\ front[4] = 0
        /\ front[5] = c /\ front[6] = d /\ front[7] = unit
    BY SevenMembers
  <2>. HIDE DEF front, coded
  <2>5. IsJoined(made, front, pdu)
    BY <2>4, Joined, Zenon
  <2>. HIDE DEF made
  <2>6. \A i \in 1 .. Len(made) : made[i] = coded[i]
    <3>1. TAKE i \in 1 .. Len(made)
    <3>2. i \in Nat /\ 1 <= i /\ i <= 7 + Len(pdu)
      BY <2>3, <2>4, <2>5 DEF IsJoined
    <3>3. CASE i <= 7
      <4>1. i = 1 \/ i = 2 \/ i = 3 \/ i = 4 \/ i = 5 \/ i = 6 \/ i = 7
        BY <3>2, <3>3
      <4>2. \A k \in 1 .. 7 : made[k] = front[k]
        BY <2>4, <2>5 DEF IsJoined
      <4>. QED  BY <2>3, <2>4, <4>1, <4>2
    <3>4. CASE i > 7
      <4>1. i - 7 \in 1 .. Len(pdu) /\ 7 + (i - 7) = i
        BY <2>3, <3>2, <3>4
      <4>2. made[7 + (i - 7)] = pdu[i - 7]
        BY <2>4, <2>5, <4>1 DEF IsJoined
      <4>. QED  BY <2>3, <4>1, <4>2
    <3>. QED  BY <3>2, <3>3, <3>4
  <2>7. Len(made) = Len(coded) /\ IsList(made)
    BY <2>3, <2>4, <2>5 DEF IsJoined
  <2>8. made = coded
    BY <2>3, <2>6, <2>7, SameList
  <2>. QED  BY <1>1, <2>1, <2>2, <2>8 DEF bytes, tid
<1>3. CASE job.framing # "Tcp"
  <2>. DEFINE body == <<bytes[1]>> \o pdu
  <2>1. AnswerFrame(bytes, pdu) = body \o <<Crc16(body) % 256, Crc16(body) \div 256>>
    BY <1>3 DEF AnswerFrame
  <2>2. body = <<UnitId>> \o pdu
    BY <1>1, <1>3
  <2>. HIDE DEF body
  <2>3. Framed(tid, pdu) = body \o Reverse(BigEndianU16(Crc16(body)))
    BY <1>3, <2>2 DEF Framed, EncodeRtuFrame
  <2>4. Reverse(BigEndianU16(Crc16(body))) = <<Crc16(body) % 256, Crc16(body) \div 256>>
    BY CrcBytes
  <2>5. AnswerFrame(bytes, pdu) = Framed(tid, pdu)
    BY <2>1, <2>3, <2>4
  <2>. QED  BY <1>1, <2>5 DEF bytes, tid
<1>. QED  BY <1>2, <1>3

-----------------------------------------------------------------------------
(* The frames and the log.                                                 *)

Tids(list) == [i \in DOMAIN list |-> list[i].tid]

\* The transaction ids of a list of frames.
LEMMA TidsAreList ==
    ASSUME NEW list, IsList(list)
    PROVE  IsList(Tids(list)) /\ Len(Tids(list)) = Len(list) /\ \A i \in 1 .. Len(list) : Tids(list)[i] = list[i].tid
<1>. DEFINE tids == Tids(list)
<1>1. Len(list) \in Nat /\ DOMAIN list = 1 .. Len(list)
  BY ListIsFunction
<1>2. tids = [i \in 1 .. Len(list) |-> tids[i]]
  BY <1>1 DEF Tids
<1>3. \A i \in 1 .. Len(list) : tids[i] = list[i].tid
  BY <1>1 DEF Tids
<1>. HIDE DEF tids
<1>4. IsList(tids) /\ Len(tids) = Len(list)
  BY <1>1, <1>2, FunctionIsList
<1>. QED  BY <1>3, <1>4 DEF tids

PathBooks ==
    /\ job \in Jobs
    /\ todo \in Seq(Seq(PossibleAsks))
    /\ sent \in Nat
    /\ pending \in Seq(PendingRequests)
    /\ IsList(line) /\ \A k \in 1 .. Len(line) : Understood(line[k])
    /\ IsList(heard)
    /\ Shows(log, Tids(heard) \o Tids(line))

\* An empty panel shows the last of anything: none.
LEMMA NothingShown == ASSUME NEW given, IsList(given) PROVE Shows(<<>>, given)
<1>1. Len(given) \in Nat
  BY ListIsFunction
<1>. QED  BY <1>1, Empty, NoneChosen, LogAssumption DEF Shows, EndsAs

\* The frames given to the device, those it took before those it did not take yet.
LEMMA GivenIsList ==
    ASSUME NEW a, IsList(a), NEW b, IsList(b)
    PROVE  IsJoined(Tids(a) \o Tids(b), Tids(a), Tids(b))
  BY TidsAreList, Joined, Zenon

\* The books hold at the start.
LEMMA BooksStart == Init => PathBooks
<1>. SUFFICES ASSUME Init PROVE PathBooks
  OBVIOUS
<1>1. job \in Jobs /\ todo \in Seq(Seq(PossibleAsks)) /\ sent \in Nat /\ pending \in Seq(PendingRequests)
  BY JobsAssumption DEF Init
<1>2. line = <<>> /\ heard = <<>> /\ log = <<>>
  BY DEF Init
<1>3. IsList(Tids(heard) \o Tids(line))
  BY <1>2, Empty, GivenIsList DEF IsJoined
<1>4. Shows(log, Tids(heard) \o Tids(line))
  BY <1>2, <1>3, NothingShown
<1>. QED  BY <1>1, <1>2, <1>4, Empty DEF PathBooks

\* The frames given to the device stay the same ones when it takes the next.
LEMMA TakenInOrder ==
    ASSUME NEW old, IsList(old), NEW list, IsList(list), list # <<>>, NEW x, x.tid = list[1].tid
    PROVE  Tids(Append(old, x)) \o Tids(Tail(list)) = Tids(old) \o Tids(list)
<1>. DEFINE now == Append(old, x)  rest == Tail(list)
            a == Tids(now) \o Tids(rest)  b == Tids(old) \o Tids(list)
            m == Len(old)  n == Len(rest)
<1>1. /\ IsList(now) /\ Len(now) = m + 1 /\ now[m + 1] = x /\ m \in Nat
      /\ \A i \in 1 .. m : now[i] = old[i]
  BY Appended, ListIsFunction
<1>2. /\ IsList(rest) /\ Len(list) = n + 1 /\ n \in Nat
      /\ \A i \in 1 .. n : rest[i] = list[i + 1]
  BY Beheaded
<1>. HIDE DEF now, rest
<1>3. IsJoined(a, Tids(now), Tids(rest)) /\ IsJoined(b, Tids(old), Tids(list))
  BY <1>1, <1>2, GivenIsList
<1>. HIDE DEF a, b
<1>4. /\ IsList(a) /\ Len(a) = (m + 1) + n
      /\ \A i \in 1 .. m + 1 : a[i] = now[i].tid
      /\ \A i \in 1 .. n : a[(m + 1) + i] = rest[i].tid
  <2>. DEFINE s == Tids(now)  t == Tids(rest)
  <2>1. Len(s) = m + 1 /\ \A i \in 1 .. m + 1 : s[i] = now[i].tid
    BY <1>1, TidsAreList
  <2>2. Len(t) = n /\ \A i \in 1 .. n : t[i] = rest[i].tid
    BY <1>2, TidsAreList
  <2>3. IsJoined(a, s, t)
    BY <1>3
  <2>. HIDE DEF s, t
  <2>. QED  BY <2>1, <2>2, <2>3 DEF IsJoined
<1>5. /\ IsList(b) /\ Len(b) = m + (n + 1)
      /\ \A i \in 1 .. m : b[i] = old[i].tid
      /\ \A i \in 1 .. n + 1 : b[m + i] = list[i].tid
  <2>. DEFINE s == Tids(old)  t == Tids(list)
  <2>1. Len(s) = m /\ \A i \in 1 .. m : s[i] = old[i].tid
    BY TidsAreList
  <2>2. Len(t) = n + 1 /\ \A i \in 1 .. n + 1 : t[i] = list[i].tid
    BY <1>2, TidsAreList
  <2>3. IsJoined(b, s, t)
    BY <1>3
  <2>. HIDE DEF s, t
  <2>. QED  BY <2>1, <2>2, <2>3 DEF IsJoined
<1>6. ASSUME NEW k \in 1 .. (m + 1) + n PROVE a[k] = b[k]
  <2>1. CASE k <= m
    BY <1>1, <1>4, <1>5, <2>1
  <2>2. CASE k = m + 1
    <3>1. 1 \in 1 .. n + 1 /\ m + 1 \in 1 .. m + 1
      BY <1>1, <1>2
    <3>. QED  BY <1>1, <1>4, <1>5, <2>2, <3>1
  <2>3. CASE k > m + 1
    <3>. DEFINE i == k - (m + 1)
    <3>1. i \in 1 .. n /\ k = (m + 1) + i /\ k = m + (i + 1) /\ i + 1 \in 1 .. n + 1
      BY <1>1, <1>2, <2>3
    <3>. HIDE DEF i
    <3>. QED  BY <1>2, <1>4, <1>5, <3>1
  <2>. QED  BY <1>1, <1>2, <2>1, <2>2, <2>3
<1>7. a = b
  <2>1. Len(a) = Len(b)
    BY <1>1, <1>2, <1>4, <1>5
  <2>. QED  BY <1>4, <1>5, <1>6, <2>1, SameList
<1>. QED  BY <1>7 DEF a, b, now, rest

InOrder(old, list, new) == Tids(old) \o Tids(list \o new) = (Tids(old) \o Tids(list)) \o Tids(new)

\* Frames put on the line come after those that are there.
LEMMA PutInOrder ==
    ASSUME NEW old, IsList(old), NEW list, IsList(list), NEW new, IsList(new)
    PROVE  InOrder(old, list, new)
<1>. DEFINE all == list \o new  given == Tids(old) \o Tids(list)
            a == Tids(old) \o Tids(all)  b == given \o Tids(new)
            l == Len(old)  m == Len(list)  n == Len(new)
<1>1. l \in Nat /\ m \in Nat /\ n \in Nat
  BY ListIsFunction
<1>2. IsJoined(all, list, new) /\ IsJoined(given, Tids(old), Tids(list))
  BY Joined, GivenIsList
<1>. HIDE DEF all, given
<1>3. IsList(all) /\ IsList(given)
  BY <1>2 DEF IsJoined
<1>4. IsJoined(a, Tids(old), Tids(all)) /\ IsJoined(b, given, Tids(new))
  BY <1>3, TidsAreList, Joined
<1>. HIDE DEF a, b
<1>5. /\ Len(all) = m + n /\ \A i \in 1 .. m : all[i] = list[i]
      /\ \A i \in 1 .. n : all[m + i] = new[i]
  BY <1>2 DEF IsJoined
<1>6. /\ Len(given) = l + m /\ \A i \in 1 .. l : given[i] = old[i].tid
      /\ \A i \in 1 .. m : given[l + i] = list[i].tid
  BY <1>1, <1>2, TidsAreList DEF IsJoined
<1>7. /\ IsList(a) /\ Len(a) = l + (m + n) /\ \A i \in 1 .. l : a[i] = old[i].tid
      /\ \A i \in 1 .. m + n : a[l + i] = all[i].tid
  <2>1. Len(Tids(old)) = l /\ \A i \in 1 .. l : Tids(old)[i] = old[i].tid
    BY TidsAreList
  <2>2. Len(Tids(all)) = m + n /\ \A i \in 1 .. m + n : Tids(all)[i] = all[i].tid
    BY <1>3, <1>5, TidsAreList
  <2>3. /\ IsList(a) /\ Len(a) = l + (m + n) /\ \A i \in 1 .. l : a[i] = Tids(old)[i]
        /\ \A i \in 1 .. m + n : a[l + i] = Tids(all)[i]
    BY <1>4, <2>1, <2>2, Zenon DEF IsJoined
  <2>. QED  BY <2>1, <2>2, <2>3
<1>8. /\ IsList(b) /\ Len(b) = (l + m) + n /\ \A i \in 1 .. l + m : b[i] = given[i]
      /\ \A i \in 1 .. n : b[(l + m) + i] = new[i].tid
  BY <1>1, <1>4, <1>6, TidsAreList DEF IsJoined
<1>9. ASSUME NEW k \in 1 .. l + (m + n) PROVE a[k] = b[k]
  <2>1. CASE k <= l
    <3>1. k \in 1 .. l /\ k \in 1 .. l + m
      BY <1>1, <2>1
    <3>. QED  BY <1>6, <1>7, <1>8, <3>1
  <2>2. CASE k > l /\ k <= l + m
    <3>. DEFINE i == k - l
    <3>1. i \in 1 .. m /\ i \in 1 .. m + n /\ k = l + i /\ k \in 1 .. l + m
      BY <1>1, <2>2
    <3>. HIDE DEF i
    <3>2. a[k] = list[i].tid
      <4>1. a[l + i] = all[i].tid /\ all[i] = list[i]
        BY <1>5, <1>7, <3>1
      <4>. QED  BY <3>1, <4>1
    <3>3. b[k] = list[i].tid
      <4>1. b[k] = given[k]
        BY <1>8, <3>1
      <4>2. given[l + i] = list[i].tid
        BY <1>6, <3>1
      <4>. QED  BY <3>1, <4>1, <4>2
    <3>. QED  BY <3>2, <3>3
  <2>3. CASE k > l + m
    <3>. DEFINE i == k - (l + m)
    <3>1. i \in 1 .. n /\ m + i \in 1 .. m + n /\ k = l + (m + i) /\ k = (l + m) + i
      BY <1>1, <2>3
    <3>. HIDE DEF i
    <3>2. a[l + (m + i)] = all[m + i].tid
      BY <1>7, <3>1
    <3>3. all[m + i] = new[i] /\ b[(l + m) + i] = new[i].tid
      BY <1>5, <1>8, <3>1
    <3>. QED  BY <3>1, <3>2, <3>3
  <2>. QED  BY <1>1, <2>1, <2>2, <2>3
<1>10. a = b
  <2>1. Len(a) = Len(b)
    BY <1>1, <1>7, <1>8
  <2>. QED  BY <1>7, <1>8, <1>9, <2>1, SameList
<1>. QED  BY <1>10 DEF a, b, all, given, InOrder

\* What is shown when frames are put on the line and then some requests end.
LEMMA SentAreShown ==
    ASSUME PathBooks, NEW new, IsList(new), NEW more, IsList(more), Len(new) <= Len(more),
           \A k \in 1 .. Len(new) : Understood(new[k]),
           \A k \in 1 .. Len(more) : IF k <= Len(new) THEN more[k] = Tx(new[k].tid) ELSE more[k] \notin TxLines
    PROVE  /\ Shows(AppendEntries(log, more), Tids(heard) \o Tids(line \o new))
           /\ IsList(line \o new) /\ \A k \in 1 .. Len(line \o new) : Understood((line \o new)[k])
<1>. DEFINE tids == Tids(new)  n == Len(new)
<1>1. IsList(tids) /\ Len(tids) = n /\ n \in Nat /\ \A i \in 1 .. n : tids[i] = new[i].tid
  BY TidsAreList, ListIsFunction
<1>2. tids \in Seq(Nat)
  <2>1. \A i \in 1 .. n : tids[i] \in Nat
    BY <1>1 DEF Understood
  <2>. HIDE DEF tids, n
  <2>2. tids = [i \in 1 .. n |-> tids[i]]
    BY <1>1, ListIsFunction
  <2>3. tids \in [1 .. n -> Nat]
    BY <2>1, <2>2
  <2>. QED  BY <1>1, <2>3
<1>3. \A k \in 1 .. Len(more) : IF k <= Len(tids) THEN more[k] = Tx(tids[k]) ELSE more[k] \notin TxLines
  <2>1. ASSUME NEW k \in 1 .. Len(more), k <= n PROVE more[k] = Tx(tids[k])
    <3>1. k \in 1 .. n
      BY <1>1, <2>1
    <3>. QED  BY <1>1, <2>1, <3>1
  <2>. QED  BY <1>1, <2>1
<1>4. Shows(log, Tids(heard) \o Tids(line)) /\ IsList(heard) /\ IsList(line)
  BY DEF PathBooks
<1>. HIDE DEF tids
<1>5. Shows(AppendEntries(log, more), (Tids(heard) \o Tids(line)) \o tids)
  BY <1>1, <1>2, <1>3, <1>4, EntriesShown
<1>6. (Tids(heard) \o Tids(line)) \o tids = Tids(heard) \o Tids(line \o new)
  <2>1. IsList(heard) /\ IsList(line)
    BY <1>4
  <2>2. Tids(heard) \o Tids(line \o new) = (Tids(heard) \o Tids(line)) \o Tids(new)
    <3>1. InOrder(heard, line, new)
      BY <2>1, PutInOrder
    <3>. QED  BY <3>1 DEF InOrder
  <2>. QED  BY <2>2 DEF tids
<1>7. IsJoined(line \o new, line, new)
  BY <1>4, Joined
<1>. DEFINE all == line \o new
<1>8. IsJoined(all, line, new)
  BY <1>7
<1>. HIDE DEF all
<1>9. ASSUME NEW k \in 1 .. Len(all) PROVE Understood(all[k])
  <2>1. CASE k <= Len(line)
    <3>1. k \in 1 .. Len(line)
      BY <1>8, <2>1 DEF IsJoined
    <3>. QED  BY <1>8, <3>1 DEF IsJoined, PathBooks
  <2>2. CASE ~(k <= Len(line))
    <3>. DEFINE i == k - Len(line)
    <3>1. i \in 1 .. Len(new) /\ k = Len(line) + i
      BY <1>8, <2>2 DEF IsJoined
    <3>. HIDE DEF i
    <3>2. all[k] = new[i]
      BY <1>8, <3>1 DEF IsJoined
    <3>. QED  BY <3>1, <3>2
  <2>. QED  BY <2>1, <2>2
<1>10. IsList(all)
  BY <1>8 DEF IsJoined
<1>. QED  BY <1>5, <1>6, <1>9, <1>10 DEF all

\* The books hold after sendRequest().
LEMMA BooksSend == ASSUME PathBooks, SendRequests PROVE PathBooks'
<1>. DEFINE batch == Head(todo)  n == Len(batch)
            new == [k \in 1 .. n |-> FrameFor(pending'[k])]
            more == [k \in 1 .. n |-> Tx(sent + k)]
<1>1. /\ job' = job /\ todo' = Tail(todo) /\ heard' = heard /\ sent' = sent + n
      /\ pending' = [k \in DOMAIN batch |-> [tid |-> sent + k, ask |-> batch[k], attempts |-> 1]]
      /\ line' = line \o [k \in DOMAIN batch |-> FrameFor(pending'[k])]
      /\ log' = AppendEntries(log, [k \in DOMAIN batch |-> Tx(sent + k)])
      /\ todo # <<>>
  BY Zenon DEF SendRequests
<1>2. batch \in Seq(PossibleAsks) /\ todo' \in Seq(Seq(PossibleAsks))
  <2>1. todo \in Seq(Seq(PossibleAsks)) /\ todo # <<>>
    BY <1>1 DEF PathBooks
  <2>. HIDE DEF PossibleAsks
  <2>. DEFINE S == Seq(PossibleAsks)
  <2>2. todo \in Seq(S)
    BY <2>1
  <2>. HIDE DEF S
  <2>3. Head(todo) \in S /\ Tail(todo) \in Seq(S)
    BY <2>1, <2>2
  <2>. QED  BY <1>1, <2>3 DEF S
<1>. HIDE DEF batch
<1>3. n \in Nat /\ DOMAIN batch = 1 .. n /\ \A k \in 1 .. n : batch[k] \in PossibleAsks
  BY <1>2
<1>4. sent \in Nat /\ \A k \in 1 .. n : sent + k \in Nat
  BY <1>3 DEF PathBooks
<1>. HIDE DEF n
<1>5. \A k \in 1 .. n : pending'[k] = [tid |-> sent + k, ask |-> batch[k], attempts |-> 1]
  BY <1>1, <1>3
<1>6. \A k \in 1 .. n : pending'[k] \in PendingRequests /\ pending'[k].tid = sent + k
  <2>1. ASSUME NEW k \in 1 .. n PROVE pending'[k] \in PendingRequests /\ pending'[k].tid = sent + k
    <3>1. batch[k] \in PossibleAsks /\ sent + k \in Nat
      BY <1>3, <1>4
    <3>2. pending'[k] = [tid |-> sent + k, ask |-> batch[k], attempts |-> 1]
      BY <1>5
    <3>. QED  BY <3>1, <3>2 DEF PendingRequests
  <2>. QED  BY <2>1
<1>7. pending' \in Seq(PendingRequests)
  <2>1. pending' = [k \in 1 .. n |-> pending'[k]]
    BY <1>1, <1>3
  <2>2. pending' \in [1 .. n -> PendingRequests]
    BY <1>6, <2>1
  <2>. HIDE DEF PendingRequests
  <2>. QED  BY <1>3, <2>2
<1>8. IsList(new) /\ Len(new) = n /\ IsList(more) /\ Len(more) = n
  BY <1>3, FunctionIsList
<1>9. ASSUME NEW k \in 1 .. n PROVE Understood(new[k]) /\ more[k] = Tx(new[k].tid)
  <2>1. job \in Jobs /\ new[k] = FrameFor(pending'[k]) /\ more[k] = Tx(sent + k)
    BY DEF PathBooks
  <2>2. Understood(FrameFor(pending'[k])) /\ FrameFor(pending'[k]).tid = pending'[k].tid
    BY <1>6, <2>1, FramesAreUnderstood
  <2>. QED  BY <1>6, <2>1, <2>2
<1>10. line' = line \o new /\ log' = AppendEntries(log, more)
  BY <1>1, <1>3
<1>. HIDE DEF new, more
<1>11. /\ Shows(log', Tids(heard) \o Tids(line'))
       /\ IsList(line') /\ \A k \in 1 .. Len(line') : Understood(line'[k])
  <2>1. /\ Len(new) <= Len(more) /\ \A k \in 1 .. Len(new) : Understood(new[k])
        /\ \A k \in 1 .. Len(more) : IF k <= Len(new) THEN more[k] = Tx(new[k].tid) ELSE more[k] \notin TxLines
    BY <1>3, <1>8, <1>9
  <2>. QED  BY <1>8, <1>10, <2>1, SentAreShown
<1>12. job' \in Jobs /\ sent' \in Nat /\ IsList(heard')
  BY <1>1, <1>3 DEF PathBooks
<1>13. \A k \in 1 .. Len(line') : Understood(line[k])'
  <2>1. TAKE k \in 1 .. Len(line')
  <2>2. Understood(line'[k]) /\ job' = job
    BY <1>1, <1>11
  <2>. QED  BY <2>2 DEF Understood, AskIn, Framed
<1>14. Shows(log, Tids(heard) \o Tids(line))'
  BY <1>1, <1>11 DEF Shows, EndsAs, Tids
<1>. QED  BY <1>2, <1>7, <1>11, <1>12, <1>13, <1>14 DEF PathBooks

\* A list with a member removed.
LEMMA RemovedIsList ==
    ASSUME NEW T, NEW s \in Seq(T), NEW k \in DOMAIN s
    PROVE  RemoveAt(s, k) \in Seq(T)
<1>1. Len(s) \in Nat /\ DOMAIN s = 1 .. Len(s) /\ k \in 1 .. Len(s)
  OBVIOUS
<1>2. SubSeq(s, 1, k - 1) \in Seq(T) /\ SubSeq(s, k + 1, Len(s)) \in Seq(T)
  BY <1>1
<1>. QED  BY <1>2 DEF RemoveAt

\* The device answers the frame it takes.
LEMMA RequestIsHeard ==
    ASSUME PathBooks, DeviceAnswers
    PROVE  /\ line # <<>> /\ Head(line) = line[1] /\ line' = Tail(line) /\ UNCHANGED <<job, hostVars>>
           /\ Understood(line[1]) /\ AnswerRequest(line[1])
<1>1. line # <<>> /\ line' = Tail(line) /\ UNCHANGED <<job, hostVars>>
  BY DEF DeviceAnswers
<1>2. Head(line) = line[1] /\ Len(line) \in Nat \ {0}
  BY <1>1, Beheaded DEF PathBooks
<1>3. Understood(line[1])
  BY <1>2 DEF PathBooks
<1>4. IsRequest(line[1].bytes)
  <2>1. line[1].bytes = Framed(line[1].tid, EncodeRequest(line[1].meant))
        /\ line[1].tid \in Nat /\ line[1].meant \in PossibleAsks
    BY <1>3 DEF Understood
  <2>2. job \in Jobs
    BY DEF PathBooks
  <2>. QED  BY <2>1, <2>2, RequestFrame
<1>5. AnswerRequest(line[1])
  BY <1>2, <1>4, Zenon DEF DeviceAnswers
<1>. QED  BY <1>1, <1>2, <1>3, <1>5

\* The books hold after the device takes a frame.
LEMMA BooksAnswer == ASSUME PathBooks, DeviceAnswers PROVE PathBooks'
<1>1. /\ line # <<>> /\ line' = Tail(line) /\ job' = job /\ todo' = todo /\ sent' = sent
      /\ pending' = pending /\ log' = log
  BY RequestIsHeard DEF hostVars
<1>2. PICK answer, came : heard' = Append(heard, [tid |-> line[1].tid, took |-> AskIn(line[1].bytes),
                                                  answer |-> answer, came |-> came])
  BY RequestIsHeard, Zenon DEF AnswerRequest
<1>. DEFINE x == [tid |-> line[1].tid, took |-> AskIn(line[1].bytes), answer |-> answer, came |-> came]
<1>3. x.tid = line[1].tid /\ heard' = Append(heard, x)
  BY <1>2
<1>. HIDE DEF x
<1>4. /\ IsList(Tail(line)) /\ Len(Tail(line)) = Len(line) - 1 /\ Len(line) \in Nat \ {0}
      /\ \A i \in 1 .. Len(line) - 1 : Tail(line)[i] = line[i + 1]
  BY <1>1, Beheaded DEF PathBooks
<1>6. /\ IsList(heard') /\ Len(heard') = Len(heard) + 1 /\ heard'[Len(heard) + 1] = x
      /\ \A i \in 1 .. Len(heard) : heard'[i] = heard[i]
      /\ Len(heard) \in Nat
  BY <1>3, Appended, ListIsFunction DEF PathBooks
<1>8. \A k \in 1 .. Len(line') : Understood(line[k])'
  <2>1. ASSUME NEW k \in 1 .. Len(line') PROVE Understood(line[k])'
    <3>1. k + 1 \in 1 .. Len(line) /\ line'[k] = line[k + 1]
      BY <1>1, <1>4
    <3>2. Understood(line[k + 1])
      BY <3>1 DEF PathBooks
    <3>. QED  BY <1>1, <3>1, <3>2 DEF Understood, AskIn, Framed
  <2>. QED  BY <2>1
<1>9. Shows(log, Tids(heard) \o Tids(line))'
  <2>1. IsList(heard) /\ IsList(line) /\ Shows(log, Tids(heard) \o Tids(line))
    BY DEF PathBooks
  <2>2. Tids(Append(heard, x)) \o Tids(Tail(line)) = Tids(heard) \o Tids(line)
    BY <1>1, <1>3, <2>1, TakenInOrder
  <2>3. Shows(log', Tids(heard') \o Tids(line'))
    BY <1>1, <1>3, <2>1, <2>2
  <2>. QED  BY <2>3 DEF Shows, EndsAs, Tids
<1>. QED  BY <1>1, <1>4, <1>6, <1>8, <1>9 DEF PathBooks

\* Steps of the host that send nothing: another line may be added.
LEMMA BooksReceive ==
    ASSUME PathBooks, UNCHANGED <<job, todo, sent, line, heard>>,
           pending' \in Seq(PendingRequests),
           log' = log \/ log' = <<>> \/ \E n : log' = AppendEntry(log, Rx(n))
    PROVE  PathBooks'
<1>1. Shows(log', Tids(heard) \o Tids(line))
  <2>1. Shows(log, Tids(heard) \o Tids(line))
    BY DEF PathBooks
  <2>2. IsList(Tids(heard) \o Tids(line))
    BY <2>1 DEF Shows
  <2>3. CASE log' = <<>>
    BY <2>2, <2>3, NothingShown
  <2>4. ASSUME NEW n, log' = AppendEntry(log, Rx(n)) PROVE Shows(log', Tids(heard) \o Tids(line))
    <3>1. Rx(n) \notin TxLines
      BY DEF Rx, TxLines
    <3>. QED  BY <2>1, <2>4, <3>1, OtherShown
  <2>. QED  BY <2>1, <2>3, <2>4
<1>2. Shows(log, Tids(heard) \o Tids(line))'
  BY <1>1 DEF Shows, EndsAs, Tids
<1>3. \A k \in 1 .. Len(line') : Understood(line[k])'
  BY DEF PathBooks, Understood, AskIn, Framed
<1>. QED  BY <1>2, <1>3 DEF PathBooks

\* completeRequest() leaves a list of requests.
LEMMA Completed ==
    ASSUME PathBooks, NEW k \in DOMAIN pending, NEW pdu, CompleteRequest(k, pdu)
    PROVE  pending' \in Seq(PendingRequests)
  BY RemovedIsList DEF PathBooks, CompleteRequest

\* The books hold after handleTimeout().
LEMMA BooksTimeout == ASSUME PathBooks, HandleTimeout PROVE PathBooks'
<1>. DEFINE again     == Chosen(pending, {request \in ToSet(pending) : MayRetry(request)})
            exhausted == Chosen(pending, {request \in ToSet(pending) : ~MayRetry(request)})
            frames == [k \in DOMAIN again |-> FrameFor(again[k])]
            sends == [k \in DOMAIN again |-> Tx(again[k].tid)]
            ends == [k \in DOMAIN exhausted |-> TimeoutLine]
            new == Reverse(frames)
            more == Reverse(sends) \o ends
<1>1. /\ line = <<>> /\ job' = job /\ todo' = todo /\ sent' = sent /\ heard' = heard
      /\ pending' = [k \in DOMAIN again |-> [again[k] EXCEPT !.attempts = @ + 1]]
      /\ line' = new /\ log' = AppendEntries(log, more)
  BY Zenon DEF HandleTimeout
<1>2. again \in Seq(PendingRequests) /\ exhausted \in Seq(PendingRequests)
  BY ChosenIsList DEF PathBooks
<1>. HIDE DEF again, exhausted
<1>. DEFINE n == Len(again)  m == Len(exhausted)
<1>3. /\ n \in Nat /\ DOMAIN again = 1 .. n /\ m \in Nat /\ DOMAIN exhausted = 1 .. m
      /\ \A k \in 1 .. n : again[k] \in PendingRequests
  BY <1>2
<1>. HIDE DEF n, m
<1>4. pending' \in Seq(PendingRequests)
  <2>1. ASSUME NEW k \in 1 .. n PROVE [again[k] EXCEPT !.attempts = @ + 1] \in PendingRequests
    <3>1. again[k] \in PendingRequests
      BY <1>3
    <3>. QED  BY <3>1 DEF PendingRequests
  <2>2. pending' \in [1 .. n -> PendingRequests]
    BY <1>1, <1>3, <2>1
  <2>. HIDE DEF PendingRequests
  <2>. QED  BY <1>3, <2>2
<1>5. /\ IsList(frames) /\ Len(frames) = n /\ IsList(sends) /\ Len(sends) = n
      /\ IsList(ends) /\ Len(ends) = m
  BY <1>3, FunctionIsList
<1>6. ASSUME NEW k \in 1 .. n PROVE Understood(frames[k]) /\ sends[k] = Tx(frames[k].tid)
  <2>1. job \in Jobs /\ again[k] \in PendingRequests /\ frames[k] = FrameFor(again[k]) /\ sends[k] = Tx(again[k].tid)
    BY <1>3 DEF PathBooks
  <2>. QED  BY <2>1, FramesAreUnderstood
<1>7. \A k \in 1 .. m : ends[k] \notin TxLines
  BY <1>3 DEF TimeoutLine, TxLines
<1>. HIDE DEF frames, sends, ends
<1>8. IsList(new) /\ Len(new) = n /\ \A k \in 1 .. n : new[k] = frames[(n - k) + 1]
  BY <1>5, Reversed
<1>. DEFINE front == Reverse(sends)
<1>9. IsList(front) /\ Len(front) = n /\ \A k \in 1 .. n : front[k] = sends[(n - k) + 1]
  BY <1>5, Reversed
<1>10. IsJoined(more, front, ends)
  BY <1>5, <1>9, Joined
<1>. HIDE DEF new, front, more
<1>11. IsList(more) /\ Len(more) = n + m
  BY <1>5, <1>9, <1>10 DEF IsJoined
<1>12. \A k \in 1 .. n : Understood(new[k])
  <2>1. ASSUME NEW k \in 1 .. n PROVE Understood(new[k])
    <3>1. (n - k) + 1 \in 1 .. n
      BY <1>3
    <3>. QED  BY <1>6, <1>8, <3>1
  <2>. QED  BY <2>1
<1>13. ASSUME NEW k \in 1 .. n + m
       PROVE  IF k <= n THEN more[k] = Tx(new[k].tid) ELSE more[k] \notin TxLines
  <2>1. CASE k <= n
    <3>1. k \in 1 .. n /\ (n - k) + 1 \in 1 .. n
      BY <1>3, <2>1
    <3>2. more[k] = front[k]
      BY <1>9, <1>10, <3>1 DEF IsJoined
    <3>. QED  BY <1>6, <1>8, <1>9, <2>1, <3>1, <3>2
  <2>2. CASE ~(k <= n)
    <3>. DEFINE i == k - n
    <3>1. i \in 1 .. m /\ k = n + i
      BY <1>3, <2>2
    <3>. HIDE DEF i
    <3>2. more[n + i] = ends[i]
      BY <1>5, <1>9, <1>10, <3>1 DEF IsJoined
    <3>. QED  BY <1>7, <2>2, <3>1, <3>2
  <2>. QED  BY <2>1, <2>2
<1>14. /\ Shows(AppendEntries(log, more), Tids(heard) \o Tids(line \o new))
       /\ IsList(line \o new) /\ \A k \in 1 .. Len(line \o new) : Understood((line \o new)[k])
  <2>1. /\ Len(new) <= Len(more) /\ \A k \in 1 .. Len(new) : Understood(new[k])
        /\ \A k \in 1 .. Len(more) : IF k <= Len(new) THEN more[k] = Tx(new[k].tid) ELSE more[k] \notin TxLines
    <3>1. Len(new) <= Len(more)
      BY <1>3, <1>8, <1>11
    <3>2. \A k \in 1 .. Len(new) : Understood(new[k])
      BY <1>8, <1>12
    <3>3. \A k \in 1 .. Len(more) : IF k <= Len(new) THEN more[k] = Tx(new[k].tid) ELSE more[k] \notin TxLines
      BY <1>8, <1>11, <1>13
    <3>. QED  BY <3>1, <3>2, <3>3
  <2>. QED  BY <1>8, <1>11, <2>1, SentAreShown
<1>15. line \o new = line'
  <2>. DEFINE none == <<>>
  <2>1. IsJoined(none \o new, none, new) /\ Len(none) = 0
    BY <1>8, Empty, Joined
  <2>. DEFINE all == none \o new
  <2>. HIDE DEF none
  <2>2. IsJoined(all, none, new)
    BY <2>1
  <2>. HIDE DEF all
  <2>3. IsList(all) /\ Len(all) = n /\ \A i \in 1 .. n : all[i] = new[i]
    BY <1>3, <1>8, <2>1, <2>2 DEF IsJoined
  <2>4. all = new
    BY <1>8, <2>3, SameList
  <2>. QED  BY <1>1, <2>4 DEF all, none
<1>16. /\ Shows(log', Tids(heard) \o Tids(line'))
       /\ IsList(line') /\ \A k \in 1 .. Len(line') : Understood(line'[k])
  BY <1>1, <1>14, <1>15
<1>17. job' \in Jobs /\ todo' \in Seq(Seq(PossibleAsks)) /\ sent' \in Nat
       /\ IsList(heard')
  BY <1>1 DEF PathBooks
<1>18. \A k \in 1 .. Len(line') : Understood(line[k])'
  BY <1>1, <1>16 DEF Understood, AskIn, Framed
<1>19. Shows(log, Tids(heard) \o Tids(line))'
  BY <1>1, <1>16 DEF Shows, EndsAs, Tids
<1>. QED  BY <1>4, <1>16, <1>17, <1>18, <1>19 DEF PathBooks

\* The books hold at all times.
LEMMA BooksInductive == Spec => []PathBooks
<1>1. Init => PathBooks
  BY BooksStart
<1>2. PathBooks /\ [Next]_vars => PathBooks'
  <2>. SUFFICES ASSUME PathBooks, [Next]_vars PROVE PathBooks'
    OBVIOUS
  <2>1. pending \in Seq(PendingRequests)
    BY DEF PathBooks
  <2>2. CASE SendRequests
    BY <2>2, BooksSend
  <2>3. CASE DeviceAnswers
    BY <2>3, BooksAnswer
  <2>4. ASSUME NEW n \in DOMAIN wire, DataReceived(n) PROVE PathBooks'
    BY <2>1, <2>4, BooksReceive DEF DataReceived
  <2>5. CASE ConsumeTcpFrame
    <3>1. UNCHANGED <<job, todo, sent, line, heard>>
      BY <2>5 DEF ConsumeTcpFrame, deviceVars
    <3>2. \E n : log' = AppendEntry(log, Rx(n))
      BY <2>5 DEF ConsumeTcpFrame, Cut
    <3>3. pending' \in Seq(PendingRequests)
      <4>1. CASE pending' = pending
        BY <2>1, <4>1
      <4>2. ASSUME NEW k \in DOMAIN pending, NEW pdu, CompleteRequest(k, pdu) PROVE pending' \in Seq(PendingRequests)
        BY <4>2, Completed
      <4>3. pending' = pending \/ \E k \in DOMAIN pending : \E pdu : CompleteRequest(k, pdu)
        BY <2>5, Zenon DEF ConsumeTcpFrame
      <4>. QED  BY <4>1, <4>2, <4>3
    <3>. QED  BY <3>1, <3>2, <3>3, BooksReceive
  <2>6. CASE ConsumeRtuFrame
    <3>1. UNCHANGED <<job, todo, sent, line, heard>>
      BY <2>6 DEF ConsumeRtuFrame, deviceVars
    <3>2. \E n : log' = AppendEntry(log, Rx(n))
      BY <2>6 DEF ConsumeRtuFrame, Cut
    <3>3. pending' \in Seq(PendingRequests)
      <4>1. CASE pending' = pending
        BY <2>1, <4>1
      <4>2. ASSUME NEW pdu, CompleteRequest(1, pdu) PROVE pending' \in Seq(PendingRequests)
        <5>1. pending # <<>>
          BY <2>6 DEF ConsumeRtuFrame
        <5>2. 1 \in DOMAIN pending
          BY <2>1, <5>1
        <5>. QED  BY <4>2, <5>2, Completed
      <4>3. pending' = pending \/ \E pdu : CompleteRequest(1, pdu)
        BY <2>6, Zenon DEF ConsumeRtuFrame
      <4>. QED  BY <4>1, <4>2, <4>3
    <3>. QED  BY <3>1, <3>2, <3>3, BooksReceive
  <2>7. CASE EndConsume
    BY <2>1, <2>7, BooksReceive DEF EndConsume, deviceVars
  <2>8. CASE HandleTimeout
    BY <2>8, BooksTimeout
  <2>9. CASE ClearLog
    BY <2>1, <2>9, BooksReceive DEF ClearLog, deviceVars
  <2>10. CASE UNCHANGED vars
    BY <2>1, <2>10, BooksReceive DEF vars, hostVars, deviceVars
  <2>. QED  BY <2>2, <2>3, <2>4, <2>5, <2>6, <2>7, <2>8, <2>9, <2>10 DEF Next
<1>. QED  BY <1>1, <1>2, PTL DEF Spec

\* For every list of requests, over either framing, whatever is lost or sent again, and
\* whatever computes the checksum at both ends: every frame on its way to the device is
\* by the protocol a request to it - protocol and length of the header, unit id, checksum -,
\* for what the caller asked and under the transaction id of the pending request
\* (encodeReadRequest(), encodeWriteSingle...Request(), encodeMbapFrame(), encodeRtuFrame()).
THEOREM RequestsUnderstood == Spec => []RequestsAreUnderstood
<1>1. PathBooks => RequestsAreUnderstood
  <2>. SUFFICES ASSUME PathBooks, NEW i \in DOMAIN line
                PROVE  /\ IsRequest(line[i].bytes) /\ AskIn(line[i].bytes) = line[i].meant
                       /\ job.framing = "Tcp" => TidIn(line[i].bytes) = line[i].tid
    BY DEF RequestsAreUnderstood
  <2>1. Understood(line[i])
    BY ListIsFunction DEF PathBooks
  <2>2. /\ line[i].bytes = Framed(line[i].tid, EncodeRequest(line[i].meant))
        /\ line[i].tid \in Nat /\ line[i].meant \in PossibleAsks /\ job \in Jobs
    BY <2>1 DEF Understood, PathBooks
  <2>. QED  BY <2>2, RequestFrame
<1>. QED  BY <1>1, BooksInductive, PTL

\* The log panel shows the last frames sent, in the order the device is given them, and
\* never more than MaxEntries lines (append(), frameSent(), handleTimeout()).
THEOREM LogCorrect == Spec => []LogIsTheTail
<1>1. PathBooks => LogIsTheTail
  <2>. SUFFICES ASSUME PathBooks PROVE LogIsTheTail
    OBVIOUS
  <2>. DEFINE given == Tids(heard) \o Tids(line)  shown == Chosen(log, TxLines)
  <2>1. Shows(log, given)
    BY DEF PathBooks
  <2>2. IsList(shown)
    BY <2>1, ChosenIsList, AList DEF Shows, IsList
  <2>3. Len(log) <= MaxEntries /\ IsSuffix([i \in DOMAIN shown |-> shown[i].summary], given)
    BY <2>1, <2>2, EndsAsSuffix DEF Shows
  <2>. QED  BY <2>3 DEF LogIsTheTail, Tids
<1>. QED  BY <1>1, BooksInductive, PTL

-----------------------------------------------------------------------------
(* Streams of answers.                                                     *)

\* Joining is associative.
LEMMA Regrouped ==
    ASSUME NEW a, IsList(a), NEW b, IsList(b), NEW c, IsList(c)
    PROVE  (a \o b) \o c = a \o (b \o c)
<1>. DEFINE ab == a \o b  bc == b \o c  x == ab \o c  y == a \o bc
            l == Len(a)  m == Len(b)  n == Len(c)
<1>1. l \in Nat /\ m \in Nat /\ n \in Nat
  BY ListIsFunction
<1>2. IsJoined(ab, a, b) /\ IsJoined(bc, b, c)
  BY Joined
<1>. HIDE DEF ab, bc
<1>3. IsJoined(x, ab, c) /\ IsJoined(y, a, bc)
  <2>1. IsList(ab) /\ IsList(bc)
    BY <1>2 DEF IsJoined
  <2>. QED  BY <2>1, Joined, Zenon
<1>. HIDE DEF x, y
<1>4. /\ Len(ab) = l + m /\ \A i \in 1 .. l : ab[i] = a[i]
      /\ \A i \in 1 .. m : ab[l + i] = b[i]
      /\ Len(bc) = m + n /\ \A i \in 1 .. m : bc[i] = b[i]
      /\ \A i \in 1 .. n : bc[m + i] = c[i]
  BY <1>2 DEF IsJoined
<1>5. /\ IsList(x) /\ Len(x) = (l + m) + n /\ \A i \in 1 .. l + m : x[i] = ab[i]
      /\ \A i \in 1 .. n : x[(l + m) + i] = c[i]
  BY <1>3, <1>4, Zenon DEF IsJoined
<1>6. /\ IsList(y) /\ Len(y) = l + (m + n) /\ \A i \in 1 .. l : y[i] = a[i]
      /\ \A i \in 1 .. m + n : y[l + i] = bc[i]
  BY <1>3, <1>4, Zenon DEF IsJoined
<1>. HIDE DEF l, m, n
<1>7. ASSUME NEW k \in 1 .. (l + m) + n PROVE x[k] = y[k]
  <2>1. CASE k <= l
    <3>1. k \in 1 .. l /\ k \in 1 .. l + m
      BY <1>1, <2>1
    <3>. QED  BY <1>4, <1>5, <1>6, <3>1
  <2>2. CASE k > l /\ k <= l + m
    <3>. DEFINE i == k - l
    <3>1. i \in 1 .. m /\ i \in 1 .. m + n /\ k = l + i /\ k \in 1 .. l + m
      BY <1>1, <2>2
    <3>. HIDE DEF i
    <3>2. x[k] = ab[l + i] /\ y[k] = bc[i]
      BY <1>5, <1>6, <3>1
    <3>. QED  BY <1>4, <3>1, <3>2
  <2>3. CASE k > l + m
    <3>. DEFINE i == k - (l + m)
    <3>1. i \in 1 .. n /\ m + i \in 1 .. m + n /\ k = l + (m + i) /\ k = (l + m) + i
      BY <1>1, <2>3
    <3>. HIDE DEF i
    <3>2. x[k] = c[i] /\ y[k] = bc[m + i]
      BY <1>5, <1>6, <3>1
    <3>. QED  BY <1>4, <3>1, <3>2
  <2>. QED  BY <1>1, <2>1, <2>2, <2>3
<1>8. x = y
  <2>1. Len(x) = Len(y)
    BY <1>1, <1>5, <1>6
  <2>. QED  BY <1>5, <1>6, <1>7, <2>1, SameList
<1>. QED  BY <1>8 DEF x, y, ab, bc

\* Joining nothing changes nothing.
LEMMA NothingJoined ==
    ASSUME NEW a, IsList(a)
    PROVE  <<>> \o a = a /\ a \o <<>> = a
<1>. DEFINE none == <<>>  b == none \o a  c == a \o none
<1>1. IsList(none) /\ Len(none) = 0 /\ Len(a) \in Nat
  BY Empty, ListIsFunction
<1>. HIDE DEF none
<1>2. IsJoined(b, none, a) /\ IsJoined(c, a, none)
  BY <1>1, Joined
<1>. HIDE DEF b, c
<1>3. IsList(b) /\ Len(b) = Len(a) /\ \A i \in 1 .. Len(b) : b[i] = a[i]
  BY <1>1, <1>2 DEF IsJoined
<1>4. IsList(c) /\ Len(c) = Len(a) /\ \A i \in 1 .. Len(c) : c[i] = a[i]
  BY <1>1, <1>2 DEF IsJoined
<1>5. b = a /\ c = a
  BY <1>3, <1>4, SameList
<1>. QED  BY <1>5 DEF b, c, none

\* A list that is two lists in two ways: what the longer first one has more stands in
\* front of the second.
LEMMA CutOff ==
    ASSUME NEW a, IsList(a), NEW b, IsList(b), NEW c, IsList(c), NEW d, IsList(d),
           a \o b = c \o d, Len(c) <= Len(a)
    PROVE  /\ SubSeq(a, 1, Len(c)) = c
           /\ IsList(SubSeq(a, Len(c) + 1, Len(a)))
           /\ SubSeq(a, Len(c) + 1, Len(a)) \o b = d
<1>. DEFINE l == Len(a)  m == Len(b)  n == Len(c)  r == Len(d)
            all == a \o b  front == SubSeq(a, 1, n)  rear == SubSeq(a, n + 1, l)  x == rear \o b
<1>1. l \in Nat /\ m \in Nat /\ n \in Nat /\ r \in Nat /\ n <= l
  BY ListIsFunction
<1>2. IsJoined(all, a, b) /\ IsJoined(all, c, d)
  BY Joined
<1>. HIDE DEF all
<1>3. /\ Len(all) = l + m /\ \A i \in 1 .. l : all[i] = a[i]
      /\ \A i \in 1 .. m : all[l + i] = b[i]
      /\ Len(all) = n + r /\ \A i \in 1 .. n : all[i] = c[i]
      /\ \A i \in 1 .. r : all[n + i] = d[i]
  BY <1>2 DEF IsJoined
<1>4. IsList(front) /\ Len(front) = n /\ \A i \in 1 .. n : front[i] = a[i]
  <2>1. /\ IsList(front) /\ Len(front) = IF 1 <= n THEN (n - 1) + 1 ELSE 0
        /\ \A i \in 1 .. Len(front) : front[i] = a[(1 - 1) + i]
    BY <1>1, Part
  <2>. HIDE DEF front
  <2>. QED  BY <1>1, <2>1
<1>5. IsList(rear) /\ Len(rear) = l - n /\ \A i \in 1 .. l - n : rear[i] = a[n + i]
  <2>1. n + 1 \in Nat \ {0} /\ l \in Nat /\ l <= Len(a)
    BY <1>1
  <2>2. /\ IsList(rear) /\ Len(rear) = IF n + 1 <= l THEN (l - (n + 1)) + 1 ELSE 0
        /\ \A i \in 1 .. Len(rear) : rear[i] = a[((n + 1) - 1) + i]
    BY <2>1, Part
  <2>. HIDE DEF rear
  <2>3. Len(rear) = l - n /\ \A i \in Nat : ((n + 1) - 1) + i = n + i
    BY <1>1, <2>2
  <2>. HIDE DEF n, l
  <2>4. ASSUME NEW i \in 1 .. l - n PROVE rear[i] = a[n + i]
    <3>1. i \in Nat /\ i \in 1 .. Len(rear)
      BY <1>1, <2>3
    <3>. QED  BY <2>2, <2>3, <3>1
  <2>. QED  BY <2>2, <2>3, <2>4
<1>. HIDE DEF front, rear, l, m, n, r
<1>6. front = c
  <2>1. \A i \in 1 .. n : front[i] = c[i]
    BY <1>1, <1>3, <1>4
  <2>. QED  BY <1>4, <2>1, SameList DEF n
<1>7. IsJoined(x, rear, b)
  BY <1>5, Joined
<1>. HIDE DEF x
<1>8. /\ IsList(x) /\ Len(x) = (l - n) + m /\ \A i \in 1 .. l - n : x[i] = rear[i]
      /\ \A i \in 1 .. m : x[(l - n) + i] = b[i]
  BY <1>5, <1>7, Zenon DEF IsJoined, m
<1>9. Len(x) = r
  BY <1>1, <1>3, <1>8
<1>10. ASSUME NEW k \in 1 .. r PROVE x[k] = d[k]
  <2>1. all[n + k] = d[k]
    BY <1>3
  <2>2. CASE k <= l - n
    <3>1. k \in 1 .. l - n /\ n + k \in 1 .. l
      BY <1>1, <2>2
    <3>. QED  BY <1>3, <1>5, <1>8, <2>1, <3>1
  <2>3. CASE ~(k <= l - n)
    <3>. DEFINE i == k - (l - n)
    <3>1. i \in 1 .. m /\ k = (l - n) + i /\ n + k = l + i
      BY <1>1, <1>3, <2>3
    <3>. HIDE DEF i
    <3>2. x[k] = b[i] /\ all[n + k] = b[i]
      BY <1>3, <1>8, <3>1
    <3>. QED  BY <2>1, <3>2
  <2>. QED  BY <2>2, <2>3
<1>11. x = d
  BY <1>8, <1>9, <1>10, SameList DEF r
<1>. QED  BY <1>5, <1>6, <1>11 DEF front, rear, x, l, n
\* A list is its first n members and then the others.
LEMMA SplitAt ==
    ASSUME NEW s, IsList(s), NEW n \in 0 .. Len(s)
    PROVE  /\ IsList(SubSeq(s, 1, n)) /\ IsList(SubSeq(s, n + 1, Len(s)))
           /\ SubSeq(s, 1, n) \o SubSeq(s, n + 1, Len(s)) = s
<1>. DEFINE l == Len(s)  front == SubSeq(s, 1, n)  rear == SubSeq(s, n + 1, l)  x == front \o rear
<1>1. l \in Nat /\ n \in Nat /\ n <= l
  BY ListIsFunction
<1>2. IsList(front) /\ Len(front) = n /\ \A i \in 1 .. n : front[i] = s[i]
  <2>1. /\ IsList(front) /\ Len(front) = IF 1 <= n THEN (n - 1) + 1 ELSE 0
        /\ \A i \in 1 .. Len(front) : front[i] = s[(1 - 1) + i]
    BY <1>1, Part
  <2>. HIDE DEF front
  <2>. QED  BY <1>1, <2>1
<1>3. IsList(rear) /\ Len(rear) = l - n /\ \A i \in 1 .. l - n : rear[i] = s[n + i]
  <2>1. n + 1 \in Nat \ {0} /\ l \in Nat /\ l <= Len(s)
    BY <1>1
  <2>2. /\ IsList(rear) /\ Len(rear) = IF n + 1 <= l THEN (l - (n + 1)) + 1 ELSE 0
        /\ \A i \in 1 .. Len(rear) : rear[i] = s[((n + 1) - 1) + i]
    BY <2>1, Part
  <2>. HIDE DEF rear
  <2>3. Len(rear) = l - n /\ \A i \in Nat : ((n + 1) - 1) + i = n + i
    BY <1>1, <2>2
  <2>. HIDE DEF l
  <2>4. ASSUME NEW i \in 1 .. l - n PROVE rear[i] = s[n + i]
    <3>1. i \in Nat /\ i \in 1 .. Len(rear)
      BY <1>1, <2>3
    <3>. QED  BY <2>2, <2>3, <3>1
  <2>. QED  BY <2>2, <2>3, <2>4
<1>. HIDE DEF front, rear
<1>4. IsJoined(x, front, rear)
  BY <1>2, <1>3, Joined, Zenon
<1>. HIDE DEF x
<1>5. /\ IsList(x) /\ Len(x) = n + (l - n) /\ \A i \in 1 .. n : x[i] = front[i]
      /\ \A i \in 1 .. l - n : x[n + i] = rear[i]
  BY <1>2, <1>3, <1>4, Zenon DEF IsJoined
<1>6. ASSUME NEW i \in 1 .. l PROVE x[i] = s[i]
  <2>1. CASE i <= n
    <3>1. i \in 1 .. n
      BY <1>1, <2>1
    <3>. QED  BY <1>2, <1>5, <3>1
  <2>2. CASE ~(i <= n)
    <3>. DEFINE j == i - n
    <3>1. j \in 1 .. l - n /\ i = n + j
      BY <1>1, <2>2
    <3>. HIDE DEF j
    <3>. QED  BY <1>3, <1>5, <3>1
  <2>. QED  BY <2>1, <2>2
<1>7. Len(x) = l
  BY <1>1, <1>5
<1>8. x = s
  <2>. HIDE DEF l
  <2>1. Len(x) = Len(s)
    BY <1>7 DEF l
  <2>. QED  BY <1>5, <1>6, <1>7, <2>1, SameList
<1>. QED  BY <1>2, <1>3, <1>8 DEF x, front, rear, l

-----------------------------------------------------------------------------
(* The frame of an answer, and the head of the buffer.                     *)

IsAnswerPdu(pdu) ==
    /\ IsList(pdu)
    /\ \/ pdu[1] \in 129 .. 134 /\ Len(pdu) = 2
       \/ pdu[1] \in {5, 6} /\ Len(pdu) = 5
       \/ pdu[1] \in ReadCodes /\ pdu[2] \in Nat /\ Len(pdu) = 2 + pdu[2]

IsTcpAnswer(frame, tid, pdu) ==
    /\ IsList(frame) /\ Len(frame) >= 7
    /\ ReadBigEndianU16(frame, 1) = tid /\ ReadBigEndianU16(frame, 3) = 0
    /\ ReadBigEndianU16(frame, 5) \in Nat /\ FrameSize(ReadBigEndianU16(frame, 5)) = Len(frame)
    /\ SubSeq(frame, 8, Len(frame)) = pdu

IsRtuAnswer(frame, pdu) ==
    /\ IsList(frame) /\ Len(frame) >= 5
    /\ ExpectedRtuResponseLength(frame) = Len(frame) /\ IsRtuFrame(frame)
    /\ SubSeq(frame, 2, Len(frame) - 2) = pdu

\* The frame of the answer to the request with this transaction id, which says pdu.
IsAnswer(framing, frame, tid, pdu) ==
    IF framing = "Tcp" THEN IsTcpAnswer(frame, tid, pdu) ELSE IsRtuAnswer(frame, pdu)

\* Two parts of lists that agree are the same.
LEMMA SameParts ==
    ASSUME NEW s, IsList(s), NEW t, IsList(t), NEW first \in Nat \ {0}, NEW d \in Nat, NEW last \in Nat,
           last <= Len(s), d + Len(t) = last, first = d + 1, \A i \in 1 .. Len(t) : s[d + i] = t[i]
    PROVE  SubSeq(s, first, last) = t
<1>. DEFINE part == SubSeq(s, first, last)
<1>1. /\ IsList(part) /\ Len(part) = IF first <= last THEN (last - first) + 1 ELSE 0
      /\ \A i \in 1 .. Len(part) : part[i] = s[(first - 1) + i]
  BY Part
<1>. HIDE DEF part
<1>2. Len(t) \in Nat
  BY ListIsFunction
<1>3. Len(part) = Len(t) /\ \A i \in 1 .. Len(part) : part[i] = s[d + i]
  BY <1>1, <1>2
<1>4. \A i \in 1 .. Len(part) : part[i] = t[i]
  BY <1>3
<1>5. part = t
  BY <1>1, <1>3, <1>4, SameList
<1>. QED  BY <1>5 DEF part

\* The frame of an answer announces its own length.
LEMMA AnswersAnnounce ==
    ASSUME NEW tid \in Nat, NEW pdu, IsAnswerPdu(pdu)
    PROVE  IsAnswer(job.framing, Framed(tid, pdu), tid, pdu)
<1>. DEFINE tcp == EncodeMbapFrame(tid, UnitId, pdu)  rtu == EncodeRtuFrame(UnitId, pdu)
<1>1. IsList(pdu) /\ Len(pdu) \in Nat /\ Len(pdu) >= 2
  <2>1. IsList(pdu) /\ Len(pdu) \in Nat
    BY ListIsFunction DEF IsAnswerPdu
  <2>2. Len(pdu) = 2 \/ Len(pdu) = 5 \/ (pdu[2] \in Nat /\ Len(pdu) = 2 + pdu[2])
    BY DEF IsAnswerPdu
  <2>. QED  BY <2>1, <2>2
<1>2. IsTcpAnswer(tcp, tid, pdu)
  <2>1. /\ IsList(tcp) /\ Len(tcp) = Len(pdu) + 7
        /\ ReadBigEndianU16(tcp, 1) = tid /\ ReadBigEndianU16(tcp, 3) = 0
        /\ ReadBigEndianU16(tcp, 5) = 1 + Len(pdu)
        /\ \A i \in 1 .. Len(pdu) : tcp[7 + i] = pdu[i]
    <3>. HIDE DEF UnitId
    <3>. QED  BY <1>1, MbapFrameParts
  <2>. HIDE DEF tcp
  <2>2. SubSeq(tcp, 8, Len(tcp)) = pdu
    <3>. DEFINE last == Len(tcp)  first == 8  d == 7
    <3>1. /\ first \in Nat \ {0} /\ d \in Nat /\ last \in Nat /\ last <= Len(tcp) /\ d + Len(pdu) = last
          /\ first = d + 1 /\ \A i \in 1 .. Len(pdu) : tcp[d + i] = pdu[i]
      BY <1>1, <2>1
    <3>. HIDE DEF last, first, d
    <3>2. IsList(tcp) /\ IsList(pdu)
      BY <1>1, <2>1
    <3>3. SubSeq(tcp, first, last) = pdu
      BY <3>1, <3>2, SameParts
    <3>. QED  BY <3>3 DEF first, last
  <2>. QED  BY <1>1, <2>1, <2>2 DEF IsTcpAnswer, FrameSize
<1>3. IsRtuAnswer(rtu, pdu)
  <2>1. /\ IsList(rtu) /\ Len(rtu) = Len(pdu) + 3
        /\ \A i \in 1 .. Len(pdu) : rtu[1 + i] = pdu[i]
        /\ IsRtuFrame(rtu)
    <3>. HIDE DEF UnitId
    <3>. QED  BY <1>1, RtuFrameParts
  <2>. HIDE DEF rtu
  <2>2. rtu[2] = pdu[1] /\ rtu[3] = pdu[2]
    <3>1. 1 \in 1 .. Len(pdu) /\ 2 \in 1 .. Len(pdu)
      BY <1>1
    <3>2. rtu[1 + 1] = pdu[1] /\ rtu[1 + 2] = pdu[2]
      BY <2>1, <3>1
    <3>. QED  BY <3>2
  <2>3. Len(rtu) >= 5
    BY <1>1, <2>1
  <2>4. ExpectedRtuResponseLength(rtu) = Len(rtu)
    <3>1. CASE pdu[1] \in 129 .. 134 /\ Len(pdu) = 2
      BY <2>1, <2>2, <2>3, <3>1 DEF ExpectedRtuResponseLength, IsExceptionResponseFunctionCode, WriteCodes, ReadCodes
    <3>2. CASE pdu[1] \in {5, 6} /\ Len(pdu) = 5
      BY <2>1, <2>2, <2>3, <3>2 DEF ExpectedRtuResponseLength, IsExceptionResponseFunctionCode, WriteCodes, ReadCodes
    <3>3. CASE pdu[1] \in ReadCodes /\ pdu[2] \in Nat /\ Len(pdu) = 2 + pdu[2]
      BY <2>1, <2>2, <2>3, <3>3 DEF ExpectedRtuResponseLength, IsExceptionResponseFunctionCode, WriteCodes, ReadCodes
    <3>. QED  BY <3>1, <3>2, <3>3 DEF IsAnswerPdu
  <2>5. SubSeq(rtu, 2, Len(rtu) - 2) = pdu
    <3>. DEFINE last == Len(rtu) - 2  first == 2  d == 1
    <3>1. /\ first \in Nat \ {0} /\ d \in Nat /\ last \in Nat /\ last <= Len(rtu) /\ d + Len(pdu) = last
          /\ first = d + 1 /\ \A i \in 1 .. Len(pdu) : rtu[d + i] = pdu[i]
      BY <1>1, <2>1
    <3>. HIDE DEF last, first, d
    <3>2. IsList(rtu) /\ IsList(pdu)
      BY <1>1, <2>1
    <3>3. SubSeq(rtu, first, last) = pdu
      BY <3>1, <3>2, SameParts
    <3>. QED  BY <3>3 DEF first, last
  <2>. QED  BY <2>1, <2>3, <2>4, <2>5 DEF IsRtuAnswer
<1>. HIDE DEF tcp, rtu
<1>4. CASE job.framing = "Tcp"
  BY <1>2, <1>4 DEF IsAnswer, Framed, tcp
<1>5. CASE job.framing # "Tcp"
  BY <1>3, <1>5 DEF IsAnswer, Framed, rtu
<1>. QED  BY <1>4, <1>5

\* The frame of an answer is not empty.
LEMMA AnswerIsLong ==
    ASSUME NEW framing, NEW frame, NEW tid, NEW pdu, IsAnswer(framing, frame, tid, pdu)
    PROVE  IsList(frame) /\ Len(frame) \in Nat /\ Len(frame) >= 5
  BY ListIsFunction DEF IsAnswer, IsTcpAnswer, IsRtuAnswer

\* The beginnings of a list and of a longer part of the same bytes agree.
LEMMA SameHead ==
    ASSUME NEW a, IsList(a), NEW b, IsList(b), NEW c, IsList(c), NEW d, IsList(d), a \o b = c \o d
    PROVE  \A i \in Nat \ {0} : i <= Len(a) /\ i <= Len(c) => a[i] = c[i]
<1>. DEFINE x == a \o b
<1>1. IsJoined(x, a, b) /\ IsJoined(x, c, d)
  BY Joined
<1>. HIDE DEF x
<1>2. Len(a) \in Nat /\ Len(c) \in Nat
  BY ListIsFunction
<1>. SUFFICES ASSUME NEW i \in Nat \ {0}, i <= Len(a), i <= Len(c) PROVE a[i] = c[i]
  OBVIOUS
<1>3. i \in 1 .. Len(a) /\ i \in 1 .. Len(c)
  BY <1>2
<1>. QED  BY <1>1, <1>3 DEF IsJoined

\* decodeMbapFrame() finds exactly this frame, once it is whole.
FindsTcp(have, frame, tid, pdu) ==
    IF Len(have) < Len(frame) THEN DecodeMbapFrame(have) = <<>>
    ELSE DecodeMbapFrame(have) = <<[tid |-> tid, pdu |-> pdu, size |-> Len(frame)]>>

\* decodeMbapFrame() finds the frame at the head of the buffer when it is there whole.
LEMMA TcpHead ==
    ASSUME NEW tid, NEW pdu, NEW frame, IsTcpAnswer(frame, tid, pdu), NEW tail, IsList(tail),
           NEW have, IsList(have), NEW more, IsList(more), have \o more = frame \o tail
    PROVE  FindsTcp(have, frame, tid, pdu)
<1>1. Len(have) \in Nat /\ Len(frame) \in Nat /\ Len(frame) >= 7 /\ IsList(frame)
  BY ListIsFunction DEF IsTcpAnswer
<1>2. CASE Len(have) < 7
  BY <1>1, <1>2 DEF DecodeMbapFrame, FindsTcp
<1>3. CASE Len(have) >= 7
  <2>1. \A i \in 1 .. 7 : have[i] = frame[i]
    <3>1. \A i \in Nat \ {0} : i <= Len(have) /\ i <= Len(frame) => have[i] = frame[i]
      BY <1>1, SameHead
    <3>. QED  BY <1>1, <1>3, <3>1
  <2>2. /\ ReadBigEndianU16(have, 1) = ReadBigEndianU16(frame, 1)
        /\ ReadBigEndianU16(have, 3) = ReadBigEndianU16(frame, 3)
        /\ ReadBigEndianU16(have, 5) = ReadBigEndianU16(frame, 5)
    BY <2>1 DEF ReadBigEndianU16
  <2>3. /\ ReadBigEndianU16(have, 1) = tid /\ ReadBigEndianU16(have, 3) = 0
        /\ FrameSize(ReadBigEndianU16(have, 5)) = Len(frame)
    BY <2>2 DEF IsTcpAnswer
  <2>. DEFINE length == ReadBigEndianU16(have, 5)  data == Mid(have, 8, length - 1)
  <2>4. ~(Len(have) < 7)
    BY <1>1, <1>3
  <2>5. DecodeMbapFrame(have) = IF Len(have) < Len(frame) THEN <<>>
                                ELSE <<[tid |-> tid, pdu |-> data, size |-> Len(frame)]>>
    BY <2>3, <2>4, Zenon DEF DecodeMbapFrame
  <2>6. ASSUME ~(Len(have) < Len(frame)) PROVE data = pdu
    <3>. DEFINE m == Len(have)  n == Len(frame)  count == length - 1
    <3>1. m \in Nat /\ n \in Nat /\ n >= 7 /\ ~(m < n) /\ 6 + length = n
      BY <1>1, <2>3, <2>6 DEF FrameSize
    <3>2. length \in Int
      BY <2>2 DEF IsTcpAnswer
    <3>. HIDE DEF m, n, length
    <3>3. n <= m /\ ~(count < 0) /\ ~(8 + count - 1 > m) /\ 8 + count - 1 = n
      BY <3>1, <3>2
    <3>4. data = SubSeq(have, 8, n)
      BY <3>3 DEF Mid, m
    <3>5. SubSeq(frame, 8, n) = pdu
      BY DEF IsTcpAnswer, n
    <3>6. ASSUME NEW i \in 1 .. n PROVE have[i] = frame[i]
      <4>1. i \in Nat \ {0} /\ i <= m /\ i <= n
        BY <3>1, <3>3
      <4>. QED  BY <1>1, <4>1, SameHead DEF m, n
    <3>7. SubSeq(have, 8, n) = SubSeq(frame, 8, n)
      <4>. DEFINE part == SubSeq(frame, 8, n)  from == 8  d == 7
      <4>1. n <= Len(frame) /\ n <= Len(have) /\ from \in Nat \ {0} /\ from = d + 1 /\ d \in Nat /\ n \in Nat
        BY <1>1, <3>1, <3>3 DEF m, n
      <4>2. /\ IsList(part) /\ Len(part) = IF 8 <= n THEN (n - 8) + 1 ELSE 0
            /\ \A i \in 1 .. Len(part) : part[i] = frame[(8 - 1) + i]
        BY <1>1, <4>1, Part
      <4>. HIDE DEF part
      <4>3. d + Len(part) = n
        BY <3>1, <4>2
      <4>4. \A i \in 1 .. Len(part) : (8 - 1) + i = d + i /\ d + i \in 1 .. n
        BY <3>1, <4>2
      <4>5. \A i \in 1 .. Len(part) : have[d + i] = part[i]
        BY <3>6, <4>2, <4>4
      <4>. HIDE DEF from, d
      <4>6. SubSeq(have, from, n) = part
        <5>1. IsList(have) /\ IsList(part) /\ n <= Len(have) /\ from = d + 1
          BY <4>1, <4>2
        <5>. QED  BY <4>1, <4>3, <4>5, <5>1, SameParts
      <4>. QED  BY <4>6 DEF from, part
    <3>. QED  BY <3>4, <3>5, <3>7
  <2>. HIDE DEF data
  <2>. QED  BY <2>5, <2>6 DEF FindsTcp
<1>. QED  BY <1>1, <1>2, <1>3

\* A frame that ends where it says, whatever else it says.
IsWhole(frame) == IsList(frame) /\ Len(frame) >= 3 /\ ExpectedRtuResponseLength(frame) = Len(frame)

\* consumeRtuFrames() takes these bytes when they are at the head of the buffer.
LEMMA WholeHead ==
    ASSUME NEW frame, IsWhole(frame), NEW tail, IsList(tail),
           NEW have, IsList(have), NEW more, IsList(more), have \o more = frame \o tail
    PROVE  LET length == ExpectedRtuResponseLength(have)
           IN  IF Len(have) < Len(frame) THEN ~(length > 0 /\ Len(have) >= length)
               ELSE length = Len(frame)
<1>. DEFINE length == ExpectedRtuResponseLength(have)
<1>1. /\ Len(have) \in Nat /\ Len(frame) \in Nat /\ Len(frame) >= 3 /\ IsList(frame)
      /\ ExpectedRtuResponseLength(frame) = Len(frame)
  BY ListIsFunction DEF IsWhole
<1>2. \A i \in Nat \ {0} : i <= Len(have) /\ i <= Len(frame) => have[i] = frame[i]
  BY <1>1, SameHead
<1>. DEFINE Right == IF Len(have) < Len(frame) THEN ~(length > 0 /\ Len(have) >= length) ELSE length = Len(frame)
<1>3. ASSUME Len(have) < 2 PROVE Right
  <2>1. length = 0
    BY <1>1, <1>3 DEF ExpectedRtuResponseLength
  <2>. HIDE DEF length
  <2>. QED  BY <1>1, <1>3, <2>1
<1>4. ASSUME Len(have) = 2 PROVE Right
  <2>1. have[2] = frame[2]
    BY <1>1, <1>2, <1>4
  <2>2. length = 0 \/ length = Len(frame)
    BY <1>1, <1>4, <2>1 DEF ExpectedRtuResponseLength
  <2>. HIDE DEF length
  <2>. QED  BY <1>1, <1>4, <2>2
<1>5. ASSUME Len(have) > 2 PROVE Right
  <2>1. have[2] = frame[2] /\ have[3] = frame[3]
    BY <1>1, <1>2, <1>5
  <2>2. length = Len(frame)
    BY <1>1, <1>5, <2>1 DEF ExpectedRtuResponseLength
  <2>. HIDE DEF length
  <2>. QED  BY <1>1, <1>5, <2>2
<1>. HIDE DEF length
<1>6. Right
  <2>1. Len(have) < 2 \/ Len(have) = 2 \/ Len(have) > 2
    <3>. DEFINE n == Len(have)
    <3>1. n \in Nat
      BY <1>1
    <3>. HIDE DEF n
    <3>2. n < 2 \/ n = 2 \/ n > 2
      BY <3>1
    <3>. QED  BY <3>2 DEF n
  <2>. HIDE DEF Right
  <2>. QED  BY <1>3, <1>4, <1>5, <2>1, Zenon
<1>. QED  BY <1>6, Zenon DEF length, Right

\* The answer to a request is such a frame.
LEMMA AnswerIsWhole == ASSUME NEW frame, NEW pdu, IsRtuAnswer(frame, pdu) PROVE IsWhole(frame)
<1>1. Len(frame) \in Nat /\ Len(frame) >= 5
  BY ListIsFunction DEF IsRtuAnswer
<1>. QED  BY <1>1 DEF IsRtuAnswer, IsWhole

\* consumeRtuFrames() takes the frame at the head of the buffer when it is there whole.
LEMMA RtuHead ==
    ASSUME NEW pdu, NEW frame, IsRtuAnswer(frame, pdu), NEW tail, IsList(tail),
           NEW have, IsList(have), NEW more, IsList(more), have \o more = frame \o tail
    PROVE  LET length == ExpectedRtuResponseLength(have)
           IN  IF Len(have) < Len(frame) THEN ~(length > 0 /\ Len(have) >= length)
               ELSE length = Len(frame)
  BY AnswerIsWhole, WholeHead, Zenon

-----------------------------------------------------------------------------
(* A stream of the answers to n requests, those after the given one; told  *)
(* is what the answer to each request says.                                *)

IsFilled(framing, frames, rest, stream, first, n, told) ==
    /\ rest[0] = stream /\ rest[n] = <<>>
    /\ \A k \in 0 .. n : IsList(rest[k])
    /\ \A k \in 1 .. n : IsAnswer(framing, frames[k], first + k, told[first + k]) /\ rest[k - 1] = frames[k] \o rest[k]

HoldsAnswers(framing, stream, first, n, told) ==
    \E frames, rest : IsFilled(framing, frames, rest, stream, first, n, told)

\* Nothing holds no answers.
LEMMA NoAnswers ==
    ASSUME NEW framing, NEW told, NEW first \in Nat
    PROVE  HoldsAnswers(framing, <<>>, first, 0, told)
<1>. DEFINE rest == [k \in {0} |-> <<>>]
<1>1. IsFilled(framing, <<>>, rest, <<>>, first, 0, told)
  BY Empty DEF IsFilled
<1>. QED  BY <1>1 DEF HoldsAnswers

\* No answers are nothing.
LEMMA NothingHeld ==
    ASSUME NEW framing, NEW told, NEW stream, NEW first \in Nat, HoldsAnswers(framing, stream, first, 0, told)
    PROVE  stream = <<>>
  BY DEF HoldsAnswers, IsFilled

\* Only what these answers say matters.
LEMMA SameTold ==
    ASSUME NEW framing, NEW told, NEW first \in Nat, NEW n \in Nat, NEW stream,
           HoldsAnswers(framing, stream, first, n, told),
           NEW heardNow, \A k \in 1 .. n : heardNow[first + k] = told[first + k]
    PROVE  HoldsAnswers(framing, stream, first, n, heardNow)
<1>1. PICK frames : \E rest : IsFilled(framing, frames, rest, stream, first, n, told)
  BY DEF HoldsAnswers
<1>2. PICK rest : IsFilled(framing, frames, rest, stream, first, n, told)
  BY <1>1
<1>3. ASSUME NEW k \in 1 .. n PROVE IsAnswer(framing, frames[k], first + k, heardNow[first + k])
  <2>1. IsAnswer(framing, frames[k], first + k, told[first + k]) /\ heardNow[first + k] = told[first + k]
    BY <1>2, Zenon DEF IsFilled
  <2>. QED  BY <2>1
<1>4. IsFilled(framing, frames, rest, stream, first, n, heardNow)
  BY <1>2, <1>3, Zenon DEF IsFilled
<1>. QED  BY <1>4, Zenon DEF HoldsAnswers

\* The first answer, and the stream of the others.
LEMMA FirstAnswer ==
    ASSUME NEW framing, NEW told, NEW stream, NEW first \in Nat, NEW n \in Nat \ {0}, HoldsAnswers(framing, stream, first, n, told)
    PROVE  \E frame : IsAnswer(framing, frame, first + 1, told[first + 1]) /\
               \E tail : IsList(tail) /\ stream = frame \o tail /\ HoldsAnswers(framing, tail, first + 1, n - 1, told)
<1>1. PICK frames : \E rest : IsFilled(framing, frames, rest, stream, first, n, told)
  BY DEF HoldsAnswers
<1>2. PICK rest : IsFilled(framing, frames, rest, stream, first, n, told)
  BY <1>1
<1>. DEFINE later == [k \in 1 .. n - 1 |-> frames[k + 1]]
            left == [k \in 0 .. n - 1 |-> rest[k + 1]]
<1>3. 1 \in 1 .. n /\ 1 - 1 = 0 /\ 1 \in 0 .. n
  OBVIOUS
<1>4. IsAnswer(framing, frames[1], first + 1, told[first + 1]) /\ IsList(rest[1]) /\ stream = frames[1] \o rest[1]
  BY <1>2, <1>3 DEF IsFilled
<1>5. left[0] = rest[1] /\ left[n - 1] = <<>>
  <2>1. 0 \in 0 .. n - 1 /\ n - 1 \in 0 .. n - 1 /\ 0 + 1 = 1 /\ (n - 1) + 1 = n
    OBVIOUS
  <2>2. rest[n] = <<>>
    BY <1>2 DEF IsFilled
  <2>. QED  BY <2>1, <2>2
<1>6. \A k \in 0 .. n - 1 : IsList(left[k])
  <2>1. ASSUME NEW k \in 0 .. n - 1 PROVE IsList(left[k])
    <3>1. k + 1 \in 0 .. n
      OBVIOUS
    <3>. QED  BY <1>2, <3>1 DEF IsFilled
  <2>. QED  BY <2>1
<1>7. ASSUME NEW k \in 1 .. n - 1
      PROVE  IsAnswer(framing, later[k], (first + 1) + k, told[(first + 1) + k]) /\ left[k - 1] = later[k] \o left[k]
  <2>1. k + 1 \in 1 .. n /\ (k + 1) - 1 = k /\ first + (k + 1) = (first + 1) + k
        /\ k \in 0 .. n - 1 /\ k - 1 \in 0 .. n - 1 /\ (k - 1) + 1 = k
    OBVIOUS
  <2>2. IsAnswer(framing, frames[k + 1], first + (k + 1), told[first + (k + 1)]) /\ rest[(k + 1) - 1] = frames[k + 1] \o rest[k + 1]
    BY <1>2, <2>1, Zenon DEF IsFilled
  <2>3. later[k] = frames[k + 1] /\ left[k] = rest[k + 1] /\ left[k - 1] = rest[k]
    BY <2>1
  <2>. HIDE DEF later, left
  <2>. QED  BY <2>1, <2>2, <2>3, Zenon
<1>. HIDE DEF later, left
<1>8. HoldsAnswers(framing, rest[1], first + 1, n - 1, told)
  <2>1. IsFilled(framing, later, left, rest[1], first + 1, n - 1, told)
    BY <1>5, <1>6, <1>7, Zenon DEF IsFilled
  <2>. QED  BY <2>1, Zenon DEF HoldsAnswers
<1>. QED  BY <1>4, <1>8, Zenon

\* One more answer at the end.
LEMMA OneMoreAnswer ==
    ASSUME NEW framing, NEW told, NEW stream, NEW first \in Nat, NEW n \in Nat, HoldsAnswers(framing, stream, first, n, told),
           NEW frame, IsAnswer(framing, frame, first + (n + 1), told[first + (n + 1)])
    PROVE  HoldsAnswers(framing, stream \o frame, first, n + 1, told)
<1>1. PICK frames : \E rest : IsFilled(framing, frames, rest, stream, first, n, told)
  BY DEF HoldsAnswers
<1>2. PICK rest : IsFilled(framing, frames, rest, stream, first, n, told)
  BY <1>1
<1>. DEFINE all == [k \in 1 .. n + 1 |-> IF k = n + 1 THEN frame ELSE frames[k]]
            left == [k \in 0 .. n + 1 |-> IF k = n + 1 THEN <<>> ELSE rest[k] \o frame]
<1>3. IsList(frame)
  BY AnswerIsLong
<1>4. \A k \in 0 .. n : IsList(rest[k])
  BY <1>2, Zenon DEF IsFilled
<1>5. left[n + 1] = <<>> /\ \A k \in 0 .. n : left[k] = rest[k] \o frame
  <2>1. ASSUME NEW k \in 0 .. n PROVE k \in 0 .. n + 1 /\ k # n + 1
    OBVIOUS
  <2>2. n + 1 \in 0 .. n + 1
    OBVIOUS
  <2>. QED  BY <2>1, <2>2
<1>6. all[n + 1] = frame /\ \A k \in 1 .. n : all[k] = frames[k]
  <2>1. ASSUME NEW k \in 1 .. n PROVE k \in 1 .. n + 1 /\ k # n + 1
    OBVIOUS
  <2>2. n + 1 \in 1 .. n + 1
    OBVIOUS
  <2>. QED  BY <2>1, <2>2
<1>. HIDE DEF all, left
<1>7. left[0] = stream \o frame
  <2>1. 0 \in 0 .. n /\ rest[0] = stream
    BY <1>2 DEF IsFilled
  <2>. QED  BY <1>5, <2>1, Zenon
<1>8. ASSUME NEW k \in 0 .. n + 1 PROVE IsList(left[k])
  <2>1. CASE k = n + 1
    BY <1>5, <2>1, Empty
  <2>2. CASE k # n + 1
    <3>1. k \in 0 .. n
      BY <2>2
    <3>2. IsJoined(rest[k] \o frame, rest[k], frame)
      BY <1>3, <1>4, <3>1, Joined, Zenon
    <3>3. IsList(rest[k] \o frame)
      BY <3>2, Zenon DEF IsJoined
    <3>. QED  BY <1>5, <3>1, <3>3, Zenon
  <2>. QED  BY <2>1, <2>2
<1>9. ASSUME NEW k \in 1 .. n + 1 PROVE IsAnswer(framing, all[k], first + k, told[first + k]) /\ left[k - 1] = all[k] \o left[k]
  <2>1. CASE k = n + 1
    <3>1. k - 1 = n /\ n \in 0 .. n
      BY <2>1
    <3>2. rest[n] = <<>>
      BY <1>2, Zenon DEF IsFilled
    <3>3. left[n] = <<>> \o frame
      BY <1>5, <3>1, <3>2, Zenon
    <3>4. <<>> \o frame = frame /\ frame \o <<>> = frame
      BY <1>3, NothingJoined, Zenon
    <3>. QED  BY <1>5, <1>6, <2>1, <3>1, <3>3, <3>4, Zenon
  <2>2. CASE k # n + 1
    <3>1. k \in 1 .. n /\ k \in 0 .. n /\ k - 1 \in 0 .. n
      BY <2>2
    <3>2. IsAnswer(framing, frames[k], first + k, told[first + k]) /\ rest[k - 1] = frames[k] \o rest[k]
      BY <1>2, <3>1, Zenon DEF IsFilled
    <3>3. IsList(frames[k]) /\ IsList(rest[k])
      BY <1>4, <3>1, <3>2, AnswerIsLong, Zenon
    <3>4. (frames[k] \o rest[k]) \o frame = frames[k] \o (rest[k] \o frame)
      <4>. DEFINE a == frames[k]  b == rest[k]
      <4>1. IsList(a) /\ IsList(b)
        BY <3>3
      <4>. HIDE DEF a, b
      <4>2. (a \o b) \o frame = a \o (b \o frame)
        BY <1>3, <4>1, Regrouped
      <4>. QED  BY <4>2 DEF a, b
    <3>5. left[k - 1] = rest[k - 1] \o frame /\ left[k] = rest[k] \o frame
      BY <1>5, <3>1, Zenon
    <3>. QED  BY <1>6, <3>1, <3>2, <3>4, <3>5, Zenon
  <2>. QED  BY <2>1, <2>2
<1>10. IsFilled(framing, all, left, stream \o frame, first, n + 1, told)
  BY <1>5, <1>7, <1>8, <1>9, Zenon DEF IsFilled
<1>. QED  BY <1>10, Zenon DEF HoldsAnswers

\* An answer with data, and one to a write.
IsReadAnswer(pdu, code, data) ==
    /\ IsList(pdu) /\ Len(pdu) = 2 + Len(data) /\ Len(data) \in Nat
    /\ pdu[1] = code /\ pdu[2] = Len(data)
    /\ \A i \in 1 .. Len(data) : pdu[2 + i] = data[i]

\* The bytes of an answer with data.
LEMMA ReadAnswerParts ==
    ASSUME NEW code, NEW data, IsList(data)
    PROVE  IsReadAnswer((<<code>> \o <<Len(data)>>) \o data, code, data)
<1>. DEFINE front == <<code>>  middle == <<Len(data)>>  head == front \o middle  pdu == head \o data
<1>1. /\ IsList(front) /\ Len(front) = 1 /\ front[1] = code
      /\ IsList(middle) /\ Len(middle) = 1 /\ middle[1] = Len(data)
  BY OneMember
<1>. HIDE DEF front, middle
<1>2. IsJoined(head, front, middle)
  BY <1>1, Joined
<1>. HIDE DEF head
<1>3. IsList(head) /\ Len(head) = 2 /\ head[1] = code /\ head[2] = Len(data)
  <2>1. head[1 + 1] = Len(data)
    BY <1>1, <1>2 DEF IsJoined
  <2>. QED  BY <1>1, <1>2, <2>1 DEF IsJoined
<1>4. IsJoined(pdu, head, data)
  BY <1>3, Joined
<1>. HIDE DEF pdu
<1>5. IsReadAnswer(pdu, code, data)
  BY <1>3, <1>4 DEF IsJoined, IsReadAnswer
<1>. QED  BY <1>5 DEF pdu, head, front, middle

IsWriteAnswer(pdu, code, data) ==
    /\ IsList(pdu) /\ Len(pdu) = 1 + Len(data) /\ Len(data) \in Nat /\ pdu[1] = code
    /\ \A i \in 1 .. Len(data) : pdu[1 + i] = data[i]

\* The bytes of an answer to a write.
LEMMA WriteAnswerParts ==
    ASSUME NEW code, NEW data, IsList(data)
    PROVE  IsWriteAnswer((<<code>> \o <<>>) \o data, code, data)
<1>. DEFINE front == <<code>>  none == <<>>  head == front \o none  pdu == head \o data
<1>1. IsList(front) /\ Len(front) = 1 /\ front[1] = code
  BY OneMember
<1>. HIDE DEF front
<1>2. head = front
  BY <1>1, NothingJoined
<1>. HIDE DEF head
<1>3. IsJoined(pdu, front, data)
  BY <1>1, <1>2, Joined
<1>. HIDE DEF pdu
<1>4. IsWriteAnswer(pdu, code, data)
  BY <1>1, <1>3 DEF IsJoined, IsWriteAnswer
<1>. QED  BY <1>4 DEF pdu, head, front, none

\* The device's answer to a request is one the host can cut out of the stream.
LEMMA DeviceKeepsProtocol ==
    ASSUME NEW ask \in PossibleAsks
    PROVE  IsAnswerPdu(AnswerPdu(ask, AnswerTo(ask)))
<1>. DEFINE answer == AnswerTo(ask)  data == DataBytes(ask, answer.values)
<1>1. ask.code \in 1 .. 6 /\ ask.argument \in Nat
  <2>1. ask.code \in 1 .. 6 /\ ask.argument \in Register
    BY DEF PossibleAsks
  <2>2. \A n \in Register : n \in Nat
    BY RegisterBounds
  <2>. HIDE DEF answer, data
  <2>. QED  BY <2>1, <2>2, Zenon
<1>2. CASE ~Knows(ask)
  <2>1. answer = [status |-> "exception", values |-> <<2>>]
    BY <1>2 DEF AnswerTo, Exception
  <2>. DEFINE front == <<ask.code + 128>>  rear == <<2>>  pdu == front \o rear
  <2>2. AnswerPdu(ask, answer) = pdu
    BY <2>1 DEF AnswerPdu
  <2>3. IsList(front) /\ Len(front) = 1 /\ front[1] = ask.code + 128 /\ IsList(rear) /\ Len(rear) = 1
    BY OneMember
  <2>. HIDE DEF front, rear
  <2>4. IsJoined(pdu, front, rear)
    BY <2>3, Joined, Zenon
  <2>. HIDE DEF pdu
  <2>5. IsList(pdu) /\ Len(pdu) = 2 /\ pdu[1] = ask.code + 128
    BY <2>3, <2>4 DEF IsJoined
  <2>6. pdu[1] \in 129 .. 134
    BY <1>1, <2>5
  <2>. QED  BY <2>2, <2>5, <2>6 DEF IsAnswerPdu
<1>3. CASE Knows(ask) /\ ask.code \in WriteCodes
  <2>1. answer.status = "ok" /\ answer.values = <<ask.address, ask.argument>>
    BY <1>3 DEF AnswerTo, Success
  <2>2. IsList(data) /\ Len(data) = 4
    <3>. DEFINE values == <<ask.address, ask.argument>>
    <3>1. Len(values) = 2
      OBVIOUS
    <3>. HIDE DEF values
    <3>2. ~(ask.code \in {1, 2})
      BY <1>1, <1>3 DEF WriteCodes
    <3>3. 2 * Len(values) = 4
      BY <3>1
    <3>4. data = [j \in 1 .. 4 |-> data[j]]
      BY <2>1, <3>2, <3>3 DEF DataBytes, values
    <3>. HIDE DEF data
    <3>. QED  BY <3>4, FunctionIsList
  <2>. HIDE DEF data
  <2>. DEFINE pdu == (<<ask.code>> \o <<>>) \o data
  <2>3. AnswerPdu(ask, answer) = pdu
    <3>1. ask.code \notin ReadCodes
      BY <1>1, <1>3 DEF WriteCodes, ReadCodes
    <3>. QED  BY <2>1, <3>1 DEF AnswerPdu, data
  <2>4. IsWriteAnswer(pdu, ask.code, data)
    BY <2>2, WriteAnswerParts, Zenon
  <2>. HIDE DEF pdu
  <2>5. IsList(pdu) /\ Len(pdu) = 5 /\ pdu[1] = ask.code
    BY <2>2, <2>4 DEF IsWriteAnswer
  <2>6. ask.code \in {5, 6}
    BY <1>1, <1>3 DEF WriteCodes
  <2>. QED  BY <2>3, <2>5, <2>6 DEF IsAnswerPdu
<1>4. CASE Knows(ask) /\ ask.code \notin WriteCodes
  <2>. DEFINE Value(i) == IF ask.code \in {1, 2} THEN memory.coil[ask.address + i - 1]
                          ELSE memory.register[ask.address + i - 1]
              values == [i \in 1 .. ask.argument |-> Value(i)]
  <2>1. answer.status = "ok" /\ answer.values = values
    BY <1>4 DEF AnswerTo, Success
  <2>2. Len(values) = ask.argument
    <3>1. values = [i \in 1 .. ask.argument |-> values[i]]
      OBVIOUS
    <3>. HIDE DEF values
    <3>. QED  BY <1>1, <3>1, FunctionIsList
  <2>. HIDE DEF values
  <2>3. IsList(data) /\ Len(data) \in Nat
    <3>1. CASE ask.code \in {1, 2}
      <4>. DEFINE m == (Len(values) + 7) \div 8
      <4>1. m \in Nat
        BY <1>1, <2>2
      <4>2. data = [j \in 1 .. m |-> data[j]]
        BY <2>1, <3>1 DEF DataBytes
      <4>. HIDE DEF data, m
      <4>. QED  BY <4>1, <4>2, FunctionIsList
    <3>2. CASE ask.code \notin {1, 2}
      <4>. DEFINE m == 2 * Len(values)
      <4>1. m \in Nat
        BY <1>1, <2>2
      <4>2. data = [j \in 1 .. m |-> data[j]]
        BY <2>1, <3>2 DEF DataBytes
      <4>. HIDE DEF data, m
      <4>. QED  BY <4>1, <4>2, FunctionIsList
    <3>. QED  BY <3>1, <3>2
  <2>. HIDE DEF data
  <2>. DEFINE pdu == (<<ask.code>> \o <<Len(data)>>) \o data
  <2>4. ask.code \in ReadCodes
    BY <1>1, <1>4 DEF WriteCodes, ReadCodes
  <2>5. AnswerPdu(ask, answer) = pdu
    BY <2>1, <2>4 DEF AnswerPdu, data
  <2>6. IsReadAnswer(pdu, ask.code, data)
    BY <2>3, ReadAnswerParts, Zenon
  <2>. HIDE DEF pdu
  <2>7. IsList(pdu) /\ Len(pdu) = 2 + Len(data) /\ pdu[1] = ask.code /\ pdu[2] = Len(data)
    BY <2>6 DEF IsReadAnswer
  <2>. QED  BY <2>3, <2>4, <2>5, <2>7 DEF IsAnswerPdu
<1>. QED  BY <1>2, <1>3, <1>4

-----------------------------------------------------------------------------
(* What is on the wire and in the buffer when the line does no damage.     *)

\* EndConsume's condition: no frame can be cut from these bytes.
NothingWhole(framing, bytes) ==
    IF framing = "Tcp" THEN DecodeMbapFrame(bytes) = <<>>
    ELSE LET length == ExpectedRtuResponseLength(bytes) IN ~(length > 0 /\ Len(bytes) >= length)

First   == sent - Len(pending)
Waiting == Len(pending) - Len(line)

\* What the device said in each of its answers.
Told == [j \in 1 .. Len(heard) |-> AnswerPdu(heard[j].took, heard[j].answer)]

CutBooks ==
    /\ damage \in Nat
    /\ damage = 0 =>
           /\ IsList(buffer) /\ IsList(wire)
           /\ First \in Nat /\ Waiting \in Nat /\ First + Waiting = Len(heard)
           /\ \A k \in 1 .. Len(pending) : pending[k].tid = First + k
           /\ \A k \in 1 .. Len(line) : line[k].tid = (First + Waiting) + k
           /\ HoldsAnswers(job.framing, buffer \o wire, First, Waiting, Told)
           /\ ~consuming /\ pending # <<>> => NothingWhole(job.framing, buffer)

\* A frame at the head of the buffer can be cut exactly when it is there whole.
LEMMA WholeOrNot ==
    ASSUME NEW framing, NEW tid, NEW pdu, NEW frame, IsAnswer(framing, frame, tid, pdu), NEW tail, IsList(tail),
           NEW have, IsList(have), NEW more, IsList(more), have \o more = frame \o tail
    PROVE  NothingWhole(framing, have) <=> Len(have) < Len(frame)
<1>1. Len(have) \in Nat /\ Len(frame) \in Nat /\ Len(frame) >= 5
  BY AnswerIsLong, ListIsFunction
<1>2. CASE framing = "Tcp"
  <2>1. IsTcpAnswer(frame, tid, pdu)
    BY <1>2 DEF IsAnswer
  <2>2. IF Len(have) < Len(frame) THEN DecodeMbapFrame(have) = <<>>
        ELSE DecodeMbapFrame(have) = <<[tid |-> tid, pdu |-> pdu, size |-> Len(frame)]>>
    <3>1. FindsTcp(have, frame, tid, pdu)
      BY <2>1, TcpHead
    <3>. QED  BY <3>1, Zenon DEF FindsTcp
  <2>3. \A x : <<x>> # <<>>
    OBVIOUS
  <2>. QED  BY <1>2, <2>2, <2>3, Zenon DEF NothingWhole
<1>3. CASE framing # "Tcp"
  <2>. DEFINE length == ExpectedRtuResponseLength(have)  m == Len(have)  n == Len(frame)
  <2>1. IsRtuAnswer(frame, pdu)
    BY <1>3 DEF IsAnswer
  <2>2. IF m < n THEN ~(length > 0 /\ m >= length) ELSE length = n
    BY <2>1, RtuHead
  <2>3. m \in Nat /\ n \in Nat /\ n >= 5
    BY <1>1
  <2>. HIDE DEF length, m, n
  <2>4. ~(length > 0 /\ m >= length) <=> m < n
    BY <2>2, <2>3
  <2>. QED  BY <1>3, <2>4, Zenon DEF NothingWhole, length, m, n
<1>. QED  BY <1>2, <1>3

\* Between two events, when nothing is left to come, nothing is left to read.
LEMMA AllIsRead ==
    ASSUME PathBooks, CutBooks, damage = 0, line = <<>>, wire = <<>>, ~consuming
    PROVE  pending = <<>> /\ buffer = <<>>
<1>. DEFINE stream == buffer \o wire
<1>1. /\ IsList(buffer) /\ IsList(wire) /\ First \in Nat /\ Waiting \in Nat
      /\ HoldsAnswers(job.framing, stream, First, Waiting, Told)
      /\ pending # <<>> => NothingWhole(job.framing, buffer)
  BY DEF CutBooks
<1>2. stream = buffer
  BY <1>1, NothingJoined
<1>3. Waiting = Len(pending) /\ Len(pending) \in Nat /\ (Len(pending) = 0 => pending = <<>>)
  <2>1. Len(line) = 0
    BY Empty
  <2>2. pending \in Seq(PendingRequests)
    BY DEF PathBooks
  <2>. QED  BY <2>1, <2>2 DEF Waiting
<1>4. CASE Waiting = 0
  BY <1>1, <1>2, <1>3, <1>4, NothingHeld
<1>5. CASE Waiting # 0
  <2>1. Waiting \in Nat \ {0}
    BY <1>1, <1>5
  <2>2. PICK frame : IsAnswer(job.framing, frame, First + 1, Told[First + 1]) /\
            \E tail : IsList(tail) /\ stream = frame \o tail /\ HoldsAnswers(job.framing, tail, First + 1, Waiting - 1, Told)
    <3>. HIDE DEF stream
    <3>. QED  BY <1>1, <2>1, FirstAnswer
  <2>3. PICK tail : IsList(tail) /\ stream = frame \o tail
    BY <2>2
  <2>4. NothingWhole(job.framing, buffer) <=> Len(buffer) < Len(frame)
    BY <1>1, <2>2, <2>3, WholeOrNot
  <2>. DEFINE whole == frame \o tail
  <2>5. IsJoined(whole, frame, tail) /\ whole = buffer
    BY <1>2, <2>2, <2>3, AnswerIsLong, Joined
  <2>. HIDE DEF whole
  <2>6. ~(Len(buffer) < Len(frame))
    BY <2>5 DEF IsJoined
  <2>7. pending # <<>>
    BY <1>3, <1>5, Empty
  <2>. QED  BY <1>1, <2>4, <2>6, <2>7
<1>. QED  BY <1>4, <1>5

\* The answers under way are those to the requests that wait: at the start,
LEMMA CutStart == Init => CutBooks
<1>. SUFFICES ASSUME Init PROVE CutBooks
  OBVIOUS
<1>1. /\ damage = 0 /\ buffer = <<>> /\ wire = <<>> /\ pending = <<>> /\ line = <<>> /\ sent = 0 /\ heard = <<>>
  BY DEF Init
<1>2. First = 0 /\ Waiting = 0 /\ Len(pending) = 0 /\ Len(line) = 0
  <2>1. Len(pending) = 0 /\ Len(line) = 0
    BY <1>1, Empty
  <2>2. sent = 0
    BY <1>1
  <2>. QED  BY <2>1, <2>2 DEF First, Waiting
<1>3. HoldsAnswers(job.framing, buffer \o wire, First, Waiting, Told)
  BY <1>1, <1>2, Empty, NothingJoined, NoAnswers
<1>. QED  BY <1>1, <1>2, <1>3, Empty DEF CutBooks

\* There is no frame in an empty buffer.
LEMMA NothingIsNotWhole == ASSUME NEW framing PROVE NothingWhole(framing, <<>>)
<1>1. Len(<<>>) = 0
  BY Empty
<1>. QED  BY <1>1 DEF NothingWhole, DecodeMbapFrame, ExpectedRtuResponseLength

\* The next batch goes out on an empty line.
LEMMA BatchGoesOut ==
    ASSUME PathBooks, Waiting \in Nat, SendRequests
    PROVE  /\ First \in Nat /\ First' = First /\ Waiting = 0 /\ Waiting' = 0 /\ sent' = sent + Len(line')
           /\ Len(pending') \in Nat /\ Len(line') = Len(pending')
           /\ \A k \in 1 .. Len(pending') : /\ pending'[k].tid = First + k /\ line'[k].tid = First + k
                                            /\ line'[k].meant = pending'[k].ask /\ pending'[k].attempts = 1
<1>1. todo # <<>> /\ pending = <<>>
  BY DEF SendRequests
<1>. DEFINE batch == Head(todo)  n == Len(batch)
            new == [k \in DOMAIN batch |-> FrameFor(pending'[k])]
<1>2. /\ sent' = sent + n
      /\ pending' = [k \in DOMAIN batch |-> [tid |-> sent + k, ask |-> batch[k], attempts |-> 1]]
      /\ line' = line \o new
  BY Zenon DEF SendRequests
<1>3. n \in Nat /\ DOMAIN batch = 1 .. n /\ sent \in Nat
  <2>. DEFINE S == Seq(PossibleAsks)
  <2>1. todo \in Seq(S) /\ todo # <<>>
    BY <1>1 DEF PathBooks
  <2>. HIDE DEF S
  <2>2. batch \in S
    BY <2>1
  <2>. HIDE DEF batch
  <2>. QED  BY <2>2 DEF S, PathBooks
<1>. HIDE DEF batch, n
<1>4. line = <<>> /\ Waiting = 0 /\ First = sent
  <2>1. Len(pending) = 0 /\ Len(line) \in Nat /\ Waiting \in Nat
    BY <1>1, Empty, ListIsFunction DEF PathBooks
  <2>2. Len(line) = 0
    BY <2>1 DEF Waiting
  <2>. QED  BY <1>3, <2>1, <2>2, EmptyList DEF First, Waiting, PathBooks
<1>5. Len(pending') = n /\ \A k \in 1 .. n : pending'[k].tid = sent + k /\ pending'[k].attempts = 1
  <2>1. pending' = [k \in 1 .. n |-> pending'[k]]
    BY <1>2, <1>3
  <2>2. Len(pending') = n
    BY <1>3, <2>1, FunctionIsList
  <2>. QED  BY <1>2, <1>3, <2>2
<1>6. Len(line') = n /\ \A k \in 1 .. n : line'[k].tid = sent + k /\ line'[k].meant = pending'[k].ask
  <2>1. IsList(new) /\ Len(new) = n
    <3>1. new = [k \in 1 .. n |-> new[k]]
      BY <1>3
    <3>. HIDE DEF new
    <3>. QED  BY <1>3, <3>1, FunctionIsList
  <2>2. line' = new
    <3>. HIDE DEF new
    <3>. QED  BY <1>2, <1>4, <2>1, NothingJoined
  <2>3. \A k \in 1 .. n : new[k].tid = pending'[k].tid /\ new[k].meant = pending'[k].ask
    BY <1>3 DEF FrameFor
  <2>. HIDE DEF new
  <2>. QED  BY <1>5, <2>1, <2>2, <2>3
<1>7. First' = First /\ Waiting' = 0
  BY <1>2, <1>3, <1>4, <1>5, <1>6 DEF First, Waiting
<1>. QED  BY <1>2, <1>3, <1>4, <1>5, <1>6, <1>7

\* after sendRequest(),
LEMMA CutSend == ASSUME PathBooks, CutBooks, SendRequests PROVE CutBooks'
<1>1. ~consuming /\ UNCHANGED <<job, buffer, consuming, wire, damage, heard>>
  BY DEF SendRequests
<1>2. SUFFICES ASSUME damage = 0 PROVE CutBooks'
  BY <1>1 DEF CutBooks
<1>3. /\ IsList(buffer) /\ IsList(wire) /\ First + Waiting = Len(heard)
      /\ HoldsAnswers(job.framing, buffer \o wire, First, Waiting, Told)
  BY <1>2 DEF CutBooks
<1>4. /\ First \in Nat /\ First' = First /\ Waiting = 0 /\ Waiting' = 0
      /\ Len(line') = Len(pending')
      /\ \A k \in 1 .. Len(pending') : pending'[k].tid = First + k /\ line'[k].tid = First + k
  BY <1>2, BatchGoesOut DEF CutBooks
<1>5. buffer \o wire = <<>>
  BY <1>3, <1>4, NothingHeld
<1>6. buffer = <<>>
  <2>. DEFINE all == buffer \o wire
  <2>1. IsJoined(all, buffer, wire) /\ all = <<>>
    BY <1>3, <1>5, Joined
  <2>. HIDE DEF all
  <2>2. Len(all) = 0
    BY <2>1, Empty
  <2>3. Len(buffer) = 0
    BY <2>1, <2>2 DEF IsJoined
  <2>. QED  BY <1>3, <2>3, EmptyList
<1>7. HoldsAnswers(job.framing, buffer \o wire, First, Waiting, Told)'
  BY <1>1, <1>4, <1>5, NoAnswers
<1>8. NothingWhole(job.framing, buffer)'
  BY <1>1, <1>6, NothingIsNotWhole
<1>9. First' + Waiting' = Len(heard') /\ \A k \in 1 .. Len(line') : line'[k].tid = (First' + Waiting') + k
  <2>1. \A k \in Int : First + k = (First + 0) + k
    BY <1>4
  <2>. QED  BY <1>1, <1>3, <1>4, <2>1
<1>. QED  BY <1>1, <1>2, <1>3, <1>4, <1>7, <1>8, <1>9 DEF CutBooks

\* The first request on the line, answered by a line that does no damage.
AnswerIn(frame) ==
    LET ask == AskIn(frame.bytes)
    IN  [tid |-> frame.tid, took |-> ask, answer |-> AnswerTo(ask), came |-> "intact"]

BytesFor(frame) == Framed(frame.tid, AnswerPdu(AskIn(frame.bytes), AnswerTo(AskIn(frame.bytes))))

\* The device makes these bytes of it.
LEMMA DeviceMakes ==
    ASSUME NEW frame, Understood(frame), job \in Jobs
    PROVE  AnswerFrame(frame.bytes, AnswerPdu(AskIn(frame.bytes), AnswerTo(AskIn(frame.bytes)))) = BytesFor(frame)
<1>. DEFINE ask == AskIn(frame.bytes)  pdu == AnswerPdu(ask, AnswerTo(ask))
<1>1. ask \in PossibleAsks
  BY DEF Understood
<1>2. IsAnswerPdu(pdu)
  <2>. HIDE DEF ask
  <2>. QED  BY <1>1, DeviceKeepsProtocol
<1>3. IsList(pdu)
  <2>. HIDE DEF pdu
  <2>. QED  BY <1>2 DEF IsAnswerPdu
<1>4. AnswerFrame(frame.bytes, pdu) = Framed(frame.tid, pdu)
  <2>. HIDE DEF pdu
  <2>. QED  BY <1>3, DeviceFrames
<1>. QED  BY <1>4 DEF BytesFor

\* What the device's turn does to the line.
LEMMA LineMoves ==
    ASSUME PathBooks, DeviceAnswers, First \in Nat, Waiting \in Nat,
           \A k \in 1 .. Len(line) : line[k].tid = (First + Waiting) + k
    PROVE  /\ Len(line') = Len(line) - 1 /\ Len(line) \in Nat \ {0} /\ IsList(line')
           /\ \A k \in 1 .. Len(line) - 1 : line'[k] = line[k + 1]
           /\ Head(line) = line[1] /\ Understood(line[1]) /\ line[1].tid = First + (Waiting + 1)
           /\ First' = First /\ Waiting' = Waiting + 1
           /\ \A k \in 1 .. Len(line') : line'[k].tid = (First' + Waiting') + k
<1>1. line # <<>> /\ line' = Tail(line) /\ UNCHANGED <<sent, pending>>
  BY DEF DeviceAnswers, hostVars
<1>2. /\ IsList(line') /\ Len(line') = Len(line) - 1 /\ Len(line) \in Nat \ {0}
      /\ \A k \in 1 .. Len(line) - 1 : line'[k] = line[k + 1]
      /\ Head(line) = line[1]
  BY <1>1, Beheaded DEF PathBooks
<1>3. Understood(line[1]) /\ line[1].tid = First + (Waiting + 1)
  <2>1. 1 \in 1 .. Len(line)
    BY <1>2
  <2>2. line[1].tid = (First + Waiting) + 1
    BY <2>1
  <2>3. (First + Waiting) + 1 = First + (Waiting + 1)
    OBVIOUS
  <2>4. Understood(line[1])
    BY <2>1 DEF PathBooks
  <2>. QED  BY <2>2, <2>3, <2>4
<1>4. First' = First /\ Waiting' = Waiting + 1
  <2>1. Len(pending) \in Nat
    BY ListIsFunction, AList DEF PathBooks
  <2>. QED  BY <1>1, <1>2, <2>1 DEF First, Waiting
<1>5. ASSUME NEW k \in 1 .. Len(line') PROVE line'[k].tid = (First' + Waiting') + k
  <2>1. k + 1 \in 1 .. Len(line) /\ line'[k] = line[k + 1]
    BY <1>2
  <2>2. line[k + 1].tid = (First + Waiting) + (k + 1)
    BY <2>1
  <2>3. (First + Waiting) + (k + 1) = (First + (Waiting + 1)) + k
    OBVIOUS
  <2>. QED  BY <1>4, <2>1, <2>2, <2>3
<1>. QED  BY <1>2, <1>3, <1>4, <1>5

\* What such an answer does to the line and to the books.
LEMMA FirstIsAnswered ==
    ASSUME PathBooks, CutBooks, DeviceAnswers, damage' = 0
    PROVE  /\ damage = 0 /\ wire' = wire \o BytesFor(line[1]) /\ heard' = Append(heard, AnswerIn(line[1]))
           /\ Len(line') = Len(line) - 1 /\ Len(line) \in Nat \ {0} /\ IsList(line')
           /\ \A k \in 1 .. Len(line) - 1 : line'[k] = line[k + 1]
           /\ Understood(line[1]) /\ line[1].tid = First + (Waiting + 1)
           /\ First' = First /\ Waiting' = Waiting + 1
           /\ Len(heard') = Len(heard) + 1 /\ heard'[Len(heard) + 1] = AnswerIn(line[1])
           /\ \A j \in 1 .. Len(heard) : heard'[j] = heard[j]
<1>1. damage \in Nat
  BY DEF CutBooks
<1>2. \/ wire' = wire \o BytesFor(line[1]) /\ damage' = damage /\ heard' = Append(heard, AnswerIn(line[1]))
      \/ damage' = damage + 1
  <2>1. AnswerRequest(line[1]) /\ Understood(line[1]) /\ job \in Jobs
    BY RequestIsHeard DEF PathBooks
  <2>2. AnswerFrame(line[1].bytes, AnswerPdu(AskIn(line[1].bytes), AnswerTo(AskIn(line[1].bytes)))) = BytesFor(line[1])
    BY <2>1, DeviceMakes
  <2>. QED  BY <2>1, <2>2, Zenon DEF AnswerRequest, AnswerIn
<1>3. damage = 0 /\ wire' = wire \o BytesFor(line[1]) /\ heard' = Append(heard, AnswerIn(line[1]))
  BY <1>1, <1>2
<1>4. First \in Nat /\ Waiting \in Nat /\ \A k \in 1 .. Len(line) : line[k].tid = (First + Waiting) + k
  BY <1>3 DEF CutBooks
<1>5. /\ Len(heard') = Len(heard) + 1 /\ heard'[Len(heard) + 1] = AnswerIn(line[1])
      /\ \A j \in 1 .. Len(heard) : heard'[j] = heard[j]
  <2>1. IsList(heard)
    BY DEF PathBooks
  <2>. QED  BY <1>3, <2>1, Appended
<1>. QED  BY <1>3, <1>4, <1>5, LineMoves

\* after the device answers,
LEMMA CutAnswer == ASSUME PathBooks, CutBooks, DeviceAnswers PROVE CutBooks'
<1>1. UNCHANGED <<job, sent, pending, buffer, consuming>>
  BY DEF DeviceAnswers, hostVars
<1>2. damage \in Nat /\ damage' \in Nat
  <2>1. damage \in Nat
    BY DEF CutBooks
  <2>2. damage' = damage \/ damage' = damage + 1
    BY RequestIsHeard DEF AnswerRequest
  <2>. QED  BY <2>1, <2>2
<1>3. CASE damage' # 0
  BY <1>2, <1>3 DEF CutBooks
<1>4. CASE damage' = 0
  <2>. DEFINE ask == AskIn(line[1].bytes)  pdu == AnswerPdu(ask, AnswerTo(ask))  bytes == BytesFor(line[1])
              entry == AnswerIn(line[1])
  <2>1. /\ damage = 0 /\ wire' = wire \o bytes
        /\ Len(heard') = Len(heard) + 1 /\ heard'[Len(heard) + 1] = entry
        /\ \A j \in 1 .. Len(heard) : heard'[j] = heard[j]
    BY <1>4, FirstIsAnswered
  <2>2. /\ IsList(buffer) /\ IsList(wire) /\ First \in Nat /\ Waiting \in Nat /\ First + Waiting = Len(heard)
        /\ \A k \in 1 .. Len(pending) : pending[k].tid = First + k
        /\ \A k \in 1 .. Len(line) : line[k].tid = (First + Waiting) + k
        /\ HoldsAnswers(job.framing, buffer \o wire, First, Waiting, Told)
        /\ ~consuming /\ pending # <<>> => NothingWhole(job.framing, buffer)
    BY <2>1 DEF CutBooks
  <2>3. /\ Len(line') = Len(line) - 1 /\ Len(line) \in Nat \ {0}
        /\ \A k \in 1 .. Len(line) - 1 : line'[k] = line[k + 1]
    BY <1>4, FirstIsAnswered
  <2>4. Understood(line[1]) /\ line[1].tid = First + (Waiting + 1)
    BY <1>4, FirstIsAnswered
  <2>5. Len(heard') = Len(heard) + 1 /\ Told'[First + (Waiting + 1)] = pdu
         /\ \A k \in 1 .. Waiting : Told'[First + k] = Told[First + k]
    <3>. DEFINE l == Len(heard)
    <3>1. l \in Nat /\ l = First + Waiting
      BY <2>2
    <3>2. Len(heard') = l + 1 /\ heard'[l + 1] = entry /\ \A j \in 1 .. l : heard'[j] = heard[j]
      BY <2>1
    <3>3. entry.took = ask /\ entry.answer = AnswerTo(ask)
      BY DEF AnswerIn
    <3>. HIDE DEF l, entry
    <3>4. Told' = [j \in 1 .. l + 1 |-> AnswerPdu(heard'[j].took, heard'[j].answer)]
      BY <3>2 DEF Told
    <3>5. Told'[l + 1] = pdu
      BY <3>1, <3>2, <3>4, <3>3
    <3>6. ASSUME NEW k \in 1 .. Waiting PROVE Told'[First + k] = Told[First + k]
      <4>1. First + k \in 1 .. l /\ First + k \in 1 .. l + 1
        BY <2>2, <3>1
      <4>2. heard'[First + k] = heard[First + k]
        BY <3>2, <4>1
      <4>3. Told[First + k] = AnswerPdu(heard[First + k].took, heard[First + k].answer)
        BY <4>1 DEF Told, l
      <4>. QED  BY <3>4, <4>1, <4>2, <4>3
    <3>7. First + (Waiting + 1) = l + 1
      BY <2>2, <3>1
    <3>. QED  BY <3>2, <3>5, <3>6, <3>7 DEF l
  <2>6. IsAnswer(job.framing, bytes, First + (Waiting + 1), Told'[First + (Waiting + 1)])
    <3>1. ask \in PossibleAsks /\ line[1].tid \in Nat
      BY <2>4 DEF Understood
    <3>. HIDE DEF ask
    <3>2. IsAnswerPdu(pdu)
      BY <3>1, DeviceKeepsProtocol
    <3>. HIDE DEF pdu
    <3>3. IsAnswer(job.framing, bytes, line[1].tid, pdu)
      <4>1. bytes = Framed(line[1].tid, pdu)
        BY DEF BytesFor, pdu, ask
      <4>. HIDE DEF bytes
      <4>. QED  BY <3>1, <3>2, <4>1, AnswersAnnounce
    <3>. HIDE DEF bytes
    <3>. QED  BY <2>4, <2>5, <3>3
  <2>. HIDE DEF bytes
  <2>7. IsList(bytes)
    BY <2>6, AnswerIsLong
  <2>8. HoldsAnswers(job.framing, (buffer \o wire) \o bytes, First, Waiting + 1, Told')
    <3>. DEFINE stream == buffer \o wire  now == Told'
    <3>1. HoldsAnswers(job.framing, stream, First, Waiting, now)
      <4>1. HoldsAnswers(job.framing, stream, First, Waiting, Told) /\ First \in Nat /\ Waiting \in Nat
        BY <2>2
      <4>2. \A k \in 1 .. Waiting : now[First + k] = Told[First + k]
        BY <2>5
      <4>. HIDE DEF stream, now
      <4>. QED  BY <4>1, <4>2, SameTold
    <3>2. IsAnswer(job.framing, bytes, First + (Waiting + 1), now[First + (Waiting + 1)])
      BY <2>6
    <3>. HIDE DEF stream, now
    <3>3. HoldsAnswers(job.framing, stream \o bytes, First, Waiting + 1, now)
      BY <2>2, <3>1, <3>2, OneMoreAnswer
    <3>. QED  BY <3>3 DEF stream, now
  <2>9. (buffer \o wire) \o bytes = buffer' \o wire'
    <3>1. (buffer \o wire) \o bytes = buffer \o (wire \o bytes)
      BY <2>2, <2>7, Regrouped
    <3>. QED  BY <1>1, <2>1, <3>1, Zenon
  <2>10. IsList(wire')
    <3>1. IsJoined(wire \o bytes, wire, bytes)
      BY <2>2, <2>7, Joined, Zenon
    <3>. QED  BY <2>1, <3>1, Zenon DEF IsJoined
  <2>11. First' = First /\ Waiting' = Waiting + 1
    BY <1>4, FirstIsAnswered
  <2>12. HoldsAnswers(job.framing, buffer \o wire, First, Waiting, Told)'
    BY <1>1, <2>8, <2>9, <2>11, Zenon
  <2>13. \A k \in 1 .. Len(line') : line'[k].tid = (First' + Waiting') + k
    <3>1. ASSUME NEW k \in 1 .. Len(line') PROVE line'[k].tid = (First' + Waiting') + k
      <4>1. k + 1 \in 1 .. Len(line) /\ line'[k] = line[k + 1]
        BY <2>3
      <4>2. line[k + 1].tid = (First + Waiting) + (k + 1)
        BY <2>2, <4>1
      <4>3. (First + Waiting) + (k + 1) = (First + (Waiting + 1)) + k
        BY <2>2
      <4>. QED  BY <2>11, <4>1, <4>2, <4>3
    <3>. QED  BY <3>1
  <2>14. Waiting' \in Nat /\ First' \in Nat
    BY <2>2, <2>11
  <2>15. \A k \in 1 .. Len(pending') : pending'[k].tid = First' + k
    BY <1>1, <2>2, <2>11
  <2>16. NothingWhole(job.framing, buffer)' \/ consuming' \/ pending' = <<>>
    BY <1>1, <2>2
  <2>17. damage' \in Nat /\ IsList(buffer')
    BY <1>1, <1>4, <2>2
  <2>18. First' + Waiting' = Len(heard')
    BY <2>2, <2>11, <2>5
  <2>. QED  BY <2>18, <2>10, <2>12, <2>13, <2>14, <2>15, <2>16, <2>17, Zenon DEF CutBooks
<1>. QED  BY <1>3, <1>4

\* after handleDataReceived(),
LEMMA CutReceive == ASSUME PathBooks, CutBooks, NEW n \in DOMAIN wire, DataReceived(n) PROVE CutBooks'
<1>1. /\ ~consuming /\ UNCHANGED <<job, sent, pending, line, damage, heard>>
      /\ wire' = SubSeq(wire, n + 1, Len(wire))
      /\ pending = <<>> => buffer' = buffer /\ consuming' = consuming
      /\ pending # <<>> => buffer' = buffer \o SubSeq(wire, 1, n) /\ consuming' = TRUE
  BY DEF DataReceived
<1>2. SUFFICES ASSUME damage = 0 PROVE CutBooks'
  BY <1>1 DEF CutBooks
<1>3. /\ IsList(buffer) /\ IsList(wire) /\ First \in Nat /\ Waiting \in Nat /\ First + Waiting = Len(heard)
      /\ \A k \in 1 .. Len(pending) : pending[k].tid = First + k
      /\ \A k \in 1 .. Len(line) : line[k].tid = (First + Waiting) + k
      /\ HoldsAnswers(job.framing, buffer \o wire, First, Waiting, Told)
  BY <1>2 DEF CutBooks
<1>4. n \in 1 .. Len(wire) /\ n \in 0 .. Len(wire)
  <2>1. n \in 1 .. Len(wire)
    BY <1>3, ListIsFunction
  <2>. QED  BY <1>3, <2>1, ListIsFunction
<1>5. Waiting # 0 /\ pending # <<>>
  <2>1. wire # <<>>
    BY <1>4, Empty
  <2>2. buffer \o wire # <<>>
    <3>. DEFINE all == buffer \o wire
    <3>1. IsJoined(all, buffer, wire)
      BY <1>3, Joined
    <3>. HIDE DEF all
    <3>2. Len(all) # 0
      BY <1>4, <3>1 DEF IsJoined
    <3>. QED  BY <3>2, Empty DEF all
  <2>3. Waiting # 0
    BY <1>3, <2>2, NothingHeld
  <2>4. pending # <<>>
    <3>1. ASSUME pending = <<>> PROVE FALSE
      <4>1. Len(pending) = 0 /\ Len(line) \in Nat
        BY <3>1, Empty, ListIsFunction DEF PathBooks
      <4>. QED  BY <1>3, <2>3, <4>1 DEF Waiting
    <3>. QED  BY <3>1
  <2>. QED  BY <2>3, <2>4
<1>. DEFINE part == SubSeq(wire, 1, n)  left == SubSeq(wire, n + 1, Len(wire))
<1>6. IsList(part) /\ IsList(left) /\ part \o left = wire
  BY <1>3, <1>4, SplitAt
<1>7. buffer' = buffer \o part /\ wire' = left /\ consuming'
  BY <1>1, <1>5
<1>. HIDE DEF part, left
<1>8. buffer' \o wire' = buffer \o wire
  <2>1. IsList(buffer) /\ IsList(part) /\ IsList(left)
    BY <1>3, <1>6
  <2>2. (buffer \o part) \o left = buffer \o (part \o left)
    BY <2>1, Regrouped
  <2>. QED  BY <1>6, <1>7, <2>2, Zenon
<1>9. IsList(buffer')
  <2>1. IsJoined(buffer \o part, buffer, part)
    BY <1>3, <1>6, Joined, Zenon
  <2>. QED  BY <1>7, <2>1, Zenon DEF IsJoined
<1>10. First' = First /\ Waiting' = Waiting
  BY <1>1 DEF First, Waiting
<1>11. HoldsAnswers(job.framing, buffer \o wire, First, Waiting, Told)'
  <2>1. Told' = Told
    BY <1>1 DEF Told
  <2>. QED  BY <1>1, <1>3, <1>8, <1>10, <2>1, Zenon
<1>12. /\ damage' \in Nat /\ IsList(wire')
       /\ \A k \in 1 .. Len(pending') : pending'[k].tid = First' + k
       /\ \A k \in 1 .. Len(line') : line'[k].tid = (First' + Waiting') + k
  BY <1>1, <1>2, <1>3, <1>6, <1>7, <1>10
<1>13. First' \in Nat /\ Waiting' \in Nat /\ First' + Waiting' = Len(heard')
  BY <1>1, <1>3, <1>10
<1>. QED  BY <1>7, <1>9, <1>11, <1>12, <1>13, Zenon DEF CutBooks

\* A list without its first member.
LEMMA RemovedFirst ==
    ASSUME NEW s, IsList(s), s # <<>>
    PROVE  /\ Len(RemoveAt(s, 1)) = Len(s) - 1 /\ Len(s) \in Nat \ {0}
           /\ \A k \in 1 .. Len(s) - 1 : RemoveAt(s, 1)[k] = s[k + 1]
<1>. DEFINE l == Len(s)  front == SubSeq(s, 1, 0)  rear == SubSeq(s, 2, l)
<1>1. l \in Nat /\ l # 0
  BY ListIsFunction, EmptyList
<1>2. RemoveAt(s, 1) = front \o rear
  BY DEF RemoveAt
<1>3. front = <<>>
  <2>1. IsList(front) /\ Len(front) = 0
    <3>1. IsList(front) /\ Len(front) = IF 1 <= 0 THEN (0 - 1) + 1 ELSE 0
      BY <1>1, Part
    <3>. HIDE DEF front
    <3>. QED  BY <3>1
  <2>. HIDE DEF front
  <2>. QED  BY <2>1, EmptyList
<1>4. IsList(rear) /\ Len(rear) = l - 1 /\ \A k \in 1 .. l - 1 : rear[k] = s[k + 1]
  <2>1. 2 \in Nat \ {0} /\ l <= Len(s)
    BY <1>1
  <2>2. /\ IsList(rear) /\ Len(rear) = IF 2 <= l THEN (l - 2) + 1 ELSE 0
        /\ \A i \in 1 .. Len(rear) : rear[i] = s[(2 - 1) + i]
    BY <1>1, <2>1, Part
  <2>. HIDE DEF rear, l
  <2>3. Len(rear) = l - 1 /\ \A i \in Nat : (2 - 1) + i = i + 1
    BY <1>1, <2>2
  <2>4. ASSUME NEW k \in 1 .. l - 1 PROVE rear[k] = s[k + 1]
    <3>1. k \in Nat /\ k \in 1 .. Len(rear)
      BY <1>1, <2>3
    <3>. QED  BY <2>2, <2>3, <3>1
  <2>. QED  BY <2>2, <2>3, <2>4
<1>. HIDE DEF front, rear
<1>5. front \o rear = rear
  BY <1>3, <1>4, NothingJoined
<1>6. RemoveAt(s, 1) = rear
  BY <1>2, <1>5
<1>. QED  BY <1>1, <1>4, <1>6 DEF l

\* When some frame is whole, the first one is, and a request waits for it.
LEMMA HeadOfBuffer ==
    ASSUME PathBooks, CutBooks, damage = 0, ~NothingWhole(job.framing, buffer)
    PROVE  /\ Waiting \in Nat \ {0}
           /\ \E frame : IsAnswer(job.framing, frame, First + 1, Told[First + 1]) /\
                 \E tail : /\ IsList(tail) /\ buffer \o wire = frame \o tail /\ Len(frame) <= Len(buffer)
                           /\ HoldsAnswers(job.framing, tail, First + 1, Waiting - 1, Told)
<1>. DEFINE stream == buffer \o wire
<1>1. /\ IsList(buffer) /\ IsList(wire) /\ First \in Nat /\ Waiting \in Nat
      /\ HoldsAnswers(job.framing, stream, First, Waiting, Told)
  BY DEF CutBooks
<1>2. Waiting # 0
  <2>. SUFFICES ASSUME Waiting = 0 PROVE FALSE
    OBVIOUS
  <2>1. IsJoined(stream, buffer, wire)
    BY <1>1, Joined
  <2>. HIDE DEF stream
  <2>2. stream = <<>>
    BY <1>1, NothingHeld
  <2>3. Len(buffer) = 0
    <3>1. Len(stream) = 0
      BY <2>2, Empty
    <3>. QED  BY <2>1, <3>1 DEF IsJoined
  <2>4. buffer = <<>>
    BY <1>1, <2>3, EmptyList
  <2>. QED  BY <2>4, NothingIsNotWhole
<1>3. Waiting \in Nat \ {0}
  BY <1>1, <1>2
<1>4. PICK frame : IsAnswer(job.framing, frame, First + 1, Told[First + 1]) /\
          \E tail : IsList(tail) /\ stream = frame \o tail /\ HoldsAnswers(job.framing, tail, First + 1, Waiting - 1, Told)
  <2>. HIDE DEF stream
  <2>. QED  BY <1>1, <1>3, FirstAnswer
<1>5. PICK tail : IsList(tail) /\ stream = frame \o tail /\ HoldsAnswers(job.framing, tail, First + 1, Waiting - 1, Told)
  BY <1>4
<1>6. NothingWhole(job.framing, buffer) <=> Len(buffer) < Len(frame)
  BY <1>1, <1>4, <1>5, WholeOrNot
<1>7. Len(frame) <= Len(buffer)
  <2>. DEFINE m == Len(frame)  n == Len(buffer)
  <2>1. m \in Nat /\ n \in Nat /\ ~(n < m)
    BY <1>1, <1>4, <1>6, AnswerIsLong, ListIsFunction
  <2>. HIDE DEF m, n
  <2>2. m <= n
    BY <2>1
  <2>. QED  BY <2>2 DEF m, n
<1>. QED  BY <1>3, <1>4, <1>5, <1>7

\* The first frame is cut, and its request completed with what the device said.
TakesFirst ==
    /\ damage = 0 /\ ~NothingWhole(job.framing, buffer) /\ pending # <<>> /\ consuming'
    /\ UNCHANGED <<job, sent, line, memory, wire, damage, heard>>
    /\ \A frame : IsAnswer(job.framing, frame, First + 1, Told[First + 1]) => \A tail :
           IsList(tail) /\ buffer \o wire = frame \o tail /\ Len(frame) <= Len(buffer)
           => buffer' = SubSeq(buffer, Len(frame) + 1, Len(buffer))
    /\ CompleteRequest(1, Told[First + 1])

\* What such a turn does to the waiting requests.
LEMMA TurnMoves ==
    ASSUME PathBooks, CutBooks, TakesFirst
    PROVE  /\ Waiting \in Nat \ {0} /\ First' = First + 1 /\ Waiting' = Waiting - 1
           /\ Len(pending') = Len(pending) - 1 /\ Len(pending) \in Nat \ {0}
           /\ \A k \in 1 .. Len(pending) - 1 : pending'[k] = pending[k + 1]
<1>1. /\ damage = 0 /\ ~NothingWhole(job.framing, buffer) /\ pending # <<>>
      /\ UNCHANGED <<sent, line>> /\ pending' = RemoveAt(pending, 1)
  BY DEF TakesFirst, CompleteRequest
<1>2. /\ Len(pending') = Len(pending) - 1 /\ Len(pending) \in Nat \ {0}
      /\ \A k \in 1 .. Len(pending) - 1 : pending'[k] = pending[k + 1]
  <2>1. IsList(pending)
    BY AList DEF PathBooks
  <2>. QED  BY <1>1, <2>1, RemovedFirst
<1>3. Waiting \in Nat \ {0}
  BY <1>1, HeadOfBuffer
<1>4. First' = First + 1 /\ Waiting' = Waiting - 1
  <2>1. Len(line) \in Nat /\ sent \in Nat
    BY ListIsFunction DEF PathBooks
  <2>2. sent' = sent /\ line' = line
    BY <1>1
  <2>3. First' = sent - Len(pending') /\ Waiting' = Len(pending') - Len(line)
    BY <2>2, Zenon DEF First, Waiting
  <2>. DEFINE p == Len(pending)  q == Len(pending')  l == Len(line)
  <2>4. p \in Nat /\ q = p - 1 /\ l \in Nat /\ sent \in Nat
    BY <1>2, <2>1
  <2>5. First = sent - p /\ Waiting = p - l /\ First' = sent - q /\ Waiting' = q - l
    BY <2>3 DEF First, Waiting
  <2>. HIDE DEF p, q, l
  <2>. QED  BY <2>4, <2>5
<1>. QED  BY <1>2, <1>3, <1>4

\* after a turn of a consume loop,
LEMMA CutTurn == ASSUME PathBooks, CutBooks, TakesFirst PROVE CutBooks'
<1>1. /\ damage = 0 /\ ~NothingWhole(job.framing, buffer) /\ pending # <<>> /\ consuming'
      /\ UNCHANGED <<job, sent, line, wire, damage, heard>>
      /\ pending' = RemoveAt(pending, 1)
  BY DEF TakesFirst, CompleteRequest
<1>2. /\ IsList(buffer) /\ IsList(wire) /\ First \in Nat /\ Waiting \in Nat /\ First + Waiting = Len(heard)
      /\ \A k \in 1 .. Len(pending) : pending[k].tid = First + k
      /\ \A k \in 1 .. Len(line) : line[k].tid = (First + Waiting) + k
  BY <1>1 DEF CutBooks
<1>3. PICK frame : IsAnswer(job.framing, frame, First + 1, Told[First + 1]) /\
          \E tail : /\ IsList(tail) /\ buffer \o wire = frame \o tail /\ Len(frame) <= Len(buffer)
                    /\ HoldsAnswers(job.framing, tail, First + 1, Waiting - 1, Told)
  BY <1>1, HeadOfBuffer
<1>4. PICK tail : /\ IsList(tail) /\ buffer \o wire = frame \o tail /\ Len(frame) <= Len(buffer)
                  /\ HoldsAnswers(job.framing, tail, First + 1, Waiting - 1, Told)
  BY <1>3
<1>5. buffer' = SubSeq(buffer, Len(frame) + 1, Len(buffer))
  BY <1>3, <1>4, Zenon DEF TakesFirst
<1>6. IsList(buffer') /\ buffer' \o wire' = tail
  <2>1. IsList(frame)
    BY <1>3, AnswerIsLong
  <2>2. /\ IsList(SubSeq(buffer, Len(frame) + 1, Len(buffer)))
        /\ SubSeq(buffer, Len(frame) + 1, Len(buffer)) \o wire = tail
    <3>1. /\ IsList(buffer) /\ IsList(wire) /\ IsList(tail)
          /\ buffer \o wire = frame \o tail /\ Len(frame) <= Len(buffer)
      BY <1>2, <1>4
    <3>. QED  BY <2>1, <3>1, CutOff
  <2>. QED  BY <1>1, <1>5, <2>2, Zenon
<1>7. /\ Waiting \in Nat \ {0} /\ First' = First + 1 /\ Waiting' = Waiting - 1
      /\ Len(pending') = Len(pending) - 1 /\ Len(pending) \in Nat \ {0}
      /\ \A k \in 1 .. Len(pending) - 1 : pending'[k] = pending[k + 1]
  BY TurnMoves
<1>8. HoldsAnswers(job.framing, buffer \o wire, First, Waiting, Told)'
  <2>1. Told' = Told
    BY <1>1 DEF Told
  <2>. QED  BY <1>1, <1>4, <1>6, <1>7, <2>1, Zenon
<1>9. \A k \in 1 .. Len(pending') : pending'[k].tid = First' + k
  <2>1. ASSUME NEW k \in 1 .. Len(pending') PROVE pending'[k].tid = First' + k
    <3>1. k \in 1 .. Len(pending) - 1 /\ k + 1 \in 1 .. Len(pending)
      BY <1>7
    <3>2. pending'[k] = pending[k + 1]
      BY <1>7, <3>1
    <3>3. pending[k + 1].tid = First + (k + 1) /\ First + (k + 1) = (First + 1) + k
      BY <1>2, <3>1
    <3>. QED  BY <1>7, <3>2, <3>3
  <2>. QED  BY <2>1
<1>10. \A k \in 1 .. Len(line') : line'[k].tid = (First' + Waiting') + k
  <2>1. First' + Waiting' = First + Waiting
    BY <1>2, <1>7
  <2>. QED  BY <1>1, <1>2, <2>1
<1>11. First' \in Nat /\ Waiting' \in Nat /\ First' + Waiting' = Len(heard')
  <2>1. /\ First \in Nat /\ Waiting \in Nat \ {0} /\ First + Waiting = Len(heard)
        /\ First' = First + 1 /\ Waiting' = Waiting - 1
    BY <1>2, <1>7
  <2>2. heard' = heard
    BY <1>1
  <2>3. First' + Waiting' = First + Waiting
    BY <2>1
  <2>. QED  BY <2>1, <2>2, <2>3
<1>12. damage' \in Nat /\ IsList(wire')
  BY <1>1, <1>2
<1>. QED  BY <1>1, <1>6, <1>8, <1>9, <1>10, <1>11, <1>12, Zenon DEF CutBooks

\* A turn of consumeTcpFrames() is such a turn.
LEMMA TcpTakesFirst == ASSUME PathBooks, CutBooks, damage = 0, ConsumeTcpFrame PROVE TakesFirst
<1>1. /\ consuming /\ job.framing = "Tcp" /\ pending # <<>>
      /\ UNCHANGED <<job, todo, sent, consuming, line, memory, wire, damage, heard>>
  BY DEF ConsumeTcpFrame, deviceVars
<1>2. PICK found \in ToSet(DecodeMbapFrame(buffer)) :
          /\ Cut(found.size)
          /\ \/ \E k \in DOMAIN pending : pending[k].tid = found.tid /\ CompleteRequest(k, found.pdu)
             \/ /\ \A k \in DOMAIN pending : pending[k].tid # found.tid
                /\ UNCHANGED <<pending, results>>
  BY Zenon DEF ConsumeTcpFrame
<1>3. DecodeMbapFrame(buffer) # <<>>
  <2>1. ToSet(<<>>) = {}
    BY DEF ToSet
  <2>. QED  BY <1>2, <2>1
<1>4. ~NothingWhole(job.framing, buffer)
  BY <1>1, <1>3 DEF NothingWhole
<1>5. /\ IsList(buffer) /\ IsList(wire) /\ First \in Nat /\ Waiting \in Nat
      /\ \A k \in 1 .. Len(pending) : pending[k].tid = First + k
  BY DEF CutBooks
<1>6. ASSUME NEW frame, IsAnswer(job.framing, frame, First + 1, Told[First + 1]), NEW tail,
             IsList(tail), buffer \o wire = frame \o tail, Len(frame) <= Len(buffer)
      PROVE  found = [tid |-> First + 1, pdu |-> Told[First + 1], size |-> Len(frame)]
  <2>1. IsTcpAnswer(frame, First + 1, Told[First + 1])
    BY <1>1, <1>6 DEF IsAnswer
  <2>2. ~(Len(buffer) < Len(frame))
    <3>. DEFINE m == Len(frame)  n == Len(buffer)
    <3>1. m \in Nat /\ n \in Nat /\ m <= n
      BY <1>5, <1>6, AnswerIsLong, ListIsFunction
    <3>. HIDE DEF m, n
    <3>2. ~(n < m)
      BY <3>1
    <3>. QED  BY <3>2 DEF m, n
  <2>3. DecodeMbapFrame(buffer) = <<[tid |-> First + 1, pdu |-> Told[First + 1], size |-> Len(frame)]>>
    <3>. DEFINE tid == First + 1  pdu == Told[First + 1]
    <3>1. IsTcpAnswer(frame, tid, pdu) /\ IsList(buffer) /\ IsList(wire)
      BY <1>5, <2>1
    <3>. HIDE DEF tid, pdu
    <3>2. FindsTcp(buffer, frame, tid, pdu)
      BY <1>6, <3>1, TcpHead
    <3>. QED  BY <2>2, <3>2, Zenon DEF tid, pdu, FindsTcp
  <2>4. \A x : ToSet(<<x>>) = {x}
    BY DEF ToSet
  <2>. QED  BY <1>2, <2>3, <2>4
<1>7. PICK frame : IsAnswer(job.framing, frame, First + 1, Told[First + 1]) /\
          \E tail : /\ IsList(tail) /\ buffer \o wire = frame \o tail /\ Len(frame) <= Len(buffer)
                    /\ HoldsAnswers(job.framing, tail, First + 1, Waiting - 1, Told)
  BY <1>4, HeadOfBuffer
<1>8. found.tid = First + 1 /\ found.pdu = Told[First + 1]
  BY <1>6, <1>7
<1>9. DOMAIN pending = 1 .. Len(pending) /\ Len(pending) \in Nat /\ 1 \in 1 .. Len(pending)
  <2>1. pending \in Seq(PendingRequests)
    BY DEF PathBooks
  <2>. QED  BY <1>1, <2>1
<1>10. CompleteRequest(1, Told[First + 1])
  <2>1. pending[1].tid = First + 1
    BY <1>5, <1>9
  <2>2. PICK k \in DOMAIN pending : pending[k].tid = found.tid /\ CompleteRequest(k, found.pdu)
    BY <1>2, <1>8, <1>9, <2>1
  <2>3. k \in 1 .. Len(pending) /\ First + k = First + 1
    BY <1>5, <1>8, <1>9, <2>2
  <2>4. k = 1
    BY <1>5, <2>3
  <2>. QED  BY <1>8, <2>2, <2>4, Zenon
<1>11. ASSUME NEW other, IsAnswer(job.framing, other, First + 1, Told[First + 1]), NEW tail,
              IsList(tail) /\ buffer \o wire = other \o tail /\ Len(other) <= Len(buffer)
       PROVE  buffer' = SubSeq(buffer, Len(other) + 1, Len(buffer))
  <2>1. found.size = Len(other)
    <3>1. found = [tid |-> First + 1, pdu |-> Told[First + 1], size |-> Len(other)]
      BY <1>6, <1>11, Zenon
    <3>. QED  BY <3>1
  <2>2. buffer' = SubSeq(buffer, found.size + 1, Len(buffer))
    BY <1>2 DEF Cut
  <2>. QED  BY <2>1, <2>2, Zenon
<1>. QED  BY <1>1, <1>4, <1>10, <1>11, Zenon DEF TakesFirst

\* And so is a turn of consumeRtuFrames().
LEMMA RtuTakesFirst == ASSUME PathBooks, CutBooks, damage = 0, ConsumeRtuFrame PROVE TakesFirst
<1>. DEFINE length == ExpectedRtuResponseLength(buffer)  head == SubSeq(buffer, 1, length)
<1>1. /\ consuming /\ job.framing = "Rtu" /\ pending # <<>> /\ HoldsRtuFrame
      /\ UNCHANGED <<job, todo, sent, consuming, line, memory, wire, damage, heard>>
      /\ Cut(length)
      /\ IsRtuFrame(head) => CompleteRequest(1, PduOfRtuFrame(head))
  BY Zenon DEF ConsumeRtuFrame, deviceVars
<1>2. ~NothingWhole(job.framing, buffer)
  BY <1>1 DEF NothingWhole, HoldsRtuFrame
<1>3. IsList(buffer) /\ IsList(wire)
  BY DEF CutBooks
<1>. HIDE DEF length
<1>4. ASSUME NEW frame, IsAnswer(job.framing, frame, First + 1, Told[First + 1]), NEW tail,
             IsList(tail), buffer \o wire = frame \o tail, Len(frame) <= Len(buffer)
      PROVE  length = Len(frame) /\ head = frame /\ IsRtuFrame(frame) /\ PduOfRtuFrame(frame) = Told[First + 1]
  <2>1. IsRtuAnswer(frame, Told[First + 1])
    BY <1>1, <1>4 DEF IsAnswer
  <2>2. ~(Len(buffer) < Len(frame))
    <3>. DEFINE m == Len(frame)  n == Len(buffer)
    <3>1. m \in Nat /\ n \in Nat /\ m <= n
      BY <1>3, <1>4, AnswerIsLong, ListIsFunction
    <3>. HIDE DEF m, n
    <3>2. ~(n < m)
      BY <3>1
    <3>. QED  BY <3>2 DEF m, n
  <2>3. length = Len(frame)
    BY <1>3, <1>4, <2>1, <2>2, RtuHead DEF length
  <2>4. SubSeq(buffer, 1, Len(frame)) = frame
    <3>1. IsList(frame)
      BY <1>4, AnswerIsLong
    <3>. QED  BY <1>3, <1>4, <3>1, CutOff, Zenon
  <2>. QED  BY <2>1, <2>3, <2>4 DEF IsRtuAnswer, PduOfRtuFrame
<1>. HIDE DEF head
<1>5. PICK frame : IsAnswer(job.framing, frame, First + 1, Told[First + 1]) /\
          \E tail : /\ IsList(tail) /\ buffer \o wire = frame \o tail /\ Len(frame) <= Len(buffer)
                    /\ HoldsAnswers(job.framing, tail, First + 1, Waiting - 1, Told)
  BY <1>2, HeadOfBuffer
<1>6. IsRtuFrame(head) /\ PduOfRtuFrame(head) = Told[First + 1]
  BY <1>4, <1>5
<1>7. CompleteRequest(1, Told[First + 1])
  BY <1>1, <1>6, Zenon
<1>8. ASSUME NEW other, IsAnswer(job.framing, other, First + 1, Told[First + 1]), NEW tail,
             IsList(tail) /\ buffer \o wire = other \o tail /\ Len(other) <= Len(buffer)
      PROVE  buffer' = SubSeq(buffer, Len(other) + 1, Len(buffer))
  <2>1. length = Len(other)
    BY <1>4, <1>8
  <2>2. buffer' = SubSeq(buffer, length + 1, Len(buffer))
    BY <1>1 DEF Cut
  <2>. QED  BY <2>1, <2>2, Zenon
<1>. QED  BY <1>1, <1>2, <1>7, <1>8, Zenon DEF TakesFirst

\* Steps that move no byte and no request.
LEMMA CutElse ==
    ASSUME CutBooks, UNCHANGED <<job, sent, pending, buffer, line, wire, damage, heard>>,
           consuming' = consuming \/ (pending # <<>> => NothingWhole(job.framing, buffer))
    PROVE  CutBooks'
<1>1. First' = First /\ Waiting' = Waiting /\ Told' = Told
  BY DEF First, Waiting, Told
<1>. QED  BY <1>1, Zenon DEF CutBooks

\* and so at all times; handleTimeout() is not reached on such a line.
LEMMA CutInductive == Spec => [](PathBooks /\ CutBooks)
<1>1. Init => CutBooks
  BY CutStart
<1>2. PathBooks /\ CutBooks /\ [Next]_vars => CutBooks'
  <2>. SUFFICES ASSUME PathBooks, CutBooks, [Next]_vars PROVE CutBooks'
    OBVIOUS
  <2>1. CASE SendRequests
    BY <2>1, CutSend
  <2>2. CASE DeviceAnswers
    BY <2>2, CutAnswer
  <2>3. ASSUME NEW n \in DOMAIN wire, DataReceived(n) PROVE CutBooks'
    BY <2>3, CutReceive
  <2>4. CASE ConsumeTcpFrame
    <3>1. ~(damage = 0) => CutBooks'
      BY <2>4 DEF ConsumeTcpFrame, deviceVars, CutBooks
    <3>. QED  BY <2>4, <3>1, TcpTakesFirst, CutTurn
  <2>5. CASE ConsumeRtuFrame
    <3>1. ~(damage = 0) => CutBooks'
      BY <2>5 DEF ConsumeRtuFrame, deviceVars, CutBooks
    <3>. QED  BY <2>5, <3>1, RtuTakesFirst, CutTurn
  <2>6. CASE EndConsume
    BY <2>6, CutElse, Zenon DEF EndConsume, deviceVars, NothingWhole, HoldsRtuFrame
  <2>7. CASE HandleTimeout
    <3>1. pending # <<>> /\ ~consuming /\ line = <<>> /\ wire = <<>> /\ damage' = damage
      BY <2>7 DEF HandleTimeout
    <3>2. damage # 0
      BY <3>1, AllIsRead
    <3>. QED  BY <3>1, <3>2 DEF CutBooks
  <2>8. CASE ClearLog
    BY <2>8, CutElse, Zenon DEF ClearLog, deviceVars
  <2>9. CASE UNCHANGED vars
    BY <2>9, CutElse, Zenon DEF vars, hostVars, deviceVars
  <2>. QED  BY <2>1, <2>2, <2>3, <2>4, <2>5, <2>6, <2>7, <2>8, <2>9 DEF Next
<1>. QED  BY <1>1, <1>2, BooksInductive, PTL DEF Spec

\* For every list of requests and any pieces the answers arrive in: on a line that does no
\* damage no byte is left over and no request is left waiting once everything has been
\* read (decodeMbapFrame(), expectedRtuResponseLength()).
THEOREM FramesCut == Spec => []FramesAreCut
<1>1. PathBooks /\ CutBooks => FramesAreCut
  BY AllIsRead, Zenon DEF FramesAreCut
<1>. QED  BY <1>1, CutInductive, PTL

-----------------------------------------------------------------------------
(* What the host decodes is what the device said.                          *)

MemoryBooks ==
    /\ memory.register \in [Registers -> Register]
    /\ memory.coil \in [Coils -> {0, 1}]

Bit == {0, 1}

ByteOf(a, b, c, d, e, f, g, h) ==
    a + 2 * b + 4 * c + 8 * d + 16 * e + 32 * f + 64 * g + 128 * h

\* The bits of a byte, lowest first.
HasBits(byte, a, b, c, d, e, f, g, h) ==
    /\ (byte \div 2 ^ 0) % 2 = a /\ (byte \div 2 ^ 1) % 2 = b
    /\ (byte \div 2 ^ 2) % 2 = c /\ (byte \div 2 ^ 3) % 2 = d
    /\ (byte \div 2 ^ 4) % 2 = e /\ (byte \div 2 ^ 5) % 2 = f
    /\ (byte \div 2 ^ 6) % 2 = g /\ (byte \div 2 ^ 7) % 2 = h

\* A byte made of eight bits holds them.
LEMMA BitsOfByte ==
    ASSUME NEW a \in Bit, NEW b \in Bit, NEW c \in Bit, NEW d \in Bit,
           NEW e \in Bit, NEW f \in Bit, NEW g \in Bit, NEW h \in Bit
    PROVE  HasBits(ByteOf(a, b, c, d, e, f, g, h), a, b, c, d, e, f, g, h)
<1>. DEFINE byte == ByteOf(a, b, c, d, e, f, g, h)
<1>1. 2 ^ 0 = 1 /\ 2 ^ 1 = 2 /\ 2 ^ 2 = 4 /\ 2 ^ 3 = 8 /\ 2 ^ 4 = 16 /\ 2 ^ 5 = 32 /\ 2 ^ 6 = 64 /\ 2 ^ 7 = 128
  OBVIOUS
<1>. USE DEF Bit, ByteOf
<1>2. byte \in Nat
  OBVIOUS
<1>3. byte \div 1 = byte /\ byte % 2 = a
  OBVIOUS
<1>4. (byte \div 2) % 2 = b /\ (byte \div 4) % 2 = c /\ (byte \div 8) % 2 = d
  OBVIOUS
<1>5. (byte \div 16) % 2 = e /\ (byte \div 32) % 2 = f /\ (byte \div 64) % 2 = g /\ (byte \div 128) % 2 = h
  OBVIOUS
<1>. HIDE DEF byte
<1>6. HasBits(byte, a, b, c, d, e, f, g, h)
  BY <1>1, <1>3, <1>4, <1>5 DEF HasBits
<1>. QED  BY <1>6 DEF byte

\* The bits read from an answer are those it was made of (decodeReadCoilsResponse()).
LEMMA BitsComeThrough ==
    ASSUME NEW q \in Nat, NEW bits \in [1 .. q -> Bit], NEW pdu,
           \A j \in 1 .. (q + 7) \div 8 : pdu[2 + j] = ByteOfBits(bits, 8 * j - 7)
    PROVE  BitsIn(pdu, q) = bits
<1>1. Len(bits) = q
  <2>1. bits = [i \in 1 .. q |-> bits[i]]
    OBVIOUS
  <2>. QED  BY <2>1, FunctionIsList
<1>2. ASSUME NEW i \in Nat \ {0} PROVE BitAt(bits, i) \in Bit
  BY <1>1 DEF BitAt, Bit
<1>3. ASSUME NEW i \in 1 .. q PROVE (pdu[3 + (i - 1) \div 8] \div 2 ^ ((i - 1) % 8)) % 2 = bits[i]
  <2>. DEFINE j == 1 + (i - 1) \div 8  r == (i - 1) % 8  first == 8 * j - 7
  <2>1. j \in 1 .. (q + 7) \div 8 /\ 3 + (i - 1) \div 8 = 2 + j /\ r \in 0 .. 7 /\ i = first + r
        /\ first \in Nat \ {0}
    OBVIOUS
  <2>. DEFINE byte == pdu[2 + j]
  <2>2. byte = ByteOfBits(bits, first)
    BY <2>1
  <2>3. BitAt(bits, i) = bits[i]
    BY <1>1 DEF BitAt
  <2>. HIDE DEF j, r, first
  <2>. DEFINE a == BitAt(bits, first)  b == BitAt(bits, first + 1)  c == BitAt(bits, first + 2)
              d == BitAt(bits, first + 3)  e == BitAt(bits, first + 4)  f == BitAt(bits, first + 5)
              g == BitAt(bits, first + 6)  h == BitAt(bits, first + 7)
  <2>4. /\ a \in Bit /\ b \in Bit /\ c \in Bit /\ d \in Bit
        /\ e \in Bit /\ f \in Bit /\ g \in Bit /\ h \in Bit
    <3>1. \A k \in Nat : first + k \in Nat \ {0}
      BY <2>1
    <3>. QED  BY <1>2, <2>1, <3>1
  <2>5. byte = ByteOf(a, b, c, d, e, f, g, h)
    BY <2>2 DEF ByteOfBits, ByteOf
  <2>6. /\ (r = 0 => BitAt(bits, i) = a) /\ (r = 1 => BitAt(bits, i) = b)
        /\ (r = 2 => BitAt(bits, i) = c) /\ (r = 3 => BitAt(bits, i) = d)
        /\ (r = 4 => BitAt(bits, i) = e) /\ (r = 5 => BitAt(bits, i) = f)
        /\ (r = 6 => BitAt(bits, i) = g) /\ (r = 7 => BitAt(bits, i) = h)
    <3>1. first + 0 = first
      BY <2>1
    <3>. QED  BY <2>1, <3>1
  <2>. HIDE DEF a, b, c, d, e, f, g, h, byte
  <2>7. HasBits(byte, a, b, c, d, e, f, g, h)
    BY <2>4, <2>5, BitsOfByte
  <2>8. (byte \div 2 ^ r) % 2 = BitAt(bits, i)
    <3>1. r = 0 \/ r = 1 \/ r = 2 \/ r = 3 \/ r = 4 \/ r = 5 \/ r = 6 \/ r = 7
      BY <2>1
    <3>. QED  BY <2>6, <2>7, <3>1, Zenon DEF HasBits
  <2>. QED  BY <2>1, <2>3, <2>8, Zenon DEF byte, r
<1>4. BitsIn(pdu, q) = [i \in 1 .. q |-> bits[i]]
  BY <1>3 DEF BitsIn
<1>. QED  BY <1>4

\* The two bytes of a register.
LEMMA RegisterBytes ==
    ASSUME NEW n \in Register
    PROVE  (n \div 256) * 256 + (n % 256) = n
  BY RegisterBounds

\* And so are the registers (decodeReadHoldingRegistersResponse()).
LEMMA RegistersComeThrough ==
    ASSUME NEW q \in Nat, NEW values \in [1 .. q -> Register], NEW pdu, pdu[2] = 2 * q,
           \A j \in 1 .. 2 * q : pdu[2 + j] = IF j % 2 = 1 THEN values[(j + 1) \div 2] \div 256
                                              ELSE values[j \div 2] % 256
    PROVE  RegistersIn(pdu) = values
<1>1. ASSUME NEW i \in 1 .. q PROVE ReadBigEndianU16(pdu, 1 + 2 * i) = values[i]
  <2>. DEFINE high == 2 * i - 1  low == 2 * i
  <2>1. /\ high \in 1 .. 2 * q /\ high % 2 = 1 /\ (high + 1) \div 2 = i /\ 2 + high = 1 + 2 * i
        /\ low \in 1 .. 2 * q /\ ~(low % 2 = 1) /\ low \div 2 = i /\ 2 + low = (1 + 2 * i) + 1
    OBVIOUS
  <2>. HIDE DEF high, low
  <2>2. pdu[2 + high] = values[i] \div 256 /\ pdu[2 + low] = values[i] % 256
    BY <2>1
  <2>3. pdu[1 + 2 * i] = values[i] \div 256 /\ pdu[(1 + 2 * i) + 1] = values[i] % 256
    BY <2>1, <2>2
  <2>4. values[i] \in Register
    OBVIOUS
  <2>5. (values[i] \div 256) * 256 + (values[i] % 256) = values[i]
    BY <2>4, RegisterBytes, Zenon
  <2>. QED  BY <2>3, <2>5 DEF ReadBigEndianU16
<1>2. pdu[2] \div 2 = q
  OBVIOUS
<1>3. RegistersIn(pdu) = [i \in 1 .. q |-> values[i]]
  BY <1>1, <1>2 DEF RegistersIn
<1>. QED  BY <1>3

\* A bit or register the device knows is in its memory.
LEMMA InMemory ==
    ASSUME NEW ask \in PossibleAsks, Knows(ask), ask.code \in ReadCodes, NEW i \in 1 .. ask.argument
    PROVE  IF ask.code \in {1, 2} THEN ask.address + i - 1 \in Coils ELSE ask.address + i - 1 \in Registers
<1>1. ask.address \in Nat /\ ask.argument \in Nat /\ i \in Nat
  <2>1. ask.address \in Register /\ ask.argument \in Register
    BY DEF PossibleAsks
  <2>2. \A n \in Register : n \in Nat
    BY RegisterBounds
  <2>3. i \in Nat
    OBVIOUS
  <2>. QED  BY <2>1, <2>2, <2>3, Zenon
<1>. DEFINE last == ask.address + ask.argument - 1
<1>2. {ask.address, last} \subseteq IF ask.code \in {1, 2, 5} THEN Coils ELSE Registers
  BY DEF Knows
<1>3. ask.address <= ask.address + i - 1 /\ ask.address + i - 1 <= last
  BY <1>1
<1>. HIDE DEF last
<1>4. CASE ask.code \in {1, 2}
  <2>1. ask.address \in Coils /\ last \in Coils
    BY <1>2, <1>4
  <2>. QED  BY <1>1, <1>3, <1>4, <2>1 DEF Coils
<1>5. CASE ask.code \notin {1, 2}
  <2>1. ask.code # 5
    BY DEF ReadCodes
  <2>2. ask.address \in Registers /\ last \in Registers
    BY <1>2, <1>5, <2>1
  <2>. QED  BY <1>1, <1>3, <1>5, <2>2 DEF Registers
<1>. QED  BY <1>4, <1>5

\* Decoding undoes the device's coding, for every request and every memory.
LEMMA AnswerDecodes ==
    ASSUME NEW ask \in PossibleAsks, MemoryBooks
    PROVE  Decode(ask, AnswerPdu(ask, AnswerTo(ask))) = AnswerTo(ask)
<1>. DEFINE answer == AnswerTo(ask)  data == DataBytes(ask, answer.values)  said == AnswerPdu(ask, answer)
            q == ask.argument
<1>1. ask.code \in 1 .. 6 /\ q \in Nat /\ ask.address \in Register /\ q \in Register
  <2>1. ask.code \in 1 .. 6 /\ q \in Register /\ ask.address \in Register
    BY DEF PossibleAsks
  <2>2. \A n \in Register : n \in Nat
    BY RegisterBounds
  <2>. HIDE DEF answer, data, said
  <2>. QED  BY <2>1, <2>2, Zenon
<1>2. \A s : IsList(s) /\ Len(s) > 0 => s # <<>>
  BY Empty
<1>3. CASE ~Knows(ask)
  <2>1. answer = [status |-> "exception", values |-> <<2>>]
    BY <1>3 DEF AnswerTo, Exception
  <2>. DEFINE front == <<ask.code + 128>>  rear == <<2>>  pdu == front \o rear
  <2>2. said = pdu
    BY <2>1 DEF AnswerPdu
  <2>3. /\ IsList(front) /\ Len(front) = 1 /\ front[1] = ask.code + 128
        /\ IsList(rear) /\ Len(rear) = 1 /\ rear[1] = 2
    BY OneMember
  <2>. HIDE DEF front, rear
  <2>4. IsJoined(pdu, front, rear)
    BY <2>3, Joined, Zenon
  <2>. HIDE DEF pdu
  <2>5. IsList(pdu) /\ Len(pdu) = 2 /\ pdu[1] = ask.code + 128 /\ pdu[2] = 2
    <3>1. pdu[1 + 1] = 2
      BY <2>3, <2>4 DEF IsJoined
    <3>. QED  BY <2>3, <2>4, <3>1 DEF IsJoined
  <2>6. pdu # <<>> /\ IsExceptionResponseFunctionCode(pdu[1])
    <3>1. Len(pdu) > 0
      BY <2>5
    <3>2. ask.code + 128 >= 128
      BY <1>1
    <3>. QED  BY <1>2, <2>5, <3>1, <3>2, Zenon DEF IsExceptionResponseFunctionCode
  <2>7. Decode(ask, pdu) = Exception(2)
    BY <2>5, <2>6 DEF Decode
  <2>. QED  BY <2>1, <2>2, <2>7 DEF Exception
<1>4. CASE Knows(ask) /\ ask.code \in WriteCodes
  <2>. DEFINE values == <<ask.address, q>>
  <2>1. answer = Success(values)
    BY <1>4 DEF AnswerTo
  <2>2. ~(ask.code \in {1, 2}) /\ ask.code \notin ReadCodes /\ ~IsExceptionResponseFunctionCode(ask.code)
    BY <1>1, <1>4 DEF WriteCodes, ReadCodes, IsExceptionResponseFunctionCode
  <2>3. Len(values) = 2 /\ values[1] = ask.address /\ values[2] = q /\ answer.status = "ok" /\ answer.values = values
    BY <2>1 DEF Success
  <2>. HIDE DEF values
  <2>4. /\ IsList(data) /\ Len(data) = 4
        /\ data[1] = ask.address \div 256 /\ data[2] = ask.address % 256
        /\ data[3] = q \div 256 /\ data[4] = q % 256
    <3>1. 2 * Len(values) = 4
      BY <2>3
    <3>2. data = [j \in 1 .. 4 |-> IF j % 2 = 1 THEN values[(j + 1) \div 2] \div 256 ELSE values[j \div 2] % 256]
      BY <2>2, <2>3, <3>1 DEF DataBytes
    <3>3. data = [j \in 1 .. 4 |-> data[j]]
      BY <3>2
    <3>. HIDE DEF data
    <3>4. IsList(data) /\ Len(data) = 4
      BY <3>3, FunctionIsList
    <3>5. data[1] = values[1] \div 256 /\ data[2] = values[1] % 256 /\ data[3] = values[2] \div 256 /\ data[4] = values[2] % 256
      BY <3>2
    <3>. QED  BY <2>3, <3>4, <3>5
  <2>. HIDE DEF data
  <2>. DEFINE pdu == (<<ask.code>> \o <<>>) \o data
  <2>5. said = pdu
    BY <2>2, <2>3 DEF AnswerPdu, data
  <2>6. IsWriteAnswer(pdu, ask.code, data)
    BY <2>4, WriteAnswerParts, Zenon
  <2>. HIDE DEF pdu
  <2>7. /\ Len(pdu) = 5 /\ pdu[2] = ask.address \div 256 /\ pdu[3] = ask.address % 256
        /\ pdu[4] = q \div 256 /\ pdu[5] = q % 256
    <3>1. 1 + 1 = 2 /\ 1 + 2 = 3 /\ 1 + 3 = 4 /\ 1 + 4 = 5
      OBVIOUS
    <3>. HIDE DEF q
    <3>. QED  BY <2>4, <2>6, <3>1 DEF IsWriteAnswer
  <2>8. ReadBigEndianU16(pdu, 2) = ask.address /\ ReadBigEndianU16(pdu, 4) = q
    <3>1. 2 + 1 = 3 /\ 4 + 1 = 5
      OBVIOUS
    <3>2. ReadBigEndianU16(pdu, 2) = (ask.address \div 256) * 256 + (ask.address % 256)
      BY <2>7, <3>1 DEF ReadBigEndianU16
    <3>3. ReadBigEndianU16(pdu, 4) = (q \div 256) * 256 + (q % 256)
      BY <2>7, <3>1 DEF ReadBigEndianU16
    <3>4. (ask.address \div 256) * 256 + (ask.address % 256) = ask.address
      BY <1>1, RegisterBytes
    <3>5. (q \div 256) * 256 + (q % 256) = q
      <4>. HIDE DEF q
      <4>. QED  BY <1>1, RegisterBytes
    <3>. QED  BY <3>2, <3>3, <3>4, <3>5
  <2>9. pdu # <<>> /\ IsWellFormed(ask, pdu) /\ ValuesIn(ask, pdu) = values
    <3>1. ValuesIn(ask, pdu) = values
      BY <1>4, <2>8 DEF ValuesIn, values
    <3>2. IsList(pdu) /\ Len(pdu) > 0 /\ Len(pdu) >= 5
      <4>1. IsList(pdu)
        BY <2>6 DEF IsWriteAnswer
      <4>. QED  BY <2>7, <4>1
    <3>3. IsWellFormed(ask, pdu)
      BY <1>4, <3>2, Zenon DEF IsWellFormed
    <3>. QED  BY <1>2, <3>1, <3>2, <3>3, Zenon
  <2>10. Decode(ask, pdu) = Success(values)
    BY <2>2, <2>6, <2>9, Zenon DEF Decode, IsWriteAnswer
  <2>. QED  BY <2>1, <2>5, <2>10
<1>5. CASE Knows(ask) /\ ask.code \notin WriteCodes
  <2>. DEFINE Value(i) == IF ask.code \in {1, 2} THEN memory.coil[ask.address + i - 1]
                          ELSE memory.register[ask.address + i - 1]
              values == [i \in 1 .. q |-> Value(i)]
  <2>1. answer = Success(values)
    BY <1>5 DEF AnswerTo
  <2>2. ask.code \in ReadCodes /\ ~IsExceptionResponseFunctionCode(ask.code)
    BY <1>1, <1>5 DEF WriteCodes, ReadCodes, IsExceptionResponseFunctionCode
  <2>3. answer.status = "ok" /\ answer.values = values
    BY <2>1 DEF Success
  <2>4. /\ ask.code \in {1, 2} => values \in [1 .. q -> Bit]
        /\ ask.code \notin {1, 2} => values \in [1 .. q -> Register]
    <3>1. ASSUME NEW i \in 1 .. q PROVE IF ask.code \in {1, 2} THEN Value(i) \in Bit ELSE Value(i) \in Register
      <4>1. IF ask.code \in {1, 2} THEN ask.address + i - 1 \in Coils ELSE ask.address + i - 1 \in Registers
        BY <1>5, <2>2, InMemory
      <4>. QED  BY <4>1 DEF MemoryBooks, Bit
    <3>. HIDE DEF Value
    <3>. QED  BY <3>1
  <2>5. Len(values) = q
    <3>1. values = [i \in 1 .. q |-> values[i]]
      OBVIOUS
    <3>. HIDE DEF values
    <3>. QED  BY <1>1, <3>1, FunctionIsList
  <2>. HIDE DEF values
  <2>. DEFINE m == IF ask.code \in {1, 2} THEN (q + 7) \div 8 ELSE 2 * q
  <2>6. /\ IsList(data) /\ Len(data) = m /\ m \in Nat
        /\ ask.code \in {1, 2} => \A j \in 1 .. m : data[j] = ByteOfBits(values, 8 * j - 7)
        /\ ask.code \notin {1, 2} => \A j \in 1 .. m :
               data[j] = IF j % 2 = 1 THEN values[(j + 1) \div 2] \div 256 ELSE values[j \div 2] % 256
    <3>1. m \in Nat
      BY <1>1
    <3>2. CASE ask.code \in {1, 2}
      <4>1. data = [j \in 1 .. m |-> ByteOfBits(values, 8 * j - 7)]
        BY <2>3, <2>5, <3>2 DEF DataBytes
      <4>2. data = [j \in 1 .. m |-> data[j]] /\ \A j \in 1 .. m : data[j] = ByteOfBits(values, 8 * j - 7)
        BY <4>1
      <4>. HIDE DEF data, m
      <4>. QED  BY <3>1, <3>2, <4>2, FunctionIsList
    <3>3. CASE ask.code \notin {1, 2}
      <4>1. data = [j \in 1 .. m |-> IF j % 2 = 1 THEN values[(j + 1) \div 2] \div 256 ELSE values[j \div 2] % 256]
        BY <2>3, <2>5, <3>3 DEF DataBytes
      <4>2. /\ data = [j \in 1 .. m |-> data[j]]
            /\ \A j \in 1 .. m :
                   data[j] = IF j % 2 = 1 THEN values[(j + 1) \div 2] \div 256 ELSE values[j \div 2] % 256
        BY <4>1
      <4>. HIDE DEF data, m
      <4>. QED  BY <3>1, <3>3, <4>2, FunctionIsList
    <3>. QED  BY <3>2, <3>3
  <2>. HIDE DEF data
  <2>. DEFINE pdu == (<<ask.code>> \o <<Len(data)>>) \o data
  <2>7. said = pdu
    BY <2>2, <2>3 DEF AnswerPdu, data
  <2>8. IsReadAnswer(pdu, ask.code, data)
    BY <2>6, ReadAnswerParts, Zenon
  <2>. HIDE DEF pdu
  <2>9. /\ IsList(pdu) /\ Len(pdu) = 2 + Len(data) /\ Len(data) \in Nat
        /\ pdu[1] = ask.code /\ pdu[2] = Len(data)
        /\ \A i \in 1 .. Len(data) : pdu[2 + i] = data[i]
    BY <2>8 DEF IsReadAnswer
  <2>10. IsWellFormed(ask, pdu)
    <3>1. Len(pdu) >= 2 /\ Len(pdu) >= 2 + pdu[2]
      BY <2>9
    <3>2. IF IsBitCode(ask.code) THEN pdu[2] = (q + 7) \div 8 ELSE pdu[2] % 2 = 0
      BY <1>1, <2>6, <2>9 DEF IsBitCode
    <3>. QED  BY <1>5, <3>1, <3>2 DEF IsWellFormed
  <2>11. ValuesIn(ask, pdu) = values
    <3>1. CASE ask.code \in {1, 2}
      <4>1. ValuesIn(ask, pdu) = BitsIn(pdu, q)
        BY <1>5, <3>1 DEF ValuesIn, IsBitCode
      <4>2. m = (q + 7) \div 8
        BY <3>1
      <4>3. values \in [1 .. q -> Bit] /\ \A j \in 1 .. (q + 7) \div 8 : pdu[2 + j] = ByteOfBits(values, 8 * j - 7)
        <5>. HIDE DEF m, q
        <5>. QED  BY <2>4, <2>6, <2>9, <3>1, <4>2
      <4>. HIDE DEF q
      <4>4. BitsIn(pdu, q) = values
        BY <1>1, <4>3, BitsComeThrough
      <4>. QED  BY <4>1, <4>4
    <3>2. CASE ask.code \notin {1, 2}
      <4>1. ValuesIn(ask, pdu) = RegistersIn(pdu)
        BY <1>5, <3>2 DEF ValuesIn, IsBitCode
      <4>2. m = 2 * q
        BY <3>2
      <4>3. /\ values \in [1 .. q -> Register] /\ pdu[2] = 2 * q
            /\ \A j \in 1 .. 2 * q : pdu[2 + j] = IF j % 2 = 1 THEN values[(j + 1) \div 2] \div 256
                                                 ELSE values[j \div 2] % 256
        <5>. HIDE DEF m, q
        <5>. QED  BY <2>4, <2>6, <2>9, <3>2, <4>2
      <4>. HIDE DEF q
      <4>4. RegistersIn(pdu) = values
        BY <1>1, <4>3, RegistersComeThrough
      <4>. QED  BY <4>1, <4>4
    <3>. QED  BY <3>1, <3>2
  <2>12. pdu # <<>>
    BY <1>2, <2>9
  <2>13. Decode(ask, pdu) = Success(values)
    BY <2>2, <2>9, <2>10, <2>11, <2>12, Zenon DEF Decode
  <2>. QED  BY <2>1, <2>7, <2>13
<1>. QED  BY <1>3, <1>4, <1>5

-----------------------------------------------------------------------------
(* What the controller decodes is what the device answered.                *)

\* What the answers and the requests waiting for them are about, on a line that does no damage.
TruthBooks ==
    /\ job.framing = "Tcp" => damage = 0
    /\ damage = 0 =>
           /\ \A j \in 1 .. Len(heard) :
                  /\ heard[j].tid = j
                  /\ Decode(heard[j].took, AnswerPdu(heard[j].took, heard[j].answer)) = heard[j].answer
           /\ \A k \in 1 .. Waiting : pending[k].ask = heard[First + k].took
           /\ \A k \in 1 .. Len(line) : line[k].meant = pending[Waiting + k].ask
           /\ IsList(results)
           /\ \A i \in 1 .. Len(results) :
                  results[i].tid \in 1 .. Len(heard) /\ results[i].got = heard[results[i].tid].answer

\* The device has bits and registers in its memory at the start,
LEMMA MemoryStart == Init => MemoryBooks
<1>1. ASSUME NEW a \in Registers PROVE 4660 + 4 * a \in Register
  <2>. DEFINE top == 65535  n == 4660 + 4 * a
  <2>1. n \in Nat /\ n <= top /\ top \in Nat
    BY DEF Registers
  <2>2. Register = 0 .. top
    BY DEF Register
  <2>. HIDE DEF top, n
  <2>3. n \in 0 .. top
    BY <2>1
  <2>. QED  BY <2>2, <2>3 DEF n
<1>2. ASSUME NEW a \in Coils PROVE (a \div 2) % 2 \in {0, 1}
  BY DEF Coils
<1>. SUFFICES ASSUME Init PROVE MemoryBooks
  OBVIOUS
<1>3. memory = [register |-> [a \in Registers |-> 4660 + 4 * a], coil |-> [a \in Coils |-> (a \div 2) % 2]]
  BY DEF Init
<1>. QED  BY <1>3, <1>1, <1>2 DEF MemoryBooks

\* after it takes a request,
LEMMA MemoryAnswer == ASSUME PathBooks, MemoryBooks, DeviceAnswers PROVE MemoryBooks'
<1>. DEFINE ask == AskIn(Head(line).bytes)
<1>1. line # <<>> /\ memory' = Written(ask)
  BY RequestIsHeard, Zenon DEF AnswerRequest
<1>2. ask \in PossibleAsks
  <2>1. Head(line) = line[1] /\ Len(line) \in Nat \ {0}
    BY <1>1, Beheaded DEF PathBooks
  <2>2. Understood(line[1])
    BY <2>1 DEF PathBooks
  <2>. QED  BY <2>1, <2>2 DEF Understood
<1>. HIDE DEF ask
<1>3. ask.argument \in Register
  BY <1>2 DEF PossibleAsks
<1>4. CASE memory' = memory
  BY <1>4 DEF MemoryBooks
<1>5. CASE memory' = [memory EXCEPT !.coil[ask.address] = IF ask.argument = CoilOn THEN 1 ELSE 0]
  <2>. DEFINE bit == IF ask.argument = CoilOn THEN 1 ELSE 0
  <2>1. memory'.register = memory.register /\ memory'.coil = [memory.coil EXCEPT ![ask.address] = bit]
    BY <1>5
  <2>2. bit \in {0, 1}
    OBVIOUS
  <2>. HIDE DEF bit
  <2>. QED  BY <2>1, <2>2 DEF MemoryBooks
<1>6. CASE memory' = [memory EXCEPT !.register[ask.address] = ask.argument]
  <2>1. memory'.coil = memory.coil /\ memory'.register = [memory.register EXCEPT ![ask.address] = ask.argument]
    BY <1>6
  <2>. QED  BY <1>3, <2>1 DEF MemoryBooks
<1>. QED  BY <1>1, <1>4, <1>5, <1>6 DEF Written

\* and at all times.
LEMMA MemoryInductive == Spec => []MemoryBooks
<1>1. PathBooks /\ MemoryBooks /\ [Next]_vars => MemoryBooks'
  <2>. SUFFICES ASSUME PathBooks, MemoryBooks, [Next]_vars, ~DeviceAnswers PROVE MemoryBooks'
    BY MemoryAnswer
  <2>1. memory' = memory
    BY DEF Next, vars, hostVars, deviceVars, SendRequests, DataReceived, ConsumeTcpFrame, ConsumeRtuFrame,
           EndConsume, HandleTimeout, ClearLog
  <2>. QED  BY <2>1 DEF MemoryBooks
<1>. QED  BY <1>1, MemoryStart, BooksInductive, PTL DEF Spec

\* What waits is what was asked, and what was decoded is what was answered: at the start,
LEMMA TruthStart == Init => TruthBooks
<1>. SUFFICES ASSUME Init PROVE TruthBooks
  OBVIOUS
<1>1. damage = 0 /\ heard = <<>> /\ line = <<>> /\ results = <<>> /\ pending = <<>>
  BY DEF Init
<1>2. Len(heard) = 0 /\ Len(line) = 0 /\ Len(results) = 0 /\ IsList(results) /\ Len(pending) = 0
  BY <1>1, Empty, Zenon
<1>3. Waiting = 0
  BY <1>2 DEF Waiting
<1>. QED  BY <1>1, <1>2, <1>3 DEF TruthBooks

\* after sendRequest(),
LEMMA TruthSend == ASSUME PathBooks, CutBooks, TruthBooks, SendRequests PROVE TruthBooks'
<1>1. UNCHANGED <<job, damage, heard, results>>
  BY DEF SendRequests
<1>2. SUFFICES ASSUME damage = 0 PROVE TruthBooks'
  BY <1>1 DEF TruthBooks
<1>3. /\ Waiting' = 0 /\ Len(line') = Len(pending') /\ Len(pending') \in Nat
      /\ \A k \in 1 .. Len(pending') : line'[k].meant = pending'[k].ask
  BY <1>2, BatchGoesOut DEF CutBooks
<1>4. \A k \in 1 .. Len(line') : line'[k].meant = pending'[Waiting' + k].ask
  <2>1. ASSUME NEW k \in 1 .. Len(line') PROVE line'[k].meant = pending'[Waiting' + k].ask
    <3>1. Waiting' + k = k
      BY <1>3
    <3>. QED  BY <1>3, <3>1
  <2>. QED  BY <2>1
<1>. QED  BY <1>1, <1>2, <1>3, <1>4 DEF TruthBooks

\* after the device answers,
LEMMA TruthAnswer == ASSUME PathBooks, CutBooks, MemoryBooks, TruthBooks, DeviceAnswers PROVE TruthBooks'
<1>. DEFINE l == Len(heard)  entry == AnswerIn(line[1])
<1>1. job' = job /\ pending' = pending /\ results' = results
  BY DEF DeviceAnswers, hostVars
<1>2. job.framing = "Tcp" => damage' = damage
  BY RequestIsHeard DEF AnswerRequest, MayDamage
<1>3. SUFFICES ASSUME damage' = 0 PROVE TruthBooks'
  BY <1>1, <1>2 DEF TruthBooks
<1>4. /\ damage = 0
      /\ Len(line') = Len(line) - 1 /\ Len(line) \in Nat \ {0}
      /\ \A k \in 1 .. Len(line) - 1 : line'[k] = line[k + 1]
      /\ Understood(line[1]) /\ line[1].tid = First + (Waiting + 1)
      /\ First' = First /\ Waiting' = Waiting + 1
      /\ Len(heard') = l + 1 /\ heard'[l + 1] = entry
      /\ \A j \in 1 .. l : heard'[j] = heard[j]
  BY <1>3, FirstIsAnswered
<1>5. First \in Nat /\ Waiting \in Nat /\ First + Waiting = l
  BY <1>4 DEF CutBooks
<1>6. /\ \A j \in 1 .. l :
             /\ heard[j].tid = j
             /\ Decode(heard[j].took, AnswerPdu(heard[j].took, heard[j].answer)) = heard[j].answer
      /\ \A k \in 1 .. Waiting : pending[k].ask = heard[First + k].took
      /\ \A k \in 1 .. Len(line) : line[k].meant = pending[Waiting + k].ask
      /\ IsList(results)
      /\ \A i \in 1 .. Len(results) : results[i].tid \in 1 .. l /\ results[i].got = heard[results[i].tid].answer
  BY <1>4 DEF TruthBooks
<1>7. /\ entry.tid = l + 1 /\ entry.took = line[1].meant
      /\ Decode(entry.took, AnswerPdu(entry.took, entry.answer)) = entry.answer
  <2>. DEFINE ask == AskIn(line[1].bytes)
  <2>1. entry.tid = line[1].tid /\ entry.took = ask /\ entry.answer = AnswerTo(ask)
    BY DEF AnswerIn
  <2>2. ask = line[1].meant /\ ask \in PossibleAsks
    BY <1>4 DEF Understood
  <2>. HIDE DEF ask, entry
  <2>3. Decode(ask, AnswerPdu(ask, AnswerTo(ask))) = AnswerTo(ask)
    BY <2>2, AnswerDecodes
  <2>4. First + (Waiting + 1) = l + 1
    BY <1>5
  <2>. QED  BY <1>4, <2>1, <2>2, <2>3, <2>4
<1>. HIDE DEF l, entry
<1>8. ASSUME NEW j \in 1 .. l + 1
      PROVE  /\ heard'[j].tid = j
             /\ Decode(heard'[j].took, AnswerPdu(heard'[j].took, heard'[j].answer)) = heard'[j].answer
  <2>1. l \in Nat
    BY <1>5
  <2>2. CASE j = l + 1
    BY <1>4, <1>7, <2>2
  <2>3. CASE j # l + 1
    <3>1. j \in 1 .. l
      BY <2>1, <2>3
    <3>. QED  BY <1>4, <1>6, <3>1
  <2>. QED  BY <2>2, <2>3
<1>9. ASSUME NEW k \in 1 .. Waiting + 1 PROVE pending[k].ask = heard'[First + k].took
  <2>1. CASE k = Waiting + 1
    <3>1. 1 \in 1 .. Len(line) /\ First + k = l + 1
      BY <1>4, <1>5, <2>1
    <3>2. line[1].meant = pending[k].ask
      BY <1>6, <2>1, <3>1
    <3>. QED  BY <1>4, <1>7, <3>1, <3>2
  <2>2. CASE k # Waiting + 1
    <3>1. k \in 1 .. Waiting /\ First + k \in 1 .. l
      BY <1>5, <2>2
    <3>. QED  BY <1>4, <1>6, <3>1
  <2>. QED  BY <2>1, <2>2
<1>10. ASSUME NEW k \in 1 .. Len(line') PROVE line'[k].meant = pending[Waiting' + k].ask
  <2>1. k \in 1 .. Len(line) - 1 /\ k + 1 \in 1 .. Len(line) /\ Waiting + (k + 1) = (Waiting + 1) + k
    <3>. DEFINE m == Len(line)
    <3>1. Len(line') = m - 1 /\ m \in Nat \ {0} /\ Waiting \in Nat
      BY <1>4, <1>5
    <3>. HIDE DEF m
    <3>2. k \in 1 .. m - 1 /\ k + 1 \in 1 .. m /\ Waiting + (k + 1) = (Waiting + 1) + k
      BY <3>1
    <3>. QED  BY <3>2 DEF m
  <2>2. line'[k] = line[k + 1] /\ line[k + 1].meant = pending[Waiting + (k + 1)].ask
    BY <1>4, <1>6, <2>1
  <2>. QED  BY <1>4, <2>1, <2>2
<1>11. ASSUME NEW i \in 1 .. Len(results)
       PROVE  results[i].tid \in 1 .. l + 1 /\ results[i].got = heard'[results[i].tid].answer
  <2>1. results[i].tid \in 1 .. l /\ results[i].got = heard[results[i].tid].answer
    BY <1>6
  <2>2. results[i].tid \in 1 .. l + 1
    BY <1>5, <2>1
  <2>. QED  BY <1>4, <2>1, <2>2
<1>. QED  BY <1>1, <1>3, <1>4, <1>6, <1>8, <1>9, <1>10, <1>11 DEF TruthBooks

\* after a turn of a consume loop,
LEMMA TruthTurn == ASSUME PathBooks, CutBooks, TruthBooks, TakesFirst PROVE TruthBooks'
<1>1. /\ damage = 0 /\ UNCHANGED <<job, sent, line, damage, heard>>
      /\ CompleteRequest(1, Told[First + 1])
  BY DEF TakesFirst
<1>2. /\ Waiting \in Nat \ {0} /\ First' = First + 1 /\ Waiting' = Waiting - 1
      /\ Len(pending') = Len(pending) - 1 /\ Len(pending) \in Nat \ {0}
      /\ \A k \in 1 .. Len(pending) - 1 : pending'[k] = pending[k + 1]
  BY TurnMoves
<1>3. /\ First \in Nat /\ First + Waiting = Len(heard) /\ \A k \in 1 .. Len(pending) : pending[k].tid = First + k
  BY <1>1 DEF CutBooks
<1>4. Waiting = Len(pending) - Len(line) /\ Len(line) \in Nat
  BY ListIsFunction DEF Waiting, PathBooks
<1>5. /\ \A j \in 1 .. Len(heard) :
             /\ heard[j].tid = j
             /\ Decode(heard[j].took, AnswerPdu(heard[j].took, heard[j].answer)) = heard[j].answer
      /\ \A k \in 1 .. Waiting : pending[k].ask = heard[First + k].took
      /\ \A k \in 1 .. Len(line) : line[k].meant = pending[Waiting + k].ask
      /\ IsList(results)
      /\ \A i \in 1 .. Len(results) :
             results[i].tid \in 1 .. Len(heard) /\ results[i].got = heard[results[i].tid].answer
  BY <1>1 DEF TruthBooks
<1>6. ASSUME NEW k \in 1 .. Waiting' PROVE pending'[k].ask = heard'[First' + k].took
  <2>1. /\ k \in 1 .. Len(pending) - 1 /\ k + 1 \in 1 .. Waiting /\ First' + k = First + (k + 1)
    BY <1>2, <1>3, <1>4
  <2>2. pending'[k] = pending[k + 1] /\ pending[k + 1].ask = heard[First + (k + 1)].took
    BY <1>2, <1>5, <2>1
  <2>. QED  BY <1>1, <2>1, <2>2
<1>7. ASSUME NEW k \in 1 .. Len(line') PROVE line'[k].meant = pending'[Waiting' + k].ask
  <2>1. k \in 1 .. Len(line) /\ Waiting' + k \in 1 .. Len(pending) - 1 /\ (Waiting' + k) + 1 = Waiting + k
    <3>1. line' = line
      BY <1>1
    <3>2. k \in 1 .. Len(line)
      BY <3>1
    <3>. QED  BY <1>2, <1>4, <3>2
  <2>. QED  BY <1>1, <1>2, <1>5, <2>1
<1>8. /\ IsList(results')
      /\ \A i \in 1 .. Len(results') :
             results'[i].tid \in 1 .. Len(heard) /\ results'[i].got = heard[results'[i].tid].answer
  <2>. DEFINE said == Told[First + 1]  new == [tid |-> pending[1].tid, ask |-> pending[1].ask,
                                               got |-> Decode(pending[1].ask, said)]
              n == Len(results)
  <2>1. results' = results \/ results' = Append(results, new)
    BY <1>1 DEF CompleteRequest
  <2>2. CASE results' = results
    BY <1>5, <2>2
  <2>3. CASE results' = Append(results, new)
    <3>1. new.tid = First + 1 /\ First + 1 \in 1 .. Len(heard)
      <4>1. 1 \in 1 .. Len(pending) /\ First + 1 \in 1 .. Len(heard)
        BY <1>2, <1>3
      <4>. QED  BY <1>3, <4>1
    <3>2. new.got = heard[First + 1].answer
      <4>1. said = AnswerPdu(heard[First + 1].took, heard[First + 1].answer)
        BY <3>1 DEF Told
      <4>2. 1 \in 1 .. Waiting
        BY <1>2
      <4>3. pending[1].ask = heard[First + 1].took
        BY <1>5, <4>2
      <4>4. new.got = Decode(pending[1].ask, said)
        OBVIOUS
      <4>. HIDE DEF new, said
      <4>5. Decode(heard[First + 1].took, said) = heard[First + 1].answer
        BY <1>5, <3>1, <4>1
      <4>. QED  BY <4>3, <4>4, <4>5
    <3>. HIDE DEF new
    <3>3. /\ IsList(results') /\ Len(results') = n + 1 /\ results'[n + 1] = new
          /\ \A i \in 1 .. n : results'[i] = results[i]
      BY <1>5, <2>3, Appended
    <3>4. n \in Nat
      BY <1>5, ListIsFunction
    <3>. HIDE DEF n
    <3>5. ASSUME NEW i \in 1 .. n + 1
          PROVE  results'[i].tid \in 1 .. Len(heard) /\ results'[i].got = heard[results'[i].tid].answer
      <4>1. CASE i = n + 1
        BY <3>1, <3>2, <3>3, <4>1
      <4>2. CASE i # n + 1
        <5>1. i \in 1 .. n
          BY <3>4, <4>2
        <5>. QED  BY <1>5, <3>3, <5>1 DEF n
      <4>. QED  BY <4>1, <4>2
    <3>. QED  BY <3>3, <3>5
  <2>. QED  BY <2>1, <2>2, <2>3
<1>. QED  BY <1>1, <1>5, <1>6, <1>7, <1>8 DEF TruthBooks

\* Steps that complete nothing and move no request.
LEMMA TruthElse ==
    ASSUME TruthBooks, UNCHANGED <<job, sent, pending, line, results, damage, heard>>
    PROVE  TruthBooks'
<1>1. First' = First /\ Waiting' = Waiting
  BY DEF First, Waiting
<1>. QED  BY <1>1 DEF TruthBooks

\* and so at all times.
LEMMA TruthInductive == Spec => [](PathBooks /\ CutBooks /\ TruthBooks)
<1>1. PathBooks /\ CutBooks /\ MemoryBooks /\ TruthBooks /\ [Next]_vars => TruthBooks'
  <2>. SUFFICES ASSUME PathBooks, CutBooks, MemoryBooks, TruthBooks, [Next]_vars PROVE TruthBooks'
    OBVIOUS
  <2>1. CASE SendRequests
    BY <2>1, TruthSend
  <2>2. CASE DeviceAnswers
    BY <2>2, TruthAnswer
  <2>3. ASSUME NEW n \in DOMAIN wire, DataReceived(n) PROVE TruthBooks'
    BY <2>3, TruthElse DEF DataReceived
  <2>4. CASE ConsumeTcpFrame
    <3>1. ~(damage = 0) => TruthBooks'
      BY <2>4 DEF ConsumeTcpFrame, deviceVars, TruthBooks
    <3>. QED  BY <2>4, <3>1, TcpTakesFirst, TruthTurn
  <2>5. CASE ConsumeRtuFrame
    <3>1. ~(damage = 0) => TruthBooks'
      BY <2>5 DEF ConsumeRtuFrame, deviceVars, TruthBooks
    <3>. QED  BY <2>5, <3>1, RtuTakesFirst, TruthTurn
  <2>6. CASE EndConsume
    BY <2>6, TruthElse DEF EndConsume, deviceVars
  <2>7. CASE HandleTimeout
    <3>1. pending # <<>> /\ ~consuming /\ line = <<>> /\ wire = <<>> /\ damage' = damage /\ job' = job
      BY <2>7 DEF HandleTimeout
    <3>2. damage # 0
      BY <3>1, AllIsRead
    <3>. QED  BY <3>1, <3>2 DEF TruthBooks
  <2>8. CASE ClearLog
    BY <2>8, TruthElse DEF ClearLog, deviceVars
  <2>9. CASE UNCHANGED vars
    BY <2>9, TruthElse DEF vars, hostVars, deviceVars
  <2>. QED  BY <2>1, <2>2, <2>3, <2>4, <2>5, <2>6, <2>7, <2>8, <2>9 DEF Next
<1>. QED  BY <1>1, TruthStart, CutInductive, MemoryInductive, PTL DEF Spec

\* Over TCP, and over RTU as long as the line did no damage, what the controller decodes
\* is what the device answered to that request.
THEOREM ResultsTrue == Spec => [](job.framing = "Tcp" \/ damage = 0 => ResultsAreTrue)
<1>1. PathBooks /\ TruthBooks => (job.framing = "Tcp" \/ damage = 0 => ResultsAreTrue)
  <2>. SUFFICES ASSUME PathBooks, TruthBooks, damage = 0 PROVE ResultsAreTrue
    BY DEF TruthBooks
  <2>1. /\ IsList(results) /\ \A j \in 1 .. Len(heard) : heard[j].tid = j
        /\ \A i \in 1 .. Len(results) :
               results[i].tid \in 1 .. Len(heard) /\ results[i].got = heard[results[i].tid].answer
    BY DEF TruthBooks
  <2>2. DOMAIN results = 1 .. Len(results) /\ DOMAIN heard = 1 .. Len(heard)
    BY <2>1, ListIsFunction DEF PathBooks
  <2>3. ASSUME NEW i \in 1 .. Len(results)
        PROVE  \E j \in DOMAIN heard : heard[j].tid = results[i].tid /\ heard[j].answer = results[i].got
    <3>1. results[i].tid \in 1 .. Len(heard) /\ results[i].got = heard[results[i].tid].answer
      BY <2>1
    <3>. QED  BY <2>1, <2>2, <3>1
  <2>. QED  BY <2>2, <2>3 DEF ResultsAreTrue
<1>. QED  BY <1>1, TruthInductive, PTL

-----------------------------------------------------------------------------
(* Values: what a row shows, written back, gives the same registers, and    *)
(* the other way round.                                                    *)

\* The two bytes of a register, and the register of two bytes.
LEMMA BytesOfRegister ==
    ASSUME NEW r \in Register
    PROVE  High(r) * 256 + Low(r) = r
<1>1. r \in Int
  BY RegisterBounds
<1>2. (r \div 256) * 256 + (r % 256) = r
  BY <1>1, SMTT(30)
<1>3. QED BY <1>2 DEF High, Low

LEMMA RegisterOfBytes ==
    ASSUME NEW h \in Byte, NEW l \in Byte
    PROVE  High(h * 256 + l) = h /\ Low(h * 256 + l) = l
<1>1. h \in Int /\ l \in Int /\ 0 <= l /\ l < 256
  BY DEF Byte
<1>2. (h * 256 + l) \div 256 = h
  BY <1>1
<1>3. (h * 256 + l) % 256 = l
  BY <1>1
<1>4. QED BY <1>2, <1>3 DEF High, Low

\* A 32-bit number written to two registers and read back is the same number,
\* whatever the byte order (unpackToRegisters(), then packBytes()).
THEOREM WrittenWordReadsBack ==
    ASSUME NEW w \in Word, NEW order \in ByteOrders
    PROVE  LET registers == UnpackToRegisters(w, order)
           IN  PackBytes(registers[1], registers[2], order) = w
<1> DEFINE registers == UnpackToRegisters(w, order)
<1>1. w[1] \in Byte /\ w[2] \in Byte /\ w[3] \in Byte /\ w[4] \in Byte
      /\ w = <<w[1], w[2], w[3], w[4]>>
  BY DEF Word
<1> HIDE DEF registers
<1>2. CASE order = "ABCD"
  <2>1. registers = <<w[1] * 256 + w[2], w[3] * 256 + w[4]>>
    BY <1>2 DEF registers, UnpackToRegisters
  <2>2. QED BY <1>1, <1>2, <2>1, RegisterOfBytes DEF PackBytes, registers
<1>3. CASE order = "BADC"
  <2>1. registers = <<w[2] * 256 + w[1], w[4] * 256 + w[3]>>
    BY <1>3 DEF registers, UnpackToRegisters
  <2>2. QED BY <1>1, <1>3, <2>1, RegisterOfBytes DEF PackBytes, registers
<1>4. CASE order = "CDAB"
  <2>1. registers = <<w[3] * 256 + w[4], w[1] * 256 + w[2]>>
    BY <1>4 DEF registers, UnpackToRegisters
  <2>2. QED BY <1>1, <1>4, <2>1, RegisterOfBytes DEF PackBytes, registers
<1>5. CASE order = "DCBA"
  <2>1. registers = <<w[4] * 256 + w[3], w[2] * 256 + w[1]>>
    BY <1>5 DEF registers, UnpackToRegisters
  <2>2. QED BY <1>1, <1>5, <2>1, RegisterOfBytes DEF PackBytes, registers
<1>6. QED BY <1>2, <1>3, <1>4, <1>5 DEF ByteOrders

\* The bytes of two registers are those of these two registers, whatever the byte order.
LEMMA PackedUnpacked ==
    ASSUME NEW r0 \in Register, NEW r1 \in Register, NEW order \in ByteOrders
    PROVE  UnpackToRegisters(PackBytes(r0, r1, order), order) = <<r0, r1>>
<1> DEFINE bytes == PackBytes(r0, r1, order)
<1>1. /\ High(r0) * 256 + Low(r0) = r0
      /\ High(r1) * 256 + Low(r1) = r1
  BY BytesOfRegister
<1>2. CASE order = "ABCD"
  <2>1. bytes = <<High(r0), Low(r0), High(r1), Low(r1)>>
    BY <1>2 DEF PackBytes
  <2> HIDE DEF bytes
  <2>2. UnpackToRegisters(bytes, order) = <<bytes[1] * 256 + bytes[2], bytes[3] * 256 + bytes[4]>>
    BY <1>2 DEF UnpackToRegisters
  <2>3. QED BY <1>1, <2>1, <2>2 DEF bytes
<1>3. CASE order = "BADC"
  <2>1. bytes = <<Low(r0), High(r0), Low(r1), High(r1)>>
    BY <1>3 DEF PackBytes
  <2> HIDE DEF bytes
  <2>2. UnpackToRegisters(bytes, order) = <<bytes[2] * 256 + bytes[1], bytes[4] * 256 + bytes[3]>>
    BY <1>3 DEF UnpackToRegisters
  <2>3. QED BY <1>1, <2>1, <2>2 DEF bytes
<1>4. CASE order = "CDAB"
  <2>1. bytes = <<High(r1), Low(r1), High(r0), Low(r0)>>
    BY <1>4 DEF PackBytes
  <2> HIDE DEF bytes
  <2>2. UnpackToRegisters(bytes, order) = <<bytes[3] * 256 + bytes[4], bytes[1] * 256 + bytes[2]>>
    BY <1>4 DEF UnpackToRegisters
  <2>3. QED BY <1>1, <2>1, <2>2 DEF bytes
<1>5. CASE order = "DCBA"
  <2>1. bytes = <<Low(r1), High(r1), Low(r0), High(r0)>>
    BY <1>5 DEF PackBytes
  <2> HIDE DEF bytes
  <2>2. UnpackToRegisters(bytes, order) = <<bytes[4] * 256 + bytes[3], bytes[2] * 256 + bytes[1]>>
    BY <1>5 DEF UnpackToRegisters
  <2>3. QED BY <1>1, <2>1, <2>2 DEF bytes
<1>6. QED BY <1>2, <1>3, <1>4, <1>5 DEF ByteOrders

\* The bytes of a number, and the number of these bytes.
LEMMA WordOfNumber ==
    ASSUME NEW n \in Int
    PROVE  /\ ToWord(n) \in Word
           /\ 0 <= n \div 65536 /\ n \div 65536 <= 65535 => UnsignedWord(ToWord(n)) = n
           /\ -32768 <= n \div 65536 /\ n \div 65536 <= 32767 => SignedWord(ToWord(n)) = n
<1>. DEFINE a == n \div 16777216  b == n \div 65536  c == n \div 256
            w1 == a % 256  w2 == b % 256  w3 == c % 256  w4 == n % 256
            w == <<w1, w2, w3, w4>>
<1>1. a \in Int /\ b \in Int /\ c \in Int
  BY SMT
<1>2. n = 256 * c + w4 /\ w4 \in Int /\ 0 <= w4 /\ w4 < 256
  BY SMT
<1>3. c = 256 * b + w3 /\ w3 \in Int /\ 0 <= w3 /\ w3 < 256
  <2>1. c \div 256 = b
    BY SMT
  <2>. HIDE DEF b, c
  <2>. QED  BY <1>1, <2>1, SMT
<1>4. b = 256 * a + w2 /\ w2 \in Int /\ 0 <= w2 /\ w2 < 256
  <2>1. b \div 256 = a
    BY SMT
  <2>. HIDE DEF a, b
  <2>. QED  BY <1>1, <2>1, SMT
<1>. HIDE DEF a, b, c
<1>5. w1 \in Int /\ 0 <= w1 /\ w1 < 256
  BY <1>1
<1>6. /\ 0 <= b /\ b <= 65535 => a = w1
      /\ -32768 <= b /\ b <= 32767 => a = IF w1 >= 128 THEN w1 - 256 ELSE w1
  <2>. HIDE DEF w2, w3, w4
  <2>. QED  BY <1>1, <1>4, SMT
<1>7. ToWord(n) = w
  BY SMT DEF ToWord, a, b, c
<1>. HIDE DEF w1, w2, w3, w4
<1>8. w \in Word
  BY <1>2, <1>3, <1>4, <1>5 DEF Word, Byte
<1>9. n = a * 16777216 + w2 * 65536 + w3 * 256 + w4
  BY <1>1, <1>2, <1>3, <1>4, SMT
<1>10. w[1] = w1 /\ w[2] = w2 /\ w[3] = w3 /\ w[4] = w4
  OBVIOUS
<1>. HIDE DEF w
<1>11. 0 <= b /\ b <= 65535 => UnsignedWord(w) = n
  BY <1>6, <1>9, <1>10, SMT DEF UnsignedWord, WordFrom
<1>12. -32768 <= b /\ b <= 32767 => SignedWord(w) = n
  BY <1>6, <1>9, <1>10, SMT DEF SignedWord, WordFrom
<1>. QED  BY <1>7, <1>8, <1>11, <1>12 DEF b

\* The bytes of the number of a word are that word.
LEMMA NumberOfWord ==
    ASSUME NEW w \in Word
    PROVE  /\ UnsignedWord(w) \in Int /\ ToWord(UnsignedWord(w)) = w
           /\ SignedWord(w) \in Int /\ ToWord(SignedWord(w)) = w
<1>. DEFINE w1 == w[1]  w2 == w[2]  w3 == w[3]  w4 == w[4]
<1>1. /\ w1 \in Int /\ 0 <= w1 /\ w1 < 256 /\ w2 \in Int /\ 0 <= w2 /\ w2 < 256
      /\ w3 \in Int /\ 0 <= w3 /\ w3 < 256 /\ w4 \in Int /\ 0 <= w4 /\ w4 < 256
      /\ w = <<w1, w2, w3, w4>>
  BY DEF Word, Byte
<1>2. ASSUME NEW top \in Int, top % 256 = w1
      PROVE  WordFrom(top, w) \in Int /\ ToWord(WordFrom(top, w)) = w
  <2>. DEFINE n == top * 16777216 + w2 * 65536 + w3 * 256 + w4
  <2>1. WordFrom(top, w) = n
    BY SMT DEF WordFrom
  <2>. HIDE DEF w1, w2, w3, w4
  <2>2. n \in Int /\ n % 256 = w4
    BY <1>1, SMT
  <2>3. (n \div 256) % 256 = w3
    <3>1. n \div 256 = top * 65536 + w2 * 256 + w3
      BY <1>1, SMT
    <3>. HIDE DEF n
    <3>. QED  BY <1>1, <3>1, SMT
  <2>4. (n \div 65536) % 256 = w2
    <3>1. n \div 65536 = top * 256 + w2
      BY <1>1, SMT
    <3>. HIDE DEF n
    <3>. QED  BY <1>1, <3>1, SMT
  <2>5. (n \div 16777216) % 256 = w1
    <3>1. n \div 16777216 = top
      BY <1>1, SMT
    <3>. HIDE DEF n
    <3>. QED  BY <1>2, <3>1
  <2>. HIDE DEF n
  <2>6. ToWord(n) = <<w1, w2, w3, w4>>
    BY <2>2, <2>3, <2>4, <2>5, SMT DEF ToWord
  <2>. QED  BY <1>1, <2>1, <2>2, <2>6
<1>3. UnsignedWord(w) = WordFrom(w1, w) /\ SignedWord(w) = WordFrom(IF w1 >= 128 THEN w1 - 256 ELSE w1, w)
  BY DEF UnsignedWord, SignedWord
<1>. HIDE DEF w1, w2, w3, w4
<1>4. w1 % 256 = w1 /\ (w1 - 256) % 256 = w1 /\ w1 - 256 \in Int
  BY <1>1, SMT
<1>. QED  BY <1>1, <1>2, <1>3, <1>4

\* A register shown as a signed number and written back is the same register
\* (qint16() and quint16() in numericValue() and parseValue()).
THEOREM SignedRegistersWriteBack ==
    ASSUME NEW r \in Register
    PROVE  ToRegister(Signed(r)) = r
<1>1. r \in Int /\ 0 <= r /\ r <= 65535
  BY RegisterBounds
<1>2. CASE r >= 32768
  <2>1. Signed(r) = r - 65536
    BY <1>2 DEF Signed
  <2>2. (r - 65536) % 65536 = r
    BY <1>1, SMTT(30)
  <2>3. QED BY <2>1, <2>2 DEF ToRegister
<1>3. CASE r < 32768
  <2>1. Signed(r) = r
    BY <1>1, <1>3 DEF Signed
  <2>2. r % 65536 = r
    BY <1>1, SMTT(30)
  <2>3. QED BY <2>1, <2>2 DEF ToRegister
<1>4. QED BY <1>1, <1>2, <1>3

-----------------------------------------------------------------------------
(* A value typed into a row, written and read again.                       *)

\* The requests of such a job, by transaction id: the writes, then the read.
Writes  == Len(job.batches[1])
Reading == job.batches[2][1]
Asked(tid) == IF tid <= Writes THEN job.batches[1][tid] ELSE Reading

Parsed == ParseValue(job.settings, job.text)

\* The number of registers a text is parsed to is the span of the format.
LEMMA ParsedSpan ==
    ASSUME NEW settings, settings.byteOrder \in ByteOrders, NEW text
    PROVE  /\ IsList(ParseValue(settings, text))
           /\ Len(ParseValue(settings, text)) = RegisterSpanFor(settings.format)
           /\ RegisterSpanFor(settings.format) \in {1, 2}
<1>1. ASSUME NEW w PROVE \E x, y : UnpackToRegisters(w, settings.byteOrder) = <<x, y>>
  <2>. DEFINE pair == UnpackToRegisters(w, settings.byteOrder)
  <2>1. \/ pair = <<w[1] * 256 + w[2], w[3] * 256 + w[4]>>
        \/ pair = <<w[2] * 256 + w[1], w[4] * 256 + w[3]>>
        \/ pair = <<w[3] * 256 + w[4], w[1] * 256 + w[2]>>
        \/ pair = <<w[4] * 256 + w[3], w[2] * 256 + w[1]>>
    BY SMT DEF UnpackToRegisters, ByteOrders
  <2>. HIDE DEF pair
  <2>2. ASSUME NEW a, NEW b, pair = <<a, b>> PROVE \E x, y : pair = <<x, y>>
    BY <2>2, Zenon
  <2>3. \E x, y : pair = <<x, y>>
    BY <2>1, <2>2, SMT
  <2>. QED  BY <2>3 DEF pair
<1>2. \/ RegisterSpanFor(settings.format) = 1 /\ \E x : ParseValue(settings, text) = <<x>>
      \/ RegisterSpanFor(settings.format) = 2 /\ \E x, y : ParseValue(settings, text) = <<x, y>>
  <2>. DEFINE w == ToWord(RoundedQuotient(text.number - settings.offset, settings.scale))
              pair == UnpackToRegisters(w, settings.byteOrder)
  <2>1. \E x, y : pair = <<x, y>>
    BY <1>1
  <2>2. settings.format \in PlainFormats => settings.format \notin PairFormats
    BY DEF PlainFormats, PairFormats
  <2>3. IF settings.format \in PairFormats THEN ParseValue(settings, text) = pair
        ELSE \E x : ParseValue(settings, text) = <<x>>
    BY <2>2, Zenon DEF ParseValue
  <2>. HIDE DEF pair
  <2>. QED  BY <2>1, <2>3, Zenon DEF RegisterSpanFor
<1>. DEFINE parsed == ParseValue(settings, text)  span == RegisterSpanFor(settings.format)
<1>. HIDE DEF parsed, span
<1>3. ASSUME span = 1, NEW x, parsed = <<x>> PROVE IsList(parsed) /\ Len(parsed) = span
  BY <1>3, OneMember
<1>4. ASSUME span = 2, NEW x, NEW y, parsed = <<x, y>> PROVE IsList(parsed) /\ Len(parsed) = span
  BY <1>4, TwoMembers
<1>5. \/ span = 1 /\ \E x : parsed = <<x>>
      \/ span = 2 /\ \E x, y : parsed = <<x, y>>
  BY <1>2 DEF parsed, span
<1>6. IsList(parsed) /\ Len(parsed) = span /\ span \in {1, 2}
  BY <1>3, <1>4, <1>5
<1>. QED  BY <1>6 DEF parsed, span

\* A list of at most one member after another.
LEMMA TwoBatches ==
    ASSUME NEW a, NEW b
    PROVE  /\ Head(<<a, b>>) = a /\ Tail(<<a, b>>) = <<b>> /\ Head(<<b>>) = b /\ Tail(<<b>>) = <<>>
           /\ <<a, b>> # <<>> /\ <<b>> # <<>> /\ <<a, b>> # <<b>>
  OBVIOUS

\* What a typed job consists of.
LEMMA TypedJob ==
    ASSUME job \in Jobs, job.text # <<>>
    PROVE  /\ job.batches = <<job.batches[1], <<Reading>>>> /\ IsList(job.batches[1])
           /\ Reading = Ask(3, Reading.address, RegisterSpanFor(job.settings.format))
           /\ Reading \in PossibleAsks /\ Reading.code = 3 /\ Reading.argument \in {1, 2}
           /\ Writes \in {0, Reading.argument}
           /\ \A j \in 1 .. Writes :
                  /\ job.batches[1][j] = Ask(6, Reading.address + j - 1, Parsed[j])
                  /\ job.batches[1][j] \in PossibleAsks
<1>. DEFINE a == Reading.address  s == job.settings  t == job.text  w == WriteAsks(a, s, t)
            span == RegisterSpanFor(s.format)  read == Ask(3, a, span)
<1>1. job = TypeValue(job.framing, a, s, t) /\ s.byteOrder \in ByteOrders
  BY TypedAssumption DEF IsTyped, Reading
<1>2. job.batches = <<w, <<read>>>>
  <2>1. TypeValue(job.framing, a, s, t).batches = <<w, <<read>>>>
    BY DEF TypeValue, FunctionCode
  <2>. HIDE DEF w, read, a, s, t
  <2>. QED  BY <1>1, <2>1
<1>3. /\ IsList(w) /\ Len(w) \in {0, span}
      /\ \A j \in 1 .. Len(w) : w[j] = Ask(6, a + j - 1, Parsed[j])
  <2>. DEFINE n == Len(Parsed)
  <2>1. IsList(Parsed) /\ n = span /\ span \in {1, 2}
    BY <1>1, ParsedSpan DEF Parsed
  <2>2. \/ w = <<>>
        \/ w = [k \in 1 .. n |-> Ask(6, a + k - 1, Parsed[k])]
    BY DEF WriteAsks, FunctionCode, Parsed
  <2>3. CASE w = <<>>
    <3>1. Len(w) = 0 /\ IsList(w)
      BY <2>3, Empty
    <3>. HIDE DEF w
    <3>. QED  BY <3>1
  <2>4. CASE w = [k \in 1 .. n |-> Ask(6, a + k - 1, Parsed[k])]
    <3>. HIDE DEF w, n, span, a
    <3>1. n \in Nat
      BY <2>1
    <3>2. w = [k \in 1 .. n |-> w[k]] /\ \A k \in 1 .. n : w[k] = Ask(6, a + k - 1, Parsed[k])
      BY <2>4
    <3>3. IsList(w) /\ Len(w) = n
      BY <3>1, <3>2, FunctionIsList
    <3>. QED  BY <2>1, <3>2, <3>3
  <2>. QED  BY <2>2, <2>3, <2>4
<1>4. job.batches[1] = w /\ Reading = read
  <2>. HIDE DEF w, read
  <2>1. job.batches[1] = w /\ job.batches[2] = <<read>>
    BY <1>2
  <2>2. Reading = read
    BY <2>1 DEF Reading
  <2>. QED  BY <2>1, <2>2
<1>5. span \in {1, 2} /\ Reading.argument = span /\ Reading.code = 3
  <2>1. span \in {1, 2}
    BY <1>1, ParsedSpan
  <2>2. read.argument = span /\ read.code = 3
    BY DEF Ask
  <2>. QED  BY <1>4, <2>1, <2>2
<1>. HIDE DEF w, span
<1>6. /\ Reading \in PossibleAsks /\ \A j \in 1 .. Len(w) : w[j] \in PossibleAsks
  <2>. DEFINE S == Seq(PossibleAsks)
  <2>1. job.batches \in Seq(S)
    BY JobsAssumption
  <2>. HIDE DEF S, read
  <2>2. Len(job.batches) = 2
    BY <1>2, TwoMembers
  <2>3. job.batches[1] \in S /\ job.batches[2] \in S
    BY <2>1, <2>2
  <2>4. job.batches[2] = <<read>>
    BY <1>2, TwoMembers
  <2>5. Len(job.batches[2]) = 1
    BY <2>4, OneMember
  <2>. QED  BY <1>4, <2>3, <2>5 DEF S, Reading
<1>7. Reading = Ask(3, Reading.address, RegisterSpanFor(job.settings.format))
  BY <1>4 DEF span
<1>8. job.batches = <<job.batches[1], <<Reading>>>>
  BY <1>2, <1>4, Zenon
<1>9. Writes = Len(w) /\ job.batches[1] = w
  BY <1>4, Zenon DEF Writes
<1>. HIDE DEF a, read
<1>. QED  BY <1>3, <1>5, <1>6, <1>7, <1>8, <1>9 DEF a

\* Where a typed job is: its batches go out one after the other, and what the controller
\* decodes are the answers to the last write and to the read, in this order.
Stage ==
    \/ todo = job.batches /\ sent = 0
    \/ todo = Tail(job.batches) /\ sent = Writes
    \/ todo = <<>> /\ sent = Writes + 1

LastOfBatch ==
    /\ \A i \in 1 .. Len(results) : results[i].tid \in {Writes, Writes + 1} /\ results[i].tid \in 1 .. First
    /\ \A i, k \in 1 .. Len(results) : i < k => results[i].tid < results[k].tid

\* Its requests wait and are taken in the order of the job.
InItsOrder ==
    /\ \A k \in 1 .. Len(pending) : pending[k].ask = Asked(First + k)
    /\ \A j \in 1 .. Len(heard) : heard[j].took = Asked(j)

\* What was written is in the device, and the read says so.
Kept == \A j \in 1 .. Writes : j <= Len(heard) /\ Knows(Asked(j)) =>
            memory.register[Asked(j).address] = Asked(j).argument

ReadBack == Writes # 0 /\ Writes + 1 <= Len(heard) /\ heard[Writes + 1].answer.status = "ok" =>
                \A j \in 1 .. Writes : heard[Writes + 1].answer.values[j] = Asked(j).argument

TypedBooks == damage = 0 /\ job.text # <<>> => Stage /\ LastOfBatch /\ InItsOrder /\ Kept /\ ReadBack

\* The books of a typed job hold at the start,
LEMMA TypedStart == Init => TypedBooks
<1>. SUFFICES ASSUME Init, job.text # <<>> PROVE TypedBooks
  BY DEF TypedBooks
<1>1. todo = job.batches /\ sent = 0 /\ Len(results) = 0 /\ Len(pending) = 0 /\ Len(heard) = 0
  BY Empty DEF Init
<1>2. Writes \in Nat
  <2>1. job \in Jobs
    BY DEF Init
  <2>. QED  BY <2>1, TypedJob
<1>3. Stage
  BY <1>1 DEF Stage
<1>4. LastOfBatch
  BY <1>1 DEF LastOfBatch
<1>5. InItsOrder
  BY <1>1 DEF InItsOrder
<1>6. Kept /\ ReadBack
  BY <1>1, <1>2 DEF Kept, ReadBack
<1>. QED  BY <1>3, <1>4, <1>5, <1>6 DEF TypedBooks

\* after sendRequest(),
LEMMA TypedSend == ASSUME PathBooks, CutBooks, TypedBooks, SendRequests PROVE TypedBooks'
<1>1. UNCHANGED <<job, damage, heard, results, memory>>
  BY DEF SendRequests
<1>2. SUFFICES ASSUME damage = 0, job.text # <<>> PROVE TypedBooks'
  BY <1>1 DEF TypedBooks
<1>3. Stage /\ LastOfBatch /\ InItsOrder /\ Kept /\ ReadBack
  BY <1>2 DEF TypedBooks
<1>4. Writes' = Writes /\ \A j : Asked(j)' = Asked(j)
  BY <1>1 DEF Asked, Writes, Reading
<1>5. First' = First /\ First \in Nat /\ sent' = sent + Len(line') /\ Len(line') = Len(pending')
  BY <1>2, BatchGoesOut DEF CutBooks
<1>6. /\ todo # <<>> /\ pending = <<>> /\ todo' = Tail(todo)
      /\ sent' = sent + Len(Head(todo))
      /\ pending' = [k \in DOMAIN Head(todo) |-> [tid |-> sent + k, ask |-> Head(todo)[k], attempts |-> 1]]
  BY Zenon DEF SendRequests
<1>7. First = sent /\ sent \in Nat
  BY <1>5, <1>6, Empty DEF First, PathBooks
<1>8. /\ job.batches = <<job.batches[1], <<Reading>>>> /\ IsList(job.batches[1]) /\ Writes \in Nat
  <2>1. Reading.argument \in Nat /\ Writes \in {0, Reading.argument} /\ job.batches = <<job.batches[1], <<Reading>>>>
        /\ IsList(job.batches[1])
    BY <1>2, TypedJob DEF PathBooks
  <2>. QED  BY <2>1
<1>9. /\ Stage'
      /\ \A k \in 1 .. Len(pending') : pending'[k].ask = Asked(First + k)
  <2>. DEFINE w == job.batches[1]  r == <<Reading>>
  <2>1. /\ Head(job.batches) = w /\ Tail(job.batches) = <<r>> /\ Head(<<r>>) = r /\ Tail(<<r>>) = <<>>
        /\ job.batches # <<>>
    <3>. HIDE DEF w, r
    <3>1. job.batches = <<w, r>>
      BY <1>8 DEF w, r
    <3>. QED  BY <3>1, TwoBatches
  <2>2. CASE todo = job.batches /\ sent = 0
    <3>1. Head(todo) = w /\ todo' = Tail(job.batches) /\ sent' = Writes
      BY <1>6, <1>8, <2>1, <2>2 DEF Writes
    <3>2. Stage'
      BY <1>1, <1>4, <3>1 DEF Stage
    <3>3. DOMAIN w = 1 .. Writes
      BY <1>8, ListIsFunction DEF Writes
    <3>4. Len(pending') = Writes
      BY <1>5, <1>7, <1>8, <2>2, <3>1 DEF First
    <3>5. ASSUME NEW k \in 1 .. Len(pending') PROVE pending'[k].ask = Asked(First + k)
      <4>1. pending'[k].ask = w[k]
        BY <1>6, <3>1, <3>3, <3>4
      <4>2. First + k = k /\ k <= Writes
        BY <1>7, <1>8, <2>2, <3>4
      <4>. QED  BY <4>1, <4>2 DEF Asked
    <3>. QED  BY <3>2, <3>5
  <2>3. CASE todo = Tail(job.batches) /\ sent = Writes
    <3>1. Len(r) = 1 /\ DOMAIN r = 1 .. 1 /\ r[1] = Reading
      OBVIOUS
    <3>. HIDE DEF r, w
    <3>2. Head(todo) = r /\ todo' = <<>>
      BY <1>6, <2>1, <2>3
    <3>3. sent' = Writes + 1
      BY <1>6, <2>3, <3>1, <3>2
    <3>4. Stage'
      BY <1>1, <1>4, <3>2, <3>3 DEF Stage
    <3>5. Len(pending') = 1
      BY <1>5, <1>7, <1>8, <2>3, <3>3 DEF First
    <3>6. ASSUME NEW k \in 1 .. Len(pending') PROVE pending'[k].ask = Asked(First + k)
      <4>1. k = 1
        BY <3>5
      <4>2. pending'[1].ask = Reading
        BY <1>6, <3>1, <3>2
      <4>3. Asked(Writes + 1) = Reading
        BY <1>8 DEF Asked
      <4>. QED  BY <1>7, <2>3, <4>1, <4>2, <4>3
    <3>. QED  BY <3>4, <3>6
  <2>. QED  BY <1>3, <1>6, <2>2, <2>3 DEF Stage
<1>10. InItsOrder'
  BY <1>1, <1>3, <1>4, <1>5, <1>9 DEF InItsOrder
<1>11. LastOfBatch' /\ Kept' /\ ReadBack'
  BY <1>1, <1>3, <1>4, <1>5, Zenon DEF LastOfBatch, Kept, ReadBack
<1>. QED  BY <1>9, <1>10, <1>11 DEF TypedBooks

\* What a device that takes a write keeps,
LEMMA WriteIsKept ==
    ASSUME MemoryBooks, NEW ask, ask.code = 6
    PROVE  /\ Knows(ask) => Written(ask).register[ask.address] = ask.argument
           /\ \A a \in Nat : a # ask.address => Written(ask).register[a] = memory.register[a]
<1>1. CASE ~Knows(ask)
  BY <1>1 DEF Written
<1>2. CASE Knows(ask)
  <2>1. ask.address \in Registers
    BY <1>2 DEF Knows, ReadCodes
  <2>2. Written(ask) = [memory EXCEPT !.register[ask.address] = ask.argument]
    BY <1>2 DEF Written
  <2>3. memory.register \in [Registers -> Register]
    BY DEF MemoryBooks
  <2>4. Written(ask).register = [memory.register EXCEPT ![ask.address] = ask.argument]
    BY <2>2
  <2>. QED  BY <2>1, <2>3, <2>4
<1>. QED  BY <1>1, <1>2

\* and what it says to a read.
LEMMA ReadIsKept ==
    ASSUME NEW ask, ask.code = 3
    PROVE  /\ Written(ask) = memory
           /\ AnswerTo(ask).status = "ok" =>
                  Knows(ask) /\ \A i \in 1 .. ask.argument : AnswerTo(ask).values[i] = memory.register[ask.address + i - 1]
<1>1. Written(ask) = memory
  BY DEF Written
<1>2. CASE ~Knows(ask)
  BY <1>1, <1>2 DEF AnswerTo, Exception
<1>3. CASE Knows(ask)
  <2>1. ask.code \notin WriteCodes /\ ask.code \notin {1, 2}
    BY DEF WriteCodes
  <2>2. AnswerTo(ask) = Success([i \in 1 .. ask.argument |-> memory.register[ask.address + i - 1]])
    BY <1>3, <2>1 DEF AnswerTo
  <2>. QED  BY <1>1, <1>3, <2>2 DEF Success
<1>. QED  BY <1>2, <1>3

\* after the device answers,
LEMMA TypedAnswer == ASSUME PathBooks, CutBooks, MemoryBooks, TruthBooks, TypedBooks, DeviceAnswers PROVE TypedBooks'
<1>. DEFINE l == Len(heard)  entry == AnswerIn(line[1])  now == Asked(l + 1)
<1>1. UNCHANGED <<job, todo, sent, pending, results>> /\ memory' = Written(AskIn(line[1].bytes))
  <2>1. memory' = Written(AskIn(line[1].bytes)) /\ UNCHANGED hostVars /\ job' = job
    BY RequestIsHeard, Zenon DEF AnswerRequest
  <2>. QED  BY <2>1 DEF hostVars
<1>2. SUFFICES ASSUME damage' = 0, job.text # <<>> PROVE TypedBooks'
  BY <1>1 DEF TypedBooks
<1>3. /\ damage = 0
      /\ Len(line) \in Nat \ {0} /\ Understood(line[1])
      /\ First' = First /\ Waiting' = Waiting + 1
      /\ Len(heard') = l + 1 /\ heard'[l + 1] = entry
      /\ \A j \in 1 .. l : heard'[j] = heard[j]
  BY <1>2, FirstIsAnswered
<1>4. First \in Nat /\ Waiting \in Nat /\ First + Waiting = l
  BY <1>3 DEF CutBooks
<1>5. Stage /\ LastOfBatch /\ InItsOrder /\ Kept /\ ReadBack
  BY <1>2, <1>3 DEF TypedBooks
<1>6. Writes' = Writes /\ \A j : Asked(j)' = Asked(j)
  BY <1>1 DEF Asked, Writes, Reading
<1>7. entry.took = now /\ entry.answer = AnswerTo(now) /\ memory' = Written(now)
  <2>. DEFINE ask == AskIn(line[1].bytes)
  <2>1. entry.took = ask /\ entry.answer = AnswerTo(ask)
    BY DEF AnswerIn
  <2>2. ask = line[1].meant
    BY <1>3 DEF Understood
  <2>. HIDE DEF ask, entry
  <2>3. 1 \in 1 .. Len(line) /\ Waiting + 1 \in 1 .. Len(pending) /\ First + (Waiting + 1) = l + 1
    <3>1. Waiting = Len(pending) - Len(line) /\ Len(pending) \in Nat
      BY ListIsFunction, AList DEF Waiting, PathBooks
    <3>. QED  BY <1>3, <1>4, <3>1
  <2>4. line[1].meant = pending[Waiting + 1].ask
    BY <1>3, <2>3 DEF TruthBooks
  <2>5. pending[Waiting + 1].ask = Asked(First + (Waiting + 1))
    BY <1>5, <2>3 DEF InItsOrder
  <2>6. ask = now
    BY <2>2, <2>3, <2>4, <2>5
  <2>. QED  BY <1>1, <2>1, <2>6 DEF ask
<1>8. /\ Reading.code = 3 /\ Reading.address \in Nat /\ Reading.argument \in {1, 2}
      /\ Writes \in {0, Reading.argument}
      /\ \A j \in 1 .. Writes : Asked(j).code = 6 /\ Asked(j).address = Reading.address + j - 1
  <2>1. /\ Reading = Ask(3, Reading.address, RegisterSpanFor(job.settings.format))
        /\ Reading \in PossibleAsks /\ Reading.code = 3 /\ Reading.argument \in {1, 2}
        /\ Writes \in {0, Reading.argument}
        /\ \A j \in 1 .. Writes : job.batches[1][j] = Ask(6, Reading.address + j - 1, Parsed[j])
    BY <1>2, TypedJob DEF PathBooks
  <2>2. Reading.address \in Nat
    BY <2>1, RegisterBounds DEF PossibleAsks
  <2>3. ASSUME NEW j \in 1 .. Writes PROVE Asked(j).code = 6 /\ Asked(j).address = Reading.address + j - 1
    <3>1. Asked(j) = job.batches[1][j]
      BY <2>1 DEF Asked
    <3>2. Asked(j) = Ask(6, Reading.address + j - 1, Parsed[j])
      BY <2>1, <3>1
    <3>. QED  BY <3>2 DEF Ask
  <2>. QED  BY <2>1, <2>2, <2>3
<1>. HIDE DEF l, entry, now
<1>9. Stage' /\ LastOfBatch'
  BY <1>1, <1>3, <1>5, <1>6, Zenon DEF Stage, LastOfBatch
<1>10. InItsOrder'
  <2>1. ASSUME NEW j \in 1 .. l + 1 PROVE heard'[j].took = Asked(j)
    <3>1. CASE j = l + 1
      BY <1>3, <1>7, <3>1 DEF now
    <3>2. CASE j # l + 1
      <4>1. j \in 1 .. l
        BY <1>4, <3>2
      <4>. QED  BY <1>3, <1>5, <4>1 DEF InItsOrder, l
    <3>. QED  BY <3>1, <3>2
  <2>. QED  BY <1>1, <1>3, <1>5, <1>6, <2>1 DEF InItsOrder
<1>11. ASSUME NEW j \in 1 .. Writes, j <= l + 1, Knows(Asked(j))
       PROVE  memory'.register[Asked(j).address] = Asked(j).argument
  <2>1. Writes \in Nat /\ l \in Nat /\ j \in Nat
    BY <1>4, <1>8
  <2>2. CASE j = l + 1
    <3>1. now = Asked(j) /\ now.code = 6
      BY <1>8, <2>2 DEF now
    <3>. QED  BY <1>7, <1>11, <3>1, WriteIsKept
  <2>3. CASE j <= l /\ l + 1 <= Writes
    <3>1. l + 1 \in 1 .. Writes
      BY <2>1, <2>3
    <3>2. now.code = 6 /\ now.address = Reading.address + (l + 1) - 1
      BY <1>8, <3>1 DEF now
    <3>3. Asked(j).address \in Nat /\ Asked(j).address # now.address
      BY <1>8, <2>1, <2>3, <3>2
    <3>4. memory'.register[Asked(j).address] = memory.register[Asked(j).address]
      BY <1>7, <3>2, <3>3, WriteIsKept
    <3>. QED  BY <1>5, <1>11, <2>3, <3>4 DEF Kept, l
  <2>4. CASE j <= l /\ ~(l + 1 <= Writes)
    <3>1. now = Reading
      BY <2>4 DEF now, Asked
    <3>2. memory' = memory
      BY <1>7, <1>8, <3>1, ReadIsKept
    <3>. QED  BY <1>5, <1>11, <2>4, <3>2 DEF Kept, l
  <2>. QED  BY <1>11, <2>1, <2>2, <2>3, <2>4
<1>12. ASSUME Writes # 0, Writes + 1 <= l + 1, heard'[Writes + 1].answer.status = "ok", NEW j \in 1 .. Writes
       PROVE  heard'[Writes + 1].answer.values[j] = Asked(j).argument
  <2>1. Writes \in Nat /\ l \in Nat /\ j \in Nat /\ Writes = Reading.argument
    BY <1>4, <1>8, <1>12
  <2>2. CASE l = Writes
    <3>1. now = Reading
      BY <2>1, <2>2 DEF now, Asked
    <3>2. heard'[Writes + 1].answer = AnswerTo(Reading)
      BY <1>3, <1>7, <2>2, <3>1
    <3>3. Knows(Reading) /\ AnswerTo(Reading).values[j] = memory.register[Reading.address + j - 1]
      BY <1>8, <1>12, <2>1, <3>2, ReadIsKept
    <3>4. Knows(Asked(j))
      <4>1. {Reading.address, Reading.address + Reading.argument - 1} \subseteq Registers
        BY <1>8, <3>3 DEF Knows, ReadCodes
      <4>2. Reading.address + j - 1 \in Registers
        BY <1>8, <2>1, <4>1 DEF Registers
      <4>3. Asked(j).code = 6 /\ Asked(j).address = Reading.address + j - 1
        BY <1>8
      <4>. QED  BY <4>2, <4>3 DEF Knows, ReadCodes
    <3>5. memory.register[Asked(j).address] = Asked(j).argument
      BY <1>5, <2>1, <2>2, <3>4 DEF Kept, l
    <3>. QED  BY <1>8, <3>2, <3>3, <3>5
  <2>3. CASE l # Writes
    <3>1. Writes + 1 \in 1 .. l
      BY <1>12, <2>1, <2>3
    <3>2. heard'[Writes + 1] = heard[Writes + 1] /\ Writes + 1 <= l
      BY <1>3, <2>1, <3>1
    <3>. QED  BY <1>5, <1>12, <3>2 DEF ReadBack, l
  <2>. QED  BY <2>2, <2>3
<1>13. Kept' /\ ReadBack'
  BY <1>1, <1>3, <1>6, <1>11, <1>12 DEF Kept, ReadBack
<1>. QED  BY <1>9, <1>10, <1>13 DEF TypedBooks

\* after a turn of a consume loop,
LEMMA TypedTurn == ASSUME PathBooks, CutBooks, TruthBooks, TypedBooks, TakesFirst, todo' = todo PROVE TypedBooks'
<1>. DEFINE n == Len(results)
<1>1. /\ damage = 0 /\ UNCHANGED <<job, sent, memory, damage, heard>>
      /\ CompleteRequest(1, Told[First + 1])
  BY DEF TakesFirst
<1>2. SUFFICES ASSUME job.text # <<>> PROVE TypedBooks'
  BY <1>1 DEF TypedBooks
<1>3. /\ First' = First + 1
      /\ Len(pending') = Len(pending) - 1 /\ Len(pending) \in Nat \ {0}
      /\ \A k \in 1 .. Len(pending) - 1 : pending'[k] = pending[k + 1]
  BY TurnMoves
<1>4. First \in Nat /\ pending[1].tid = First + 1
  BY <1>1, <1>3 DEF CutBooks
<1>5. Stage /\ LastOfBatch /\ InItsOrder /\ Kept /\ ReadBack
  BY <1>1, <1>2 DEF TypedBooks
<1>6. Writes' = Writes /\ \A j : Asked(j)' = Asked(j)
  BY <1>1 DEF Asked, Writes, Reading
<1>7. Writes \in Nat
  BY <1>2, TypedJob DEF PathBooks
<1>8. Stage' /\ Kept' /\ ReadBack'
  BY <1>1, <1>5, <1>6 DEF Stage, Kept, ReadBack
<1>9. InItsOrder'
  <2>1. ASSUME NEW k \in 1 .. Len(pending') PROVE pending'[k].ask = Asked(First' + k)
    <3>1. k \in 1 .. Len(pending) - 1 /\ k + 1 \in 1 .. Len(pending) /\ First' + k = First + (k + 1)
      BY <1>3, <1>4
    <3>2. pending'[k] = pending[k + 1] /\ pending[k + 1].ask = Asked(First + (k + 1))
      BY <1>3, <1>5, <3>1 DEF InItsOrder
    <3>. QED  BY <3>1, <3>2
  <2>. QED  BY <1>1, <1>5, <1>6, <2>1 DEF InItsOrder
<1>10. /\ n \in Nat /\ \A i \in 1 .. n : results[i].tid \in {Writes, Writes + 1} /\ results[i].tid \in 1 .. First
       /\ \A i, k \in 1 .. n : i < k => results[i].tid < results[k].tid
  BY <1>1, <1>5, ListIsFunction DEF LastOfBatch, TruthBooks
<1>11. CASE results' = results
  <2>1. \A t \in 1 .. First : t \in 1 .. First + 1
    BY <1>4
  <2>. QED  BY <1>3, <1>6, <1>8, <1>9, <1>10, <1>11, <2>1 DEF TypedBooks, LastOfBatch
<1>12. CASE results' # results
  <2>. DEFINE new == [tid |-> pending[1].tid, ask |-> pending[1].ask, got |-> Decode(pending[1].ask, Told[First + 1])]
  <2>1. pending[1].tid = sent /\ results' = Append(results, new)
    BY <1>1, <1>12, Zenon DEF CompleteRequest
  <2>2. new.tid = First + 1 /\ First + 1 \in {Writes, Writes + 1}
    BY <1>4, <1>5, <1>7, <2>1 DEF Stage
  <2>. HIDE DEF new
  <2>3. Len(results') = n + 1 /\ results'[n + 1] = new /\ \A i \in 1 .. n : results'[i] = results[i]
    BY <1>1, <2>1, Appended DEF TruthBooks
  <2>4. ASSUME NEW i \in 1 .. n + 1 PROVE results'[i].tid \in {Writes, Writes + 1} /\ results'[i].tid \in 1 .. First + 1
    <3>1. CASE i = n + 1
      BY <1>4, <2>2, <2>3, <3>1
    <3>2. CASE i # n + 1
      <4>1. i \in 1 .. n
        BY <1>10, <3>2
      <4>2. results[i].tid \in {Writes, Writes + 1} /\ results[i].tid \in 1 .. First /\ results'[i] = results[i]
        BY <1>10, <2>3, <4>1
      <4>. QED  BY <1>4, <4>2
    <3>. QED  BY <3>1, <3>2
  <2>5. ASSUME NEW i \in 1 .. n + 1, NEW k \in 1 .. n + 1, i < k PROVE results'[i].tid < results'[k].tid
    <3>1. i \in 1 .. n /\ results'[i].tid = results[i].tid /\ results[i].tid \in 1 .. First
      <4>1. i \in 1 .. n
        BY <1>10, <2>5
      <4>. QED  BY <1>10, <2>3, <4>1
    <3>2. CASE k = n + 1
      BY <1>4, <2>2, <2>3, <3>1, <3>2
    <3>3. CASE k # n + 1
      <4>1. k \in 1 .. n
        BY <1>10, <3>3
      <4>. QED  BY <1>10, <2>3, <2>5, <3>1, <4>1
    <3>. QED  BY <3>2, <3>3
  <2>. QED  BY <1>3, <1>6, <1>8, <1>9, <2>3, <2>4, <2>5 DEF TypedBooks, LastOfBatch
<1>. QED  BY <1>11, <1>12

\* Steps that neither send, answer nor complete.
LEMMA TypedElse ==
    ASSUME TypedBooks, UNCHANGED <<job, todo, sent, pending, results, memory, damage, heard>>
    PROVE  TypedBooks'
<1>1. First' = First /\ Writes' = Writes /\ \A j : Asked(j)' = Asked(j)
  BY DEF First, Writes, Asked, Reading
<1>. QED  BY <1>1 DEF TypedBooks, Stage, LastOfBatch, InItsOrder, Kept, ReadBack

\* and so at all times.
LEMMA TypedInductive == Spec => [](PathBooks /\ TruthBooks /\ TypedBooks)
<1>1. PathBooks /\ CutBooks /\ MemoryBooks /\ TruthBooks /\ TypedBooks /\ [Next]_vars => TypedBooks'
  <2>. SUFFICES ASSUME PathBooks, CutBooks, MemoryBooks, TruthBooks, TypedBooks, [Next]_vars PROVE TypedBooks'
    OBVIOUS
  <2>1. CASE SendRequests
    BY <2>1, TypedSend
  <2>2. CASE DeviceAnswers
    BY <2>2, TypedAnswer
  <2>3. ASSUME NEW n \in DOMAIN wire, DataReceived(n) PROVE TypedBooks'
    BY <2>3, TypedElse DEF DataReceived
  <2>4. CASE ConsumeTcpFrame
    <3>1. todo' = todo /\ damage' = damage
      BY <2>4 DEF ConsumeTcpFrame, deviceVars
    <3>2. damage # 0 => TypedBooks'
      BY <3>1 DEF TypedBooks
    <3>. QED  BY <2>4, <3>1, <3>2, TcpTakesFirst, TypedTurn
  <2>5. CASE ConsumeRtuFrame
    <3>1. todo' = todo /\ damage' = damage
      BY <2>5 DEF ConsumeRtuFrame, deviceVars
    <3>2. damage # 0 => TypedBooks'
      BY <3>1 DEF TypedBooks
    <3>. QED  BY <2>5, <3>1, <3>2, RtuTakesFirst, TypedTurn
  <2>6. CASE EndConsume
    BY <2>6, TypedElse DEF EndConsume, deviceVars
  <2>7. CASE HandleTimeout
    <3>1. pending # <<>> /\ ~consuming /\ line = <<>> /\ wire = <<>> /\ damage' = damage
      BY <2>7 DEF HandleTimeout
    <3>2. damage # 0
      BY <3>1, AllIsRead
    <3>. QED  BY <3>1, <3>2 DEF TypedBooks
  <2>8. CASE ClearLog
    BY <2>8, TypedElse DEF ClearLog, deviceVars
  <2>9. CASE UNCHANGED vars
    BY <2>9, TypedElse DEF vars, hostVars, deviceVars
  <2>. QED  BY <2>1, <2>2, <2>3, <2>4, <2>5, <2>6, <2>7, <2>8, <2>9 DEF Next
<1>. QED  BY <1>1, TypedStart, TruthInductive, MemoryInductive, PTL DEF Spec

-----------------------------------------------------------------------------
(* The numbers of such a job.                                              *)

\* A quotient.
LEMMA Divided ==
    ASSUME NEW a \in Nat, NEW d \in Nat \ {0}
    PROVE  a \div d \in Nat /\ d * (a \div d) <= a /\ a < d * (a \div d) + d
  BY SMTT(30)

\* The distance of two numbers, twice.
Apart(m, n) == IF n < m THEN 2 * (m - n) ELSE 2 * (n - m)

\* A rounded quotient is within half a step.
LEMMA Rounded ==
    ASSUME NEW n \in Int, NEW d \in Nat \ {0}
    PROVE  RoundedQuotient(n, d) \in Int /\ Apart(n, RoundedQuotient(n, d) * d) <= d
<1>. DEFINE a == Magnitude(n)  q == a \div d  r == a - d * q  up == IF 2 * r >= d THEN 1 ELSE 0
            size == q + up
<1>1. a \in Nat
  BY DEF Magnitude
<1>2. q \in Nat /\ r \in Nat /\ r < d /\ a = d * q + r
  <2>. DEFINE p == d * q
  <2>. HIDE DEF a
  <2>1. q \in Nat /\ p <= a /\ a < p + d
    BY <1>1, Divided
  <2>2. p \in Int
    BY <2>1
  <2>. HIDE DEF p, q
  <2>. QED  BY <1>1, <2>1, <2>2 DEF p
<1>3. RoundedQuotient(n, d) = IF n < 0 THEN -size ELSE size
  BY Zenon DEF RoundedQuotient
<1>. HIDE DEF q, r
<1>4. up \in {0, 1} /\ (up = 1 => 2 * r >= d) /\ (up = 0 => 2 * r < d)
  BY <1>2
<1>. HIDE DEF up
<1>5. size \in Int /\ size * d \in Int /\ size * d = d * q + (IF up = 1 THEN d ELSE 0) /\ (-size) * d = -(size * d)
  <2>1. CASE up = 0
    BY <1>2, <2>1, SMTT(30)
  <2>2. CASE up = 1
    BY <1>2, <2>2, SMTT(30)
  <2>. QED  BY <1>4, <2>1, <2>2
<1>. DEFINE whole == size * d  steps == d * q
<1>6. whole \in Int /\ steps \in Int /\ a = steps + r /\ whole = steps + (IF up = 1 THEN d ELSE 0)
  BY <1>2, <1>5
<1>7. RoundedQuotient(n, d) * d = IF n < 0 THEN -whole ELSE whole
  BY <1>3, <1>5
<1>8. RoundedQuotient(n, d) \in Int
  BY <1>3, <1>5
<1>. HIDE DEF whole, steps, size
<1>9. Apart(n, IF n < 0 THEN -whole ELSE whole) <= d
  BY <1>2, <1>4, <1>6 DEF Apart, Magnitude
<1>. QED  BY <1>7, <1>8, <1>9

\* The powers of ten, up to the n-th.
TenSteps(f, n) == f[0] = 1 /\ \A k \in 1 .. n : f[k] = 10 * f[k - 1]

LEMMA TenStepsTaken ==
    ASSUME NEW n \in Nat
    PROVE  \E f \in [0 .. n -> Nat \ {0}] : TenSteps(f, n)
<1>. DEFINE D == Nat \ {0}  step == [p \in D \X (1 .. n) |-> 10 * p[1]]
<1>1. step \in [D \X (1 .. n) -> D] /\ 1 \in D
  OBVIOUS
<1>2. \A p \in D \X (1 .. n) : step[p] = 10 * p[1]
  OBVIOUS
<1>. HIDE DEF step, D
<1>3. PICK f \in [0 .. n -> D] : Steps(f, 1, step, n)
  BY <1>1, Repeated
<1>4. ASSUME NEW k \in 1 .. n PROVE f[k] = 10 * f[k - 1]
  <2>1. k - 1 \in 0 .. n
    OBVIOUS
  <2>2. f[k - 1] \in D
    BY <2>1
  <2>3. step[<<f[k - 1], k>>] = 10 * f[k - 1]
    BY <1>2, <2>2
  <2>. QED  BY <1>3, <2>3 DEF Steps
<1>5. TenSteps(f, n)
  BY <1>3, <1>4 DEF Steps, TenSteps
<1>. QED  BY <1>5 DEF D

\* They are the same however far one goes.
LEMMA TenStepsAgree ==
    ASSUME NEW n \in Nat, NEW m \in Nat, NEW f, NEW g, TenSteps(f, n), TenSteps(g, m)
    PROVE  \A k \in Nat : k <= n /\ k <= m => f[k] = g[k]
<1>. DEFINE S == {k \in Nat : k <= n /\ k <= m => f[k] = g[k]}
<1>1. 0 \in S
  BY DEF TenSteps
<1>2. ASSUME NEW k \in S PROVE k + 1 \in S
  <2>1. ASSUME k + 1 <= n, k + 1 <= m PROVE f[k + 1] = g[k + 1]
    <3>1. k + 1 \in 1 .. n /\ k + 1 \in 1 .. m /\ (k + 1) - 1 = k /\ f[k] = g[k]
      BY <2>1
    <3>. QED  BY <3>1 DEF TenSteps
  <2>. QED  BY <2>1
<1>3. S = Nat
  <2>1. S \in SUBSET Nat
    OBVIOUS
  <2>. HIDE DEF S
  <2>. QED  BY <1>1, <1>2, <2>1, Upwards
<1>. QED  BY <1>3

\* So there is a function of all of them, and it is Tens.
LEMMA TensStep == Tens \in [Nat -> Nat \ {0}] /\ Tens[0] = 1 /\ \A k \in Nat : Tens[k + 1] = 10 * Tens[k]
<1>. DEFINE D == Nat \ {0}
            upTo(n) == CHOOSE f \in [0 .. n -> D] : TenSteps(f, n)
            all == [n \in Nat |-> upTo(n)[n]]
<1>1. \A n \in Nat : upTo(n) \in [0 .. n -> D] /\ TenSteps(upTo(n), n)
  <2>1. \A n \in Nat : \E f \in [0 .. n -> D] : TenSteps(f, n)
    BY TenStepsTaken
  <2>. QED  BY <2>1, Zenon
<1>2. all \in [Nat -> D] /\ \A n \in Nat : all[n] = upTo(n)[n]
  <2>1. \A n \in Nat : upTo(n)[n] \in D
    <3>1. TAKE n \in Nat
    <3>2. n \in 0 .. n
      OBVIOUS
    <3>. HIDE DEF upTo, D
    <3>3. upTo(n) \in [0 .. n -> D]
      BY <1>1
    <3>. QED  BY <3>2, <3>3
  <2>. HIDE DEF upTo, D
  <2>. QED  BY <2>1
<1>. HIDE DEF upTo, all
<1>3. all[0] = 1
  <2>1. TenSteps(upTo(0), 0) /\ all[0] = upTo(0)[0]
    BY <1>1, <1>2
  <2>. QED  BY <2>1 DEF TenSteps
<1>4. ASSUME NEW k \in Nat PROVE all[k + 1] = 10 * all[k]
  <2>. DEFINE f == upTo(k)  g == upTo(k + 1)
  <2>1. TenSteps(f, k) /\ TenSteps(g, k + 1) /\ all[k] = f[k] /\ all[k + 1] = g[k + 1]
    <3>1. k + 1 \in Nat
      OBVIOUS
    <3>. QED  BY <1>1, <1>2, <3>1, Zenon
  <2>. HIDE DEF f, g
  <2>2. f[k] = g[k]
    <3>1. k \in Nat /\ k + 1 \in Nat /\ k <= k /\ k <= k + 1
      OBVIOUS
    <3>. QED  BY <2>1, <3>1, TenStepsAgree
  <2>3. g[k + 1] = 10 * g[k]
    <3>1. k + 1 \in 1 .. k + 1 /\ (k + 1) - 1 = k
      OBVIOUS
    <3>. QED  BY <2>1, <3>1 DEF TenSteps
  <2>. QED  BY <2>1, <2>2, <2>3
<1>5. all = [k \in Nat |-> IF k = 0 THEN 1 ELSE 10 * all[k - 1]]
  <2>1. \A k \in Nat : all[k] = IF k = 0 THEN 1 ELSE 10 * all[k - 1]
    <3>1. TAKE k \in Nat
    <3>2. CASE k = 0
      BY <1>3, <3>2
    <3>3. CASE k # 0
      <4>1. k - 1 \in Nat /\ (k - 1) + 1 = k
        BY <3>3
      <4>. QED  BY <1>4, <3>3, <4>1
    <3>. QED  BY <3>2, <3>3
  <2>2. all = [k \in Nat |-> all[k]]
    BY <1>2
  <2>. QED  BY <2>1, <2>2
<1>6. Tens = [k \in Nat |-> IF k = 0 THEN 1 ELSE 10 * Tens[k - 1]]
  <2>. DEFINE Is(f) == f = [k \in Nat |-> IF k = 0 THEN 1 ELSE 10 * f[k - 1]]
  <2>1. Tens = CHOOSE f : Is(f)
    BY Zenon DEF Tens
  <2>2. \E f : Is(f)
    BY <1>5, Zenon
  <2>3. Is(Tens)
    <3>. HIDE DEF Is
    <3>. QED  BY <2>1, <2>2, Zenon
  <2>. QED  BY <2>3
<1>7. Tens[0] = 1
  BY <1>6
<1>8. ASSUME NEW k \in Nat PROVE Tens[k + 1] = 10 * Tens[k]
  <2>1. k + 1 \in Nat /\ k + 1 # 0 /\ (k + 1) - 1 = k
    OBVIOUS
  <2>2. Tens[k + 1] = IF k + 1 = 0 THEN 1 ELSE 10 * Tens[(k + 1) - 1]
    BY <1>6, <2>1, Zenon
  <2>. QED  BY <2>1, <2>2
<1>9. \A k \in Nat : Tens[k] \in D
  <2>. DEFINE S == {k \in Nat : Tens[k] \in D}
  <2>1. 0 \in S
    BY <1>7
  <2>2. \A k \in S : k + 1 \in S
    BY <1>8
  <2>3. S \in SUBSET Nat
    OBVIOUS
  <2>. HIDE DEF S
  <2>4. S = Nat
    BY <2>1, <2>2, <2>3, Upwards
  <2>. QED  BY <2>4 DEF S
<1>10. Tens = [k \in Nat |-> Tens[k]]
  <2>. DEFINE body(k) == IF k = 0 THEN 1 ELSE 10 * Tens[k - 1]
  <2>1. Tens = [k \in Nat |-> body(k)]
    BY <1>6
  <2>. HIDE DEF body
  <2>. QED  BY <2>1
<1>11. Tens \in [Nat -> D]
  <2>. HIDE DEF D
  <2>. QED  BY <1>9, <1>10
<1>. QED  BY <1>7, <1>8, <1>11

\* They grow, and faster than their exponents.
LEMMA TensGrow ==
    /\ \A k \in Nat : Tens[k] > k
    /\ \A k \in Nat : \A j \in 0 .. k : Tens[j] <= Tens[k]
<1>. DEFINE S == {k \in Nat : Tens[k] > k /\ \A j \in 0 .. k : Tens[j] <= Tens[k]}
<1>1. \A k \in Nat : Tens[k] \in Nat \ {0}
  BY TensStep
<1>2. 0 \in S
  BY <1>1, TensStep
<1>3. ASSUME NEW k \in S PROVE k + 1 \in S
  <2>1. Tens[k + 1] = 10 * Tens[k] /\ Tens[k] \in Nat \ {0} /\ k \in Nat
    BY <1>1, TensStep
  <2>2. Tens[k] > k /\ \A j \in 0 .. k : Tens[j] <= Tens[k]
    OBVIOUS
  <2>3. Tens[k + 1] > k + 1 /\ Tens[k] <= Tens[k + 1]
    BY <2>1, <2>2
  <2>4. \A j \in 0 .. k + 1 : Tens[j] <= Tens[k + 1]
    <3>1. TAKE j \in 0 .. k + 1
    <3>2. j = k + 1 \/ j \in 0 .. k
      BY <2>1
    <3>3. Tens[j] \in Nat
      BY <1>1
    <3>. QED  BY <2>1, <2>2, <2>3, <3>2, <3>3
  <2>. QED  BY <2>1, <2>3, <2>4
<1>4. S = Nat
  <2>1. S \in SUBSET Nat
    OBVIOUS
  <2>. HIDE DEF S
  <2>. QED  BY <1>2, <1>3, <2>1, Upwards
<1>. QED  BY <1>4

\* A number is too long for a last digit when it is at least a million of it.
LEMMA LongNumbers ==
    ASSUME NEW n \in Int, NEW k \in Nat
    PROVE  IsLong(n, k) <=> Magnitude(n) >= 1000000 * Tens[k]
<1>. DEFINE a == Magnitude(n)  d == Tens[k]  q == a \div d  million == 1000000
<1>1. a \in Nat /\ d \in Nat \ {0} /\ million \in Nat
  BY TensStep, SMT DEF Magnitude
<1>. HIDE DEF a, d
<1>2. q \in Nat /\ d * q <= a /\ a < d * q + d
  BY <1>1, Divided
<1>3. IsLong(n, k) <=> q >= million
  BY DEF IsLong, a, d
<1>. HIDE DEF q, million
<1>4. ASSUME q >= million PROVE a >= million * d
  <2>1. d * q >= million * d
    BY <1>1, <1>2, <1>4, SMTT(30)
  <2>. QED  BY <1>1, <1>2, <2>1, SMTT(30)
<1>5. ASSUME ~(q >= million) PROVE a < million * d
  <2>1. q + 1 <= million
    BY <1>1, <1>2, <1>5
  <2>2. d * (q + 1) <= million * d /\ d * (q + 1) = d * q + d
    BY <1>1, <1>2, <2>1, SMTT(30)
  <2>. QED  BY <1>1, <1>2, <2>2, SMTT(30)
<1>6. q >= million <=> a >= million * d
  <2>1. million * d \in Int
    BY <1>1
  <2>. DEFINE p == million * d
  <2>2. (q >= million => a >= p) /\ (~(q >= million) => a < p) /\ p \in Int
    BY <1>4, <1>5, <2>1
  <2>. HIDE DEF p
  <2>3. q >= million <=> a >= p
    BY <1>1, <1>2, <2>2
  <2>. QED  BY <2>3 DEF p
<1>. QED  BY <1>3, <1>6 DEF a, d, million

\* The last digit shown is the least power of ten that the number is not too long for.
LEMMA LastDigits ==
    ASSUME NEW n \in Int
    PROVE  \E k \in Nat : /\ LastDigit(n) = Tens[k] /\ ~IsLong(n, k)
                          /\ \A j \in 0 .. k - 1 : IsLong(n, j)
<1>. DEFINE a == Magnitude(n)  most == a \div 1000000
            S == {k \in Nat : ~IsLong(n, k)}
            Is(k) == ~IsLong(n, k) /\ \A j \in 0 .. k - 1 : IsLong(n, j)
<1>1. a \in Nat
  BY DEF Magnitude
<1>2. most \in Nat /\ a < 1000000 * most + 1000000
  <2>. HIDE DEF a
  <2>. QED  BY <1>1, SMT
<1>. HIDE DEF most
<1>3. most \in S
  <2>. \A k \in Nat : Tens[k] > k
    BY TensGrow
  <2>1. Tens[most] > most
    BY <1>2, SMT
  <2>2. Tens[most] \in Nat
    BY <1>2, TensStep, SMT
  <2>3. ~(a >= 1000000 * Tens[most])
    <3>. HIDE DEF a
    <3>. QED  BY <1>1, <1>2, <2>1, <2>2, SMT
  <2>. QED  BY <1>2, <2>3, LongNumbers
<1>4. PICK k \in S : \A j \in S : k <= j
  <2>1. S \in SUBSET Nat /\ S # {}
    BY <1>3
  <2>. HIDE DEF S
  <2>. QED  BY <2>1, LeastNumber
<1>5. k \in 0 .. most /\ Is(k)
  <2>1. k \in Nat /\ k <= most /\ ~IsLong(n, k)
    BY <1>3, <1>4
  <2>2. ASSUME NEW j \in 0 .. k - 1 PROVE IsLong(n, j)
    <3>1. j \in Nat /\ ~(k <= j)
      BY <2>1
    <3>. QED  BY <1>4, <3>1
  <2>. QED  BY <1>2, <2>1, <2>2
<1>. DEFINE chosen == CHOOSE x \in 0 .. most : Is(x)
<1>6. LastDigit(n) = Tens[chosen]
  BY DEF LastDigit, most
<1>7. chosen \in 0 .. most /\ Is(chosen)
  <2>. HIDE DEF Is
  <2>. QED  BY <1>5, Zenon
<1>. HIDE DEF chosen
<1>8. chosen \in Nat
  BY <1>2, <1>7
<1>. QED  BY <1>6, <1>7, <1>8

\* Rounding to a step does not pass a multiple of the step.
LEMMA StaysLarge ==
    ASSUME NEW n \in Int, NEW d \in Nat \ {0}, NEW q \in Int, Apart(n, q * d) <= d,
           NEW c \in Nat, Magnitude(n) >= c * d
    PROVE  q * d \in Int /\ Magnitude(q * d) >= c * d
<1>. DEFINE x == q * d  y == c * d
<1>1. x \in Int /\ y \in Int
  OBVIOUS
<1>2. CASE Magnitude(x) >= y
  BY <1>1, <1>2
<1>3. CASE Magnitude(x) < y
  <2>1. q < c /\ -q < c
    <3>1. x < y /\ -x < y
      BY <1>1, <1>3 DEF Magnitude
    <3>2. q >= c => x >= y
      BY SMTT(30)
    <3>3. -q >= c => -x >= y
      BY SMTT(30)
    <3>. HIDE DEF x, y
    <3>. QED  BY <1>1, <3>1, <3>2, <3>3
  <2>2. x + d <= y /\ -x + d <= y
    <3>1. q + 1 <= c /\ -q + 1 <= c
      BY <2>1
    <3>2. (q + 1) * d <= c * d /\ (-q + 1) * d <= c * d
      BY <3>1, SMTT(30)
    <3>3. (q + 1) * d = q * d + d /\ (-q + 1) * d = -(q * d) + d
      BY SMTT(30)
    <3>. QED  BY <3>2, <3>3
  <2>. HIDE DEF x, y
  <2>3. Apart(n, x) <= d
    BY DEF x
  <2>4. Magnitude(n) >= y
    BY DEF y
  <2>. QED  BY <1>1, <1>3, <2>2, <2>3, <2>4 DEF Apart, Magnitude
<1>. QED  BY <1>1, <1>2, <1>3 DEF Magnitude

\* Six significant digits are within half of their last one, which is not cut off by rounding.
LEMMA SixDigitsShown ==
    ASSUME NEW n \in Int
    PROVE  /\ SixDigits(n) \in Int /\ LastDigit(SixDigits(n)) \in Nat
           /\ Apart(n, SixDigits(n)) <= LastDigit(SixDigits(n))
<1>. DEFINE d == LastDigit(n)  q == RoundedQuotient(n, d)  shown == q * d
<1>1. PICK k \in Nat : d = Tens[k] /\ ~IsLong(n, k) /\ \A j \in 0 .. k - 1 : IsLong(n, j)
  BY LastDigits
<1>2. d \in Nat \ {0}
  BY <1>1, TensStep
<1>. HIDE DEF d
<1>3. q \in Int /\ Apart(n, shown) <= d /\ shown \in Int
  BY <1>2, Rounded
<1>4. SixDigits(n) = shown
  BY DEF SixDigits, d
<1>. HIDE DEF q
<1>5. PICK m \in Nat : LastDigit(shown) = Tens[m] /\ ~IsLong(shown, m)
  <2>. HIDE DEF shown
  <2>. QED  BY <1>3, LastDigits
<1>6. k <= m
  <2>. SUFFICES ASSUME ~(k <= m) PROVE FALSE
    OBVIOUS
  <2>1. k - 1 \in Nat /\ k - 1 \in 0 .. k - 1 /\ m \in 0 .. k - 1 /\ (k - 1) + 1 = k
    OBVIOUS
  <2>. DEFINE e == Tens[k - 1]
  <2>2. e \in Nat \ {0} /\ d = 10 * e /\ Tens[m] \in Nat /\ Tens[m] <= e
    BY <1>1, <2>1, TensStep, TensGrow
  <2>3. Magnitude(n) >= 1000000 * e
    BY <1>1, <2>1, LongNumbers
  <2>. HIDE DEF e
  <2>4. Magnitude(n) >= 100000 * d
    BY <2>2, <2>3, SMT DEF Magnitude
  <2>5. Magnitude(shown) >= 100000 * d
    <3>1. 100000 \in Nat
      BY SMT
    <3>. QED  BY <1>2, <1>3, <2>4, <3>1, StaysLarge
  <2>6. Magnitude(shown) >= 1000000 * Tens[m]
    <3>1. Magnitude(shown) \in Int
      BY <1>3 DEF Magnitude
    <3>. HIDE DEF shown
    <3>. QED  BY <2>2, <2>5, <3>1, SMT
  <2>7. IsLong(shown, m)
    BY <1>3, <2>6, LongNumbers
  <2>. QED  BY <1>5, <2>7
<1>7. LastDigit(shown) \in Nat /\ d <= LastDigit(shown)
  BY <1>1, <1>5, <1>6, TensStep, TensGrow
<1>8. Apart(n, shown) \in Int
  BY <1>3 DEF Apart
<1>. HIDE DEF shown
<1>. QED  BY <1>2, <1>3, <1>4, <1>7, <1>8

\* What it means that a text fits.
LEMMA FitsFormat ==
    ASSUME NEW settings, NEW text, Fits(settings, text)
    PROVE  LET n == RoundedQuotient(text.number - settings.offset, settings.scale)
           IN  /\ settings.format = "SignedDecimal" => -32768 <= n /\ n <= 32767
               /\ settings.format = "UnsignedDecimal" => n \in Register
               /\ settings.format = "Int32Signed" => -32768 <= n \div 65536 /\ n \div 65536 <= 32767
               /\ settings.format = "Int32Unsigned" => n \div 65536 \in Register
               /\ settings.format \in PlainFormats => text.number \in Register
<1>. DEFINE n == RoundedQuotient(text.number - settings.offset, settings.scale)
            inside == -32768 <= n /\ n <= 32767
            half == n \div 65536
            insideHalf == -32768 <= half /\ half <= 32767
            plain == text.number \in Register
<1>1. (CASE settings.format = "SignedDecimal"   -> inside
         [] settings.format = "UnsignedDecimal" -> n \in Register
         [] settings.format = "Int32Signed"     -> insideHalf
         [] settings.format = "Int32Unsigned"   -> half \in Register
         [] OTHER -> plain)
  BY DEF Fits
<1>. HIDE DEF inside, half, insideHalf, plain
<1>. HIDE DEF n
<1>2. /\ settings.format = "SignedDecimal" => inside
      /\ settings.format = "UnsignedDecimal" => n \in Register
      /\ settings.format = "Int32Signed" => insideHalf
      /\ settings.format = "Int32Unsigned" => half \in Register
  BY <1>1, SMT
<1>3. settings.format \in PlainFormats => plain
  BY <1>1, SMT DEF PlainFormats
<1>. QED  BY <1>2, <1>3 DEF n, inside, half, insideHalf, plain

\* The registers a number is parsed to are the number, when it has the width of the format
\* (parseValue(), then numericValue()).
LEMMA NumberIsKept ==
    ASSUME NEW settings, settings.format \in IntegerFormats \ PlainFormats, settings.byteOrder \in ByteOrders,
           NEW text, Fits(settings, text), NEW k \in Int,
           k = RoundedQuotient(text.number - settings.offset, settings.scale),
           NEW registers, \A j \in 1 .. RegisterSpanFor(settings.format) : registers[j] = ParseValue(settings, text)[j]
    PROVE  Unscaled(settings, registers) = k
<1>. DEFINE r == registers[1]
<1>1. settings.format \in {"SignedDecimal", "UnsignedDecimal", "Int32Signed", "Int32Unsigned"}
  BY DEF IntegerFormats, Formats, PairFormats, PlainFormats
<1>2. CASE settings.format \in {"SignedDecimal", "UnsignedDecimal"}
  <2>1. settings.format \notin PairFormats /\ settings.format \notin PlainFormats
    BY <1>2 DEF PairFormats, PlainFormats
  <2>2. r = k % 65536
    BY <2>1 DEF RegisterSpanFor, ParseValue, ToRegister
  <2>3. CASE settings.format = "SignedDecimal"
    <3>1. -32768 <= k /\ k <= 32767
      BY <2>3, FitsFormat, SMT
    <3>2. Unscaled(settings, registers) = Signed(r)
      BY <2>3, Zenon DEF Unscaled
    <3>. HIDE DEF r
    <3>. QED  BY <2>2, <3>1, <3>2, SMT DEF Signed
  <2>4. CASE settings.format = "UnsignedDecimal"
    <3>1. k \in Register
      BY <2>4, FitsFormat
    <3>2. Unscaled(settings, registers) = r
      BY <2>4, SMT DEF Unscaled
    <3>. HIDE DEF r
    <3>. QED  BY <2>2, <3>1, <3>2, RegisterBounds, SMT
  <2>. QED  BY <1>2, <2>3, <2>4
<1>3. CASE settings.format \in {"Int32Signed", "Int32Unsigned"}
  <2>. DEFINE pair == UnpackToRegisters(ToWord(k), settings.byteOrder)
              packed == PackBytes(registers[1], registers[2], settings.byteOrder)
  <2>1. settings.format \in PairFormats /\ settings.format \notin PlainFormats
    BY <1>3 DEF PairFormats, PlainFormats
  <2>2. PackBytes(pair[1], pair[2], settings.byteOrder) = ToWord(k)
    BY WordOfNumber, WrittenWordReadsBack
  <2>3. ParseValue(settings, text) = pair
    BY <2>1, Zenon DEF ParseValue
  <2>4. registers[1] = pair[1] /\ registers[2] = pair[2]
    BY <2>1, <2>3, SMT DEF RegisterSpanFor
  <2>. HIDE DEF pair
  <2>5. packed = ToWord(k)
    BY <2>2, <2>4
  <2>6. CASE settings.format = "Int32Signed"
    <3>1. -32768 <= k \div 65536 /\ k \div 65536 <= 32767
      BY <2>6, FitsFormat
    <3>2. Unscaled(settings, registers) = SignedWord(packed)
      BY <2>6, SMT DEF Unscaled
    <3>. HIDE DEF packed
    <3>. QED  BY <2>5, <3>1, <3>2, WordOfNumber
  <2>7. CASE settings.format = "Int32Unsigned"
    <3>1. k \div 65536 \in Register
      BY <2>7, FitsFormat
    <3>2. Unscaled(settings, registers) = UnsignedWord(packed)
      BY <2>7, SMT DEF Unscaled
    <3>. HIDE DEF packed
    <3>3. 0 <= k \div 65536 /\ k \div 65536 <= 65535
      BY <3>1, RegisterBounds
    <3>. QED  BY <2>5, <3>2, <3>3, WordOfNumber
  <2>. QED  BY <1>3, <2>6, <2>7
<1>. QED  BY <1>1, <1>2, <1>3

\* A 32-bit integer shown without scaling and written back as it is shown is the same two
\* registers, whatever the byte order (formatValue(), then parseValue()).
THEOREM ShownRegistersWriteBack ==
    ASSUME NEW settings, settings.format \in {"Int32Signed", "Int32Unsigned"}, settings.byteOrder \in ByteOrders,
           IsDefaultScaling(settings), NEW r0 \in Register, NEW r1 \in Register
    PROVE  ParseValue(settings, FormatValue(settings, <<r0, r1>>)) = <<r0, r1>>
<1>. DEFINE w == PackBytes(r0, r1, settings.byteOrder)  n == Unscaled(settings, <<r0, r1>>)
<1>1. settings.format \in PairFormats /\ settings.format \notin PlainFormats
  BY DEF PairFormats, PlainFormats
<1>2. w \in Word
  <2>1. High(r0) \in Byte /\ Low(r0) \in Byte /\ High(r1) \in Byte /\ Low(r1) \in Byte
    BY RegisterBounds, SMT DEF High, Low, Byte
  <2>. QED  BY <2>1, SMT DEF PackBytes, Word, ByteOrders
<1>3. n \in Int /\ ToWord(n) = w
  <2>1. n = SignedWord(w) \/ n = UnsignedWord(w)
    <3>1. <<r0, r1>>[1] = r0 /\ <<r0, r1>>[2] = r1
      OBVIOUS
    <3>. QED  BY <3>1, SMT DEF Unscaled
  <2>. HIDE DEF n, w
  <2>. QED  BY <1>2, <2>1, NumberOfWord
<1>4. FormatValue(settings, <<r0, r1>>).number = n * One
  BY <1>1 DEF FormatValue, Text
<1>. HIDE DEF n
<1>5. RoundedQuotient(n * One - settings.offset, settings.scale) = n
  <2>1. settings.offset = 0 /\ settings.scale = 100
    BY DEF IsDefaultScaling, One
  <2>2. n * One - settings.offset = 100 * n
    BY <1>3, <2>1 DEF One
  <2>. DEFINE a == Magnitude(n)  b == Magnitude(100 * n)
  <2>3. a \in Nat /\ b = 100 * a /\ n = IF n < 0 THEN -a ELSE a
    BY <1>3 DEF Magnitude
  <2>4. 100 * n < 0 <=> n < 0
    BY <1>3
  <2>. HIDE DEF a, b
  <2>5. b \div 100 = a /\ ~(2 * (b - 100 * (b \div 100)) >= 100)
    BY <2>3
  <2>6. RoundedQuotient(100 * n, 100) = IF n < 0 THEN -a ELSE a
    BY <2>3, <2>4, <2>5 DEF RoundedQuotient, b
  <2>. QED  BY <2>1, <2>2, <2>3, <2>6
<1>6. ParseValue(settings, FormatValue(settings, <<r0, r1>>)) = UnpackToRegisters(ToWord(n), settings.byteOrder)
  BY <1>1, <1>4, <1>5, Zenon DEF ParseValue
<1>. QED  BY <1>3, <1>6, PackedUnpacked

\* A text that fits, parsed to registers, is the number these registers are shown as, up to
\* the resolution of the row, in every format but Float32 (parseValue(), then formatValue()).
THEOREM ParsedIsShown ==
    ASSUME NEW settings \in [format : IntegerFormats, byteOrder : ByteOrders, scale : Nat \ {0}, offset : Int, unit : STRING],
           NEW text, text.number \in Int, Fits(settings, text),
           NEW registers, \A j \in 1 .. RegisterSpanFor(settings.format) : registers[j] = ParseValue(settings, text)[j]
    PROVE  LET shown == FormatValue(settings, registers)
           IN  IF settings.format \in PlainFormats THEN shown.number = text.number
               ELSE IsNearest(settings, shown.number, text.number)
<1>. DEFINE m == text.number  n == FormatValue(settings, registers).number  r == registers[1]
            scale == settings.scale  offset == settings.offset
<1>1. /\ settings.format \in IntegerFormats /\ settings.byteOrder \in ByteOrders
      /\ scale \in Nat \ {0} /\ offset \in Int
  OBVIOUS
<1>2. CASE settings.format \in PlainFormats
  <2>1. settings.format \notin PairFormats
    BY <1>2 DEF PlainFormats, PairFormats
  <2>2. m \in Register
    BY <1>2, FitsFormat
  <2>3. n = r
    BY <1>2 DEF FormatValue, Text
  <2>4. r = m % 65536
    BY <1>2, <2>1 DEF RegisterSpanFor, ParseValue, ToRegister
  <2>. HIDE DEF n, r, m
  <2>5. n = m
    BY <2>2, <2>3, <2>4, RegisterBounds, SMT
  <2>. QED  BY <1>2, <2>5 DEF n, m
<1>3. CASE settings.format \notin PlainFormats
  <2>. DEFINE k == RoundedQuotient(m - offset, scale)  x == k * scale
  <2>1. m \in Int /\ k \in Int /\ Apart(m - offset, x) <= scale
    BY <1>1, Rounded
  <2>2. Unscaled(settings, registers) = k
    <3>. HIDE DEF k
    <3>. QED  BY <1>1, <1>3, <2>1, NumberIsKept DEF k
  <2>3. n = IF IsDefaultScaling(settings) THEN k * One ELSE SixDigits(x + offset)
    BY <1>3, <2>2 DEF FormatValue, Text, NumericValue
  <2>4. x \in Int
    BY <1>1, <2>1
  <2>. DEFINE last == IF IsDefaultScaling(settings) THEN 0 ELSE LastDigit(n)
  <2>. HIDE DEF n, m, k
  <2>5. n \in Int /\ last \in Nat /\ Apart(n, m) <= scale + last
    <3>1. CASE IsDefaultScaling(settings)
      <4>1. n = x /\ offset = 0 /\ last = 0
        BY <2>3, <3>1 DEF IsDefaultScaling
      <4>. HIDE DEF x, last
      <4>. QED  BY <1>1, <2>1, <2>4, <4>1 DEF Apart
    <3>2. CASE ~IsDefaultScaling(settings)
      <4>1. n = SixDigits(x + offset) /\ last = LastDigit(n)
        BY <2>3, <3>2
      <4>. HIDE DEF x, last
      <4>2. n \in Int /\ last \in Nat /\ Apart(x + offset, n) <= last
        BY <1>1, <2>4, <4>1, SixDigitsShown
      <4>. QED  BY <1>1, <2>1, <2>4, <4>2 DEF Apart
    <3>. QED  BY <3>1, <3>2
  <2>6. IsNearest(settings, n, m)
    <3>. DEFINE distance == IF n < m THEN m - n ELSE n - m
    <3>. HIDE DEF last
    <3>1. 2 * distance <= scale + last /\ distance \in Int
      BY <2>1, <2>5 DEF Apart
    <3>2. distance <= (scale + last) \div 2
      BY <1>1, <2>5, <3>1
    <3>. QED  BY <3>2 DEF IsNearest, last
  <2>. QED  BY <1>3, <2>6 DEF n, m
<1>. QED  BY <1>2, <1>3

\* For every value typed into a row, every format but Float32 and every byte order, scale and
\* offset, over TCP, and over RTU as long as the line did no damage: the value written and read
\* back is shown as it was typed, up to the row's resolution.
THEOREM TypedShown == Spec => [](job.framing = "Tcp" \/ damage = 0 => TypedIsShown)
<1>1. PathBooks /\ TruthBooks /\ TypedBooks => (job.framing = "Tcp" \/ damage = 0 => TypedIsShown)
  <2>. SUFFICES ASSUME PathBooks, TruthBooks, TypedBooks, damage = 0, job.text # <<>>, Len(results) = 2,
                       \A i \in DOMAIN results : results[i].got.status = "ok", Fits(job.settings, job.text)
                PROVE  LET shown == FormatValue(job.settings, results[2].got.values)
                       IN  IF job.settings.format \in PlainFormats THEN shown.number = job.text.number
                           ELSE IsNearest(job.settings, shown.number, job.text.number)
    BY DEF TypedIsShown, TruthBooks
  <2>. DEFINE values == results[2].got.values  span == RegisterSpanFor(job.settings.format)
  <2>1. LastOfBatch /\ ReadBack
    BY DEF TypedBooks
  <2>2. /\ Writes \in {0, Reading.argument} /\ Reading.argument = span /\ span \in {1, 2}
        /\ \A j \in 1 .. Writes : Asked(j).argument = Parsed[j]
    <3>1. /\ Reading = Ask(3, Reading.address, span)
          /\ Reading.argument \in {1, 2} /\ Writes \in {0, Reading.argument}
          /\ \A j \in 1 .. Writes : job.batches[1][j] = Ask(6, Reading.address + j - 1, Parsed[j])
      BY TypedJob DEF PathBooks
    <3>2. Reading.argument = span
      BY <3>1 DEF Ask
    <3>3. ASSUME NEW j \in 1 .. Writes PROVE Asked(j).argument = Parsed[j]
      <4>1. Asked(j) = Ask(6, Reading.address + j - 1, Parsed[j])
        BY <3>1 DEF Asked
      <4>. QED  BY <4>1 DEF Ask
    <3>. QED  BY <3>1, <3>2, <3>3
  <2>3. Writes = span /\ results[2].tid = Writes + 1
    <3>1. results[1].tid < results[2].tid /\ results[1].tid \in {Writes, Writes + 1} \cap (1 .. First)
          /\ results[2].tid \in {Writes, Writes + 1}
      BY <2>1 DEF LastOfBatch
    <3>. QED  BY <2>2, <3>1
  <2>4. results[2].got = heard[Writes + 1].answer /\ Writes + 1 \in 1 .. Len(heard)
    BY <2>3 DEF TruthBooks
  <2>5. heard[Writes + 1].answer.status = "ok"
    <3>1. 2 \in DOMAIN results
      BY ListIsFunction DEF TruthBooks
    <3>. QED  BY <2>4, <3>1
  <2>6. \A j \in 1 .. span : values[j] = Parsed[j]
    BY <2>1, <2>2, <2>3, <2>4, <2>5 DEF ReadBack
  <2>7. /\ job.settings \in [format : IntegerFormats, byteOrder : ByteOrders, scale : Nat \ {0}, offset : Int, unit : STRING]
        /\ job.text.number \in Int
    BY TypedAssumption, Zenon DEF IsTyped, PathBooks
  <2>. HIDE DEF values
  <2>8. LET shown == FormatValue(job.settings, values)
        IN  IF job.settings.format \in PlainFormats THEN shown.number = job.text.number
            ELSE IsNearest(job.settings, shown.number, job.text.number)
    BY <2>6, <2>7, ParsedIsShown DEF Parsed
  <2>. QED  BY <2>8, Zenon DEF values
<1>. QED  BY <1>1, TypedInductive, PTL

-----------------------------------------------------------------------------
(* Requests that are sent again: what is on the wire and in the buffer     *)
(* over RTU until an answer comes that does not end where it says.         *)

\* A stream of n answers over RTU, whatever they say.
HoldsWhole(stream, n) == \E first \in Nat : \E told : HoldsAnswers("Rtu", stream, first, n, told)

\* Nothing holds none of them,
LEMMA NoneWhole == HoldsWhole(<<>>, 0)
<1>1. HoldsAnswers("Rtu", <<>>, 0, 0, <<>>)
  BY NoAnswers
<1>. QED  BY <1>1, Zenon DEF HoldsWhole

\* and none of them are nothing.
LEMMA NoneIsNothing == ASSUME NEW stream, HoldsWhole(stream, 0) PROVE stream = <<>>
  BY NothingHeld DEF HoldsWhole

\* One more of them at the end.
LEMMA OneMoreWhole ==
    ASSUME NEW stream, NEW n \in Nat, HoldsWhole(stream, n), NEW frame, NEW pdu, IsRtuAnswer(frame, pdu)
    PROVE  HoldsWhole(stream \o frame, n + 1)
<1>1. PICK first \in Nat : \E told : HoldsAnswers("Rtu", stream, first, n, told)
  BY DEF HoldsWhole
<1>2. PICK told : HoldsAnswers("Rtu", stream, first, n, told)
  BY <1>1
<1>. DEFINE last == first + (n + 1)
            now == [j \in 0 .. last |-> IF j = last THEN pdu ELSE told[j]]
<1>3. now[last] = pdu
  <2>1. last \in 0 .. last
    OBVIOUS
  <2>. HIDE DEF last
  <2>. QED  BY <2>1
<1>4. \A k \in 1 .. n : now[first + k] = told[first + k]
  <2>1. ASSUME NEW k \in 1 .. n PROVE first + k \in 0 .. last /\ first + k # last
    OBVIOUS
  <2>. HIDE DEF last
  <2>. QED  BY <2>1
<1>. HIDE DEF now
<1>5. HoldsAnswers("Rtu", stream, first, n, now)
  BY <1>2, <1>4, SameTold
<1>6. IsAnswer("Rtu", frame, first + (n + 1), now[first + (n + 1)])
  BY <1>3 DEF IsAnswer
<1>7. HoldsAnswers("Rtu", stream \o frame, first, n + 1, now)
  BY <1>5, <1>6, OneMoreAnswer
<1>. QED  BY <1>7, Zenon DEF HoldsWhole

\* The first of them, and the stream of the others.
LEMMA FirstWhole ==
    ASSUME NEW stream, NEW n \in Nat \ {0}, HoldsWhole(stream, n)
    PROVE  \E frame : (\E pdu : IsRtuAnswer(frame, pdu)) /\
               \E tail : IsList(tail) /\ stream = frame \o tail /\ HoldsWhole(tail, n - 1)
<1>1. PICK first \in Nat : \E told : HoldsAnswers("Rtu", stream, first, n, told)
  BY DEF HoldsWhole
<1>2. PICK told : HoldsAnswers("Rtu", stream, first, n, told)
  BY <1>1
<1>3. PICK frame : IsAnswer("Rtu", frame, first + 1, told[first + 1]) /\
          \E tail : IsList(tail) /\ stream = frame \o tail /\ HoldsAnswers("Rtu", tail, first + 1, n - 1, told)
  BY <1>2, FirstAnswer
<1>4. PICK tail : IsList(tail) /\ stream = frame \o tail /\ HoldsAnswers("Rtu", tail, first + 1, n - 1, told)
  BY <1>3
<1>5. IsRtuAnswer(frame, told[first + 1])
  BY <1>3 DEF IsAnswer
<1>6. HoldsWhole(tail, n - 1)
  <2>1. first + 1 \in Nat
    OBVIOUS
  <2>. QED  BY <1>4, <2>1, Zenon DEF HoldsWhole
<1>. QED  BY <1>4, <1>5, <1>6, Zenon

\* A changed byte leaves a frame as long as it is, a lost one makes it one shorter.
LEMMA DamagedIsList ==
    ASSUME NEW bytes, IsList(bytes), NEW damaged \in Damaged(bytes)
    PROVE  IsList(damaged) /\ Len(damaged) \in Nat /\ Len(damaged) >= Len(bytes) - 1
<1>. DEFINE n == Len(bytes)
<1>1. n \in Nat /\ DOMAIN bytes = 1 .. n
  BY ListIsFunction
<1>2. ASSUME NEW i \in DOMAIN bytes, NEW x, damaged = ReplaceAt(bytes, i, x)
      PROVE  IsList(damaged) /\ Len(damaged) = n
  <2>1. damaged = [bytes EXCEPT ![i] = x]
    BY <1>2 DEF ReplaceAt
  <2>2. damaged = [j \in 1 .. n |-> damaged[j]]
    <3>. HIDE DEF n
    <3>. QED  BY <1>1, <2>1
  <2>. QED  BY <1>1, <2>2, FunctionIsList
<1>3. ASSUME NEW i \in DOMAIN bytes, damaged = RemoveAt(bytes, i)
      PROVE  IsList(damaged) /\ Len(damaged) = n - 1
  <2>. DEFINE front == SubSeq(bytes, 1, i - 1)  rear == SubSeq(bytes, i + 1, n)
  <2>1. i \in 1 .. n /\ i - 1 \in Nat /\ i + 1 \in Nat \ {0} /\ i - 1 <= n /\ 1 \in Nat \ {0}
    BY <1>1
  <2>2. IsList(front) /\ Len(front) = i - 1
    <3>1. IsList(front) /\ Len(front) = IF 1 <= i - 1 THEN ((i - 1) - 1) + 1 ELSE 0
      BY <2>1, Part
    <3>. HIDE DEF front
    <3>. QED  BY <2>1, <3>1
  <2>3. IsList(rear) /\ Len(rear) = n - i
    <3>1. IsList(rear) /\ Len(rear) = IF i + 1 <= n THEN (n - (i + 1)) + 1 ELSE 0
      <4>1. n <= Len(bytes)
        BY <1>1
      <4>. QED  BY <1>1, <2>1, <4>1, Part
    <3>. HIDE DEF rear, n
    <3>. QED  BY <1>1, <2>1, <3>1
  <2>4. damaged = front \o rear
    BY <1>3 DEF RemoveAt
  <2>. HIDE DEF front, rear
  <2>5. IsJoined(damaged, front, rear)
    BY <2>2, <2>3, <2>4, Joined
  <2>. HIDE DEF n
  <2>6. Len(damaged) = (i - 1) + (n - i)
    BY <2>2, <2>3, <2>5 DEF IsJoined
  <2>7. (i - 1) + (n - i) = n - 1
    BY <1>1, <2>1
  <2>. QED  BY <2>5, <2>6, <2>7 DEF IsJoined
<1>4. \/ \E i \in DOMAIN bytes : \E x : damaged = ReplaceAt(bytes, i, x)
      \/ \E i \in DOMAIN bytes : damaged = RemoveAt(bytes, i)
  BY DEF Damaged
<1>5. IsList(damaged) /\ (Len(damaged) = n \/ Len(damaged) = n - 1)
  BY <1>2, <1>3, <1>4, Zenon
<1>6. Len(damaged) \in Nat
  BY <1>5, ListIsFunction
<1>. HIDE DEF n
<1>7. Len(damaged) >= n - 1
  BY <1>1, <1>5
<1>. QED  BY <1>5, <1>6, <1>7 DEF n

\* What is chosen of a list of one.
LEMMA ChosenOfOne ==
    ASSUME NEW s, IsList(s), Len(s) = 1, NEW S
    PROVE  /\ s[1] \in S => Chosen(s, S) = <<s[1]>>
           /\ s[1] \notin S => Chosen(s, S) = <<>>
           /\ ToSet(s) = {s[1]}
<1>. DEFINE x == s[1]  none == <<>>  one == Append(none, x)
<1>1. IsList(none) /\ Len(none) = 0
  BY Empty
<1>2. IsList(one) /\ Len(one) = 1 /\ one[1] = x
  <2>1. IsList(one) /\ Len(one) = Len(none) + 1 /\ one[Len(none) + 1] = x
    BY <1>1, Appended
  <2>. HIDE DEF one, none
  <2>. QED  BY <1>1, <2>1
<1>3. s = one
  <2>. HIDE DEF one
  <2>. QED  BY <1>2, SameList
<1>4. Chosen(one, S) = IF x \in S THEN Append(Chosen(none, S), x) ELSE Chosen(none, S)
  <2>. HIDE DEF none, x
  <2>. QED  BY <1>1, ChosenAppended
<1>5. Chosen(none, S) = <<>>
  BY NoneChosen
<1>6. Append(<<>>, x) = <<x>>
  OBVIOUS
<1>7. ToSet(s) = {s[1]}
  <2>1. DOMAIN s = 1 .. 1
    BY ListIsFunction
  <2>. QED  BY <2>1 DEF ToSet
<1>. HIDE DEF one
<1>8. Chosen(s, S) = IF x \in S THEN <<x>> ELSE <<>>
  BY <1>3, <1>4, <1>5, <1>6, Zenon
<1>. QED  BY <1>7, <1>8

-----------------------------------------------------------------------------
(* The answers that came changed.                                          *)

Clean == \A j \in 1 .. Len(heard) : heard[j].came # "cut"

\* How often the device answered a request in vain.
InVain(list, tid) == Cardinality({j \in DOMAIN list : list[j].tid = tid /\ list[j].came = "changed"})

\* One more answer that came changed is one more of its request, and of no other.
LEMMA OneMoreHeard ==
    ASSUME IsList(heard), NEW entry, heard' = Append(heard, entry), NEW tid
    PROVE  /\ InVain(heard, tid) \in Nat
           /\ InVain(heard', tid) = IF entry.came = "changed" /\ entry.tid = tid
                                             THEN InVain(heard, tid) + 1 ELSE InVain(heard, tid)
           /\ Clean' => Clean /\ entry.came # "cut"
<1>. DEFINE l == Len(heard)  Some(list) == {j \in DOMAIN list : list[j].tid = tid /\ list[j].came = "changed"}
            old == Some(heard)  new == Some(heard')
<1>1. l \in Nat /\ DOMAIN heard = 1 .. l
  BY ListIsFunction
<1>2. /\ IsList(heard') /\ Len(heard') = l + 1 /\ heard'[l + 1] = entry
      /\ \A j \in 1 .. l : heard'[j] = heard[j]
  BY Appended
<1>3. DOMAIN heard' = 1 .. l + 1
  BY <1>2, ListIsFunction
<1>. HIDE DEF l
<1>4. \A j : j \in 1 .. l + 1 <=> j \in 1 .. l \/ j = l + 1
  BY <1>1
<1>5. l + 1 \notin 1 .. l
  BY <1>1
<1>6. old = {j \in 1 .. l : heard[j].tid = tid /\ heard[j].came = "changed"}
  BY <1>1
<1>7. new = {j \in 1 .. l + 1 : heard'[j].tid = tid /\ heard'[j].came = "changed"}
  BY <1>3
<1>8. InVain(heard, tid) = Cardinality(old) /\ InVain(heard', tid) = Cardinality(new)
  BY DEF InVain
<1>. HIDE DEF old, new
<1>9. IsFiniteSet(old) /\ l + 1 \notin old /\ Cardinality(old) \in Nat
  <2>1. IsFiniteSet(1 .. l)
    BY <1>1, FS_Interval
  <2>2. old \in SUBSET (1 .. l)
    BY <1>6
  <2>3. IsFiniteSet(old)
    BY <2>1, <2>2, FS_Subset
  <2>. QED  BY <1>5, <2>2, <2>3, FS_CardinalityType
<1>10. Clean' => Clean /\ entry.came # "cut"
  <2>. SUFFICES ASSUME \A j \in 1 .. l + 1 : heard'[j].came # "cut" PROVE Clean /\ entry.came # "cut"
    BY <1>2 DEF Clean
  <2>1. entry.came # "cut"
    BY <1>2, <1>4
  <2>2. \A j \in 1 .. l : heard[j].came # "cut"
    BY <1>2, <1>4
  <2>. QED  BY <2>1, <2>2 DEF Clean, l
<1>11. CASE entry.came = "changed" /\ entry.tid = tid
  <2>1. new = old \cup {l + 1}
    BY <1>2, <1>4, <1>6, <1>7, <1>11
  <2>2. Cardinality(new) = Cardinality(old) + 1
    BY <1>9, <2>1, FS_AddElement
  <2>. QED  BY <1>9, <1>10, <1>11, <1>8, <2>2
<1>12. CASE ~(entry.came = "changed" /\ entry.tid = tid)
  <2>1. new = old
    BY <1>2, <1>4, <1>6, <1>7, <1>12
  <2>. QED  BY <1>9, <1>10, <1>12, <1>8, <2>1
<1>. QED  BY <1>11, <1>12

-----------------------------------------------------------------------------
(* The books on a line that changes answers.                               *)

\* All answers under way can be cut from the stream; each changed one was counted when its
\* request was sent again.
IsIntact ==
    /\ HoldsWhole(buffer \o wire, Waiting)
    /\ \A k \in 1 .. Len(pending) : InVain(heard, First + k) = pending[k].attempts - 1

\* The answer to the only request came changed, and is under way or was dropped.
IsSpoilt ==
    /\ Len(pending) = 1 /\ line = <<>>
    /\ InVain(heard, First + 1) = pending[1].attempts
    /\ buffer \o wire = <<>> \/ IsWhole(buffer \o wire)

\* The requests, and the frames on their way to the device, in their order.
InTurn ==
    /\ First \in Nat /\ Waiting \in Nat
    /\ \A k \in 1 .. Len(pending) : pending[k].tid = First + k /\ pending[k].attempts <= RetryCount + 1
    /\ \A k \in 1 .. Len(line) : line[k].tid = (First + Waiting) + k
    /\ \A j \in 1 .. Len(heard) : heard[j].tid \in Nat /\ heard[j].tid <= sent

\* A failed request is over, and each of its transmissions was answered in vain.
FailedInVain ==
    \A i \in 1 .. Len(results) : results[i].got.status = "failed" =>
        /\ results[i].tid \in Nat /\ 1 <= results[i].tid /\ results[i].tid <= First
        /\ InVain(heard, results[i].tid) = RetryCount + 1

RetryBooks ==
    /\ IsList(results)
    /\ job.framing = "Tcp" => \A i \in 1 .. Len(results) : results[i].got.status # "failed"
    /\ job.framing = "Rtu" /\ Clean =>
           /\ IsList(buffer) /\ IsList(wire)
           /\ InTurn /\ FailedInVain
           /\ ~consuming /\ pending # <<>> => NothingWhole("Rtu", buffer)
           /\ IsIntact \/ IsSpoilt

\* The books hold at the start,
LEMMA RetryStart == Init => RetryBooks
<1>. SUFFICES ASSUME Init PROVE RetryBooks
  OBVIOUS
<1>1. /\ buffer = <<>> /\ wire = <<>> /\ pending = <<>> /\ line = <<>> /\ sent = 0 /\ heard = <<>>
      /\ results = <<>>
  BY DEF Init
<1>2. Len(pending) = 0 /\ Len(line) = 0 /\ Len(heard) = 0 /\ Len(results) = 0 /\ sent = 0
  <2>1. Len(pending) = 0 /\ Len(line) = 0 /\ Len(heard) = 0 /\ Len(results) = 0
    BY <1>1, Empty, Zenon
  <2>. QED  BY <1>1, <2>1
<1>3. First = 0 /\ Waiting = 0
  BY <1>2 DEF First, Waiting
<1>4. IsIntact
  BY <1>1, <1>2, <1>3, Empty, NothingJoined, NoneWhole DEF IsIntact
<1>5. InTurn /\ FailedInVain
  BY <1>2, <1>3 DEF InTurn, FailedInVain
<1>. QED  BY <1>1, <1>2, <1>4, <1>5, Empty DEF RetryBooks

\* Steps that move no byte, no request and no result.
LEMMA RetryElse ==
    ASSUME RetryBooks, UNCHANGED <<job, sent, pending, buffer, line, wire, heard, results>>,
           consuming' = consuming \/ (job.framing = "Rtu" /\ pending # <<>> => NothingWhole("Rtu", buffer))
    PROVE  RetryBooks'
<1>1. First' = First /\ Waiting' = Waiting /\ Clean' = Clean
  BY DEF First, Waiting, Clean
<1>3. IsIntact' = IsIntact /\ IsSpoilt' = IsSpoilt
  BY <1>1 DEF IsIntact, IsSpoilt
<1>4. InTurn' = InTurn /\ FailedInVain' = FailedInVain
  BY <1>1 DEF InTurn, FailedInVain
<1>. QED  BY <1>1, <1>3, <1>4, Zenon DEF RetryBooks

\* completeRequest() adds no failure: no decode function tells one.
LEMMA NothingFails ==
    ASSUME IsList(results), NEW k, NEW pdu, CompleteRequest(k, pdu)
    PROVE  /\ IsList(results')
           /\ \A i \in 1 .. Len(results') : results'[i].got.status = "failed" =>
                  i \in 1 .. Len(results) /\ results'[i] = results[i]
<1>. DEFINE new == [tid |-> pending[k].tid, ask |-> pending[k].ask, got |-> Decode(pending[k].ask, pdu)]
            n == Len(results)
<1>1. results' = results \/ results' = Append(results, new)
  BY DEF CompleteRequest
<1>2. CASE results' = results
  BY <1>2
<1>3. CASE results' = Append(results, new)
  <2>1. new.got.status # "failed"
    BY DEF Decode, Malformed, Exception, Success
  <2>. HIDE DEF new
  <2>2. /\ IsList(results') /\ Len(results') = n + 1 /\ results'[n + 1] = new
        /\ \A i \in 1 .. n : results'[i] = results[i]
    BY <1>3, Appended
  <2>3. n \in Nat
    BY ListIsFunction
  <2>. HIDE DEF n
  <2>4. \A i \in 1 .. n + 1 : i \in 1 .. n \/ i = n + 1
    BY <2>3
  <2>. QED  BY <2>1, <2>2, <2>4 DEF n
<1>. QED  BY <1>1, <1>2, <1>3

\* No byte under way is no byte in the buffer.
LEMMA NothingInBuffer ==
    ASSUME IsList(buffer), IsList(wire), buffer \o wire = <<>>
    PROVE  buffer = <<>> /\ wire = <<>>
<1>. DEFINE all == buffer \o wire
<1>1. IsJoined(all, buffer, wire) /\ all = <<>>
  BY Joined
<1>. HIDE DEF all
<1>2. Len(all) = 0
  BY <1>1, Empty
<1>3. Len(buffer) = 0 /\ Len(wire) = 0
  BY <1>1, <1>2 DEF IsJoined
<1>. QED  BY <1>3, EmptyList

\* after sendRequest(),
LEMMA RetrySend == ASSUME PathBooks, RetryBooks, SendRequests PROVE RetryBooks'
<1>1. ~consuming /\ pending = <<>> /\ UNCHANGED <<job, buffer, consuming, wire, heard, results>>
  BY DEF SendRequests
<1>2. Clean' = Clean
  BY <1>1 DEF Clean
<1>3. SUFFICES ASSUME job.framing = "Rtu", Clean PROVE RetryBooks'
  BY <1>1, <1>2 DEF RetryBooks
<1>4. /\ IsList(buffer) /\ IsList(wire) /\ InTurn /\ FailedInVain /\ (IsIntact \/ IsSpoilt)
  BY <1>3 DEF RetryBooks
<1>5. First \in Nat /\ Waiting \in Nat /\ sent \in Nat
  BY <1>4 DEF InTurn, PathBooks
<1>6. /\ First' = First /\ Waiting = 0 /\ Waiting' = 0 /\ sent' = sent + Len(line')
      /\ Len(pending') \in Nat /\ Len(line') = Len(pending')
      /\ \A k \in 1 .. Len(pending') : pending'[k].tid = First + k /\ line'[k].tid = First + k /\ pending'[k].attempts = 1
  BY <1>5, BatchGoesOut
<1>7. Len(pending) = 0
  BY <1>1, Empty
<1>8. First = sent
  BY <1>5, <1>7 DEF First
<1>9. buffer = <<>> /\ buffer \o wire = <<>>
  <2>1. HoldsWhole(buffer \o wire, 0)
    BY <1>4, <1>6, <1>7 DEF IsIntact, IsSpoilt
  <2>2. buffer \o wire = <<>>
    BY <2>1, NoneIsNothing
  <2>. QED  BY <1>4, <2>2, NothingInBuffer
<1>10. ASSUME NEW k \in 1 .. Len(pending') PROVE InVain(heard, First + k) = 0
  <2>1. \A j \in 1 .. Len(heard) : heard[j].tid \in Nat /\ heard[j].tid <= sent
    BY <1>4 DEF InTurn
  <2>2. First + k \in Nat /\ ~(First + k <= sent)
    BY <1>5, <1>6, <1>8
  <2>3. DOMAIN heard = 1 .. Len(heard)
    BY ListIsFunction DEF PathBooks
  <2>4. {j \in DOMAIN heard : heard[j].tid = First + k /\ heard[j].came = "changed"} = {}
    BY <2>1, <2>2, <2>3
  <2>. QED  BY <2>4, FS_EmptySet DEF InVain
<1>11. IsIntact'
  <2>1. \A k \in 1 .. Len(pending') : InVain(heard', First' + k) = pending'[k].attempts - 1
    BY <1>1, <1>6, <1>10
  <2>2. HoldsWhole(buffer \o wire, Waiting)'
    BY <1>1, <1>6, <1>9, NoneWhole
  <2>. QED  BY <2>1, <2>2 DEF IsIntact
<1>12. InTurn'
  <2>1. \A k \in 1 .. Len(pending') : pending'[k].tid = First' + k /\ pending'[k].attempts <= RetryCount + 1
    BY <1>6, PathAssumption
  <2>2. \A k \in 1 .. Len(line') : line'[k].tid = (First' + Waiting') + k
    BY <1>5, <1>6
  <2>3. \A j \in 1 .. Len(heard') : heard'[j].tid \in Nat /\ heard'[j].tid <= sent'
    <3>1. sent <= sent' /\ sent' \in Nat
      BY <1>5, <1>6
    <3>2. \A j \in 1 .. Len(heard) : heard[j].tid \in Nat /\ heard[j].tid <= sent
      BY <1>4 DEF InTurn
    <3>. QED  BY <1>1, <1>5, <3>1, <3>2
  <2>. QED  BY <1>5, <1>6, <2>1, <2>2, <2>3 DEF InTurn
<1>13. FailedInVain'
  BY <1>1, <1>4, <1>6 DEF FailedInVain
<1>14. NothingWhole("Rtu", buffer')
  BY <1>1, <1>9, NothingIsNotWhole
<1>15. IsList(results') /\ IsList(buffer') /\ IsList(wire')
  BY <1>1, <1>4 DEF RetryBooks
<1>. QED  BY <1>3, <1>1, <1>11, <1>12, <1>13, <1>14, <1>15 DEF RetryBooks, NothingWhole

\* after the device answers: the answer comes as it is, or changed, or cut,
LEMMA RetryAnswer == ASSUME PathBooks, RetryBooks, DeviceAnswers PROVE RetryBooks'
<1>1. UNCHANGED <<job, sent, pending, buffer, consuming, results>> /\ line # <<>>
  BY DEF DeviceAnswers, hostVars
<1>. DEFINE ask == AskIn(Head(line).bytes)
            bytes == Framed(Head(line).tid, AnswerPdu(ask, AnswerTo(ask)))
            Entry(came) == [tid |-> Head(line).tid, took |-> ask,
                            answer |-> AnswerTo(ask), came |-> came]
            tid == First + (Waiting + 1)
<1>2. \E came : /\ heard' = Append(heard, Entry(came))
                /\ \/ came = "intact" /\ wire' = wire \o bytes
                   \/ /\ came \in {"changed", "cut"} /\ MayDamage
                      /\ \E damaged \in Damaged(bytes) :
                             /\ wire' = wire \o damaged
                             /\ came = "changed" => ExpectedRtuResponseLength(damaged) = Len(damaged)
  <2>. DEFINE Hear(came) == heard' = Append(heard, Entry(came))
              Changed(damaged) == ExpectedRtuResponseLength(damaged) = Len(damaged)
  <2>1. CASE wire' = wire \o bytes /\ Hear("intact")
    BY <2>1
  <2>2. ASSUME MayDamage, NEW damaged \in Damaged(bytes), wire' = wire \o damaged,
               Hear(IF Changed(damaged) THEN "changed" ELSE "cut")
        PROVE  \E came : /\ Hear(came) /\ came \in {"changed", "cut"}
                         /\ came = "changed" => Changed(damaged)
    <3>. HIDE DEF Hear, Changed
    <3>1. CASE Changed(damaged)
      BY <2>2, <3>1
    <3>2. CASE ~Changed(damaged)
      BY <2>2, <3>2
    <3>. QED  BY <3>1, <3>2
  <2>3. \/ wire' = wire \o bytes /\ Hear("intact")
        \/ MayDamage /\ \E damaged \in Damaged(bytes) :
               wire' = wire \o damaged /\ Hear(IF Changed(damaged) THEN "changed" ELSE "cut")
    <3>1. AnswerRequest(Head(line)) /\ Understood(Head(line)) /\ job \in Jobs
      BY RequestIsHeard DEF PathBooks
    <3>2. AnswerFrame(Head(line).bytes, AnswerPdu(ask, AnswerTo(ask))) = bytes
      BY <3>1, DeviceMakes DEF BytesFor
    <3>. QED  BY <3>1, <3>2, Zenon DEF AnswerRequest
  <2>. HIDE DEF Hear, Changed, bytes
  <2>. QED  BY <2>1, <2>2, <2>3, Zenon DEF Hear, Changed
<1>3. PICK came : /\ heard' = Append(heard, Entry(came))
                  /\ \/ came = "intact" /\ wire' = wire \o bytes
                     \/ /\ came \in {"changed", "cut"} /\ MayDamage
                        /\ \E damaged \in Damaged(bytes) :
                               /\ wire' = wire \o damaged
                               /\ came = "changed" => ExpectedRtuResponseLength(damaged) = Len(damaged)
  BY <1>2, Zenon
<1>. DEFINE entry == Entry(came)
<1>4. entry.tid = Head(line).tid /\ entry.came = came /\ heard' = Append(heard, entry)
  BY <1>3
<1>5. /\ IsList(heard') /\ Len(heard') = Len(heard) + 1 /\ heard'[Len(heard) + 1] = entry
      /\ \A j \in 1 .. Len(heard) : heard'[j] = heard[j]
  <2>1. IsList(heard)
    BY DEF PathBooks
  <2>. HIDE DEF entry
  <2>. QED  BY <1>4, <2>1, Appended
<1>6. \A x : /\ InVain(heard, x) \in Nat
             /\ InVain(heard', x) = IF came = "changed" /\ entry.tid = x
                                             THEN InVain(heard, x) + 1 ELSE InVain(heard, x)
             /\ Clean' => Clean /\ came # "cut"
  <2>1. IsList(heard)
    BY DEF PathBooks
  <2>. HIDE DEF entry
  <2>. QED  BY <1>4, <2>1, OneMoreHeard
<1>7. SUFFICES ASSUME job.framing = "Rtu", Clean' PROVE RetryBooks'
  BY <1>1 DEF RetryBooks
<1>8. /\ IsList(buffer) /\ IsList(wire) /\ InTurn /\ FailedInVain /\ (IsIntact \/ IsSpoilt)
      /\ ~consuming /\ pending # <<>> => NothingWhole("Rtu", buffer)
      /\ came # "cut"
  BY <1>6, <1>7 DEF RetryBooks
<1>9. First \in Nat /\ Waiting \in Nat /\ sent \in Nat /\ tid \in Nat
  BY <1>8 DEF InTurn, PathBooks
<1>10. /\ Len(line') = Len(line) - 1 /\ Len(line) \in Nat \ {0} /\ IsList(line')
       /\ Head(line) = line[1] /\ Understood(line[1]) /\ line[1].tid = tid
       /\ First' = First /\ Waiting' = Waiting + 1
       /\ \A k \in 1 .. Len(line') : line'[k].tid = (First' + Waiting') + k
  <2>1. \A k \in 1 .. Len(line) : line[k].tid = (First + Waiting) + k
    BY <1>8 DEF InTurn
  <2>. QED  BY <1>9, <2>1, LineMoves
<1>11. IsIntact
  BY <1>1, <1>8 DEF IsSpoilt
<1>12. \E pdu : IsRtuAnswer(bytes, pdu)
  <2>1. ask \in PossibleAsks /\ Head(line).tid \in Nat
    BY <1>10 DEF Understood
  <2>. HIDE DEF ask
  <2>2. IsAnswerPdu(AnswerPdu(ask, AnswerTo(ask)))
    BY <2>1, DeviceKeepsProtocol
  <2>. DEFINE pdu == AnswerPdu(ask, AnswerTo(ask))
  <2>3. bytes = Framed(Head(line).tid, pdu)
    BY DEF bytes, ask
  <2>. HIDE DEF pdu, bytes
  <2>4. IsAnswer(job.framing, bytes, Head(line).tid, pdu)
    BY <2>1, <2>2, <2>3, AnswersAnnounce DEF pdu
  <2>. QED  BY <1>7, <2>4 DEF IsAnswer
<1>. HIDE DEF bytes, ask, Entry, entry
<1>13. entry.tid = tid
  BY <1>4, <1>10
<1>14. Len(pending) \in Nat /\ Waiting = Len(pending) - Len(line) /\ First = sent - Len(pending)
  BY ListIsFunction, AList DEF PathBooks, Waiting, First
<1>15. tid <= sent /\ \A x \in Nat : x <= First => x # tid
  BY <1>9, <1>10, <1>14
<1>. HIDE DEF tid
<1>16. InTurn'
  <2>1. \A j \in 1 .. Len(heard') : heard'[j].tid \in Nat /\ heard'[j].tid <= sent'
    <3>1. ASSUME NEW j \in 1 .. Len(heard') PROVE heard'[j].tid \in Nat /\ heard'[j].tid <= sent
      <4>1. Len(heard) \in Nat
        BY ListIsFunction DEF PathBooks
      <4>2. j \in 1 .. Len(heard) \/ j = Len(heard) + 1
        BY <1>5, <4>1
      <4>3. \A i \in 1 .. Len(heard) : heard[i].tid \in Nat /\ heard[i].tid <= sent
        BY <1>8 DEF InTurn
      <4>. QED  BY <1>5, <1>9, <1>13, <1>15, <4>2, <4>3
    <3>. QED  BY <1>1, <3>1
  <2>2. \A k \in 1 .. Len(pending') : pending'[k].tid = First' + k /\ pending'[k].attempts <= RetryCount + 1
    BY <1>1, <1>8, <1>10 DEF InTurn
  <2>. QED  BY <1>9, <1>10, <2>1, <2>2 DEF InTurn
<1>17. FailedInVain'
  <2>. SUFFICES ASSUME NEW i \in 1 .. Len(results), results[i].got.status = "failed"
                PROVE  /\ results[i].tid \in Nat /\ 1 <= results[i].tid /\ results[i].tid <= First
                       /\ InVain(heard', results[i].tid) = RetryCount + 1
    <3>1. results' = results /\ First' = First
      BY <1>1, <1>10
    <3>. QED  BY <3>1 DEF FailedInVain
  <2>1. /\ results[i].tid \in Nat /\ 1 <= results[i].tid /\ results[i].tid <= First
        /\ InVain(heard, results[i].tid) = RetryCount + 1
    BY <1>8 DEF FailedInVain
  <2>2. entry.tid # results[i].tid
    BY <1>13, <1>15, <2>1
  <2>. QED  BY <1>6, <2>1, <2>2
<1>18. IsList(wire') /\ (IsIntact' \/ IsSpoilt')
  <2>1. HoldsWhole(buffer \o wire, Waiting)
        /\ \A k \in 1 .. Len(pending) : InVain(heard, First + k) = pending[k].attempts - 1
    BY <1>11 DEF IsIntact
  <2>2. IsList(bytes) /\ Len(bytes) \in Nat /\ Len(bytes) >= 5
    BY <1>12, ListIsFunction DEF IsRtuAnswer
  <2>3. CASE came = "intact"
    <3>1. wire' = wire \o bytes
      BY <1>3, <2>3
    <3>2. (buffer \o wire) \o bytes = buffer \o wire'
      <4>1. IsList(buffer) /\ IsList(wire) /\ IsList(bytes)
        BY <1>8, <2>2
      <4>2. (buffer \o wire) \o bytes = buffer \o (wire \o bytes)
        BY <4>1, Regrouped
      <4>. QED  BY <3>1, <4>2, Zenon
    <3>3. HoldsWhole((buffer \o wire) \o bytes, Waiting + 1)
      <4>. DEFINE stream == buffer \o wire
      <4>1. HoldsWhole(stream, Waiting)
        BY <2>1
      <4>. HIDE DEF stream
      <4>2. HoldsWhole(stream \o bytes, Waiting + 1)
        BY <1>9, <1>12, <4>1, OneMoreWhole
      <4>. QED  BY <4>2 DEF stream
    <3>4. HoldsWhole(buffer \o wire, Waiting)'
      BY <1>1, <1>10, <3>2, <3>3, Zenon
    <3>5. \A k \in 1 .. Len(pending') : InVain(heard', First' + k) = pending'[k].attempts - 1
      <4>1. TAKE k \in 1 .. Len(pending')
      <4>2. InVain(heard, First + k) = pending[k].attempts - 1 /\ First' + k = First + k
        BY <1>1, <1>10, <2>1
      <4>3. InVain(heard', First + k) = InVain(heard, First + k)
        BY <1>6, <2>3
      <4>. QED  BY <1>1, <4>2, <4>3
    <3>6. IsList(wire')
      <4>1. IsJoined(wire \o bytes, wire, bytes)
        BY <1>8, <2>2, Joined, Zenon
      <4>. QED  BY <3>1, <4>1, Zenon DEF IsJoined
    <3>. QED  BY <3>4, <3>5, <3>6 DEF IsIntact
  <2>4. CASE came = "changed"
    <3>1. Len(pending) = 1
      BY <1>3, <2>4 DEF MayDamage
    <3>2. PICK damaged \in Damaged(bytes) :
              wire' = wire \o damaged /\ ExpectedRtuResponseLength(damaged) = Len(damaged)
      BY <1>3, <2>4
    <3>3. Waiting = 0 /\ Len(line) = 1
      BY <1>9, <1>10, <1>14, <3>1
    <3>4. buffer = <<>> /\ wire = <<>>
      <4>1. buffer \o wire = <<>>
        BY <2>1, <3>3, NoneIsNothing
      <4>. QED  BY <1>8, <4>1, NothingInBuffer
    <3>5. line' = <<>>
      BY <1>10, <3>3, EmptyList
    <3>6. IsWhole(damaged)
      <4>1. IsList(damaged) /\ Len(damaged) \in Nat /\ Len(damaged) >= Len(bytes) - 1
        BY <2>2, DamagedIsList
      <4>2. Len(damaged) >= 3
        BY <2>2, <4>1
      <4>. QED  BY <3>2, <4>1, <4>2 DEF IsWhole
    <3>7. wire' = damaged /\ buffer' \o wire' = damaged
      BY <1>1, <3>2, <3>4, <3>6, NothingJoined DEF IsWhole
    <3>8. InVain(heard', First' + 1) = pending[1].attempts
      <4>1. tid = First + 1 /\ 1 \in 1 .. Len(pending)
        BY <1>9, <3>1, <3>3 DEF tid
      <4>2. InVain(heard, tid) = pending[1].attempts - 1
        BY <2>1, <4>1
      <4>3. pending[1].attempts \in Nat
        <5>1. pending[1] \in PendingRequests
          BY <4>1 DEF PathBooks
        <5>. QED  BY <5>1 DEF PendingRequests
      <4>4. InVain(heard', tid) = InVain(heard, tid) + 1
        BY <1>6, <1>13, <2>4
      <4>5. First' + 1 = tid
        BY <1>10, <4>1
      <4>. QED  BY <4>2, <4>3, <4>4, <4>5
    <3>. QED  BY <1>1, <3>1, <3>5, <3>6, <3>7, <3>8 DEF IsSpoilt, IsWhole
  <2>. QED  BY <1>3, <1>8, <2>3, <2>4
<1>19. IsList(results') /\ IsList(buffer') /\ (~consuming' /\ pending' # <<>> => NothingWhole("Rtu", buffer'))
  BY <1>1, <1>8 DEF RetryBooks
<1>. QED  BY <1>1, <1>7, <1>16, <1>17, <1>18, <1>19 DEF RetryBooks, NothingWhole

\* after handleDataReceived(),
LEMMA RetryReceive == ASSUME PathBooks, RetryBooks, NEW n \in DOMAIN wire, DataReceived(n) PROVE RetryBooks'
<1>1. /\ ~consuming /\ UNCHANGED <<job, sent, pending, line, heard, results>>
      /\ wire' = SubSeq(wire, n + 1, Len(wire))
      /\ pending # <<>> => buffer' = buffer \o SubSeq(wire, 1, n) /\ consuming' = TRUE
  BY DEF DataReceived
<1>2. Clean' = Clean /\ First' = First /\ Waiting' = Waiting
  BY <1>1 DEF Clean, First, Waiting
<1>3. SUFFICES ASSUME job.framing = "Rtu", Clean PROVE RetryBooks'
  BY <1>1, <1>2 DEF RetryBooks
<1>4. /\ IsList(buffer) /\ IsList(wire) /\ InTurn /\ FailedInVain /\ (IsIntact \/ IsSpoilt)
  BY <1>3 DEF RetryBooks
<1>5. n \in 1 .. Len(wire) /\ n \in 0 .. Len(wire)
  <2>1. n \in 1 .. Len(wire)
    BY <1>4, ListIsFunction
  <2>. QED  BY <1>4, <2>1, ListIsFunction
<1>6. pending # <<>>
  <2>. SUFFICES ASSUME pending = <<>> PROVE FALSE
    OBVIOUS
  <2>1. Len(pending) = 0 /\ Len(line) \in Nat /\ Waiting \in Nat
    BY <1>4, Empty, ListIsFunction DEF PathBooks, InTurn
  <2>2. Waiting = 0
    BY <2>1 DEF Waiting
  <2>3. HoldsWhole(buffer \o wire, 0)
    BY <1>4, <2>1, <2>2 DEF IsIntact, IsSpoilt
  <2>4. wire = <<>>
    BY <1>4, <2>3, NoneIsNothing, NothingInBuffer
  <2>. QED  BY <1>5, <2>4, Empty
<1>. DEFINE part == SubSeq(wire, 1, n)  left == SubSeq(wire, n + 1, Len(wire))
<1>7. IsList(part) /\ IsList(left) /\ part \o left = wire
  BY <1>4, <1>5, SplitAt
<1>8. buffer' = buffer \o part /\ wire' = left /\ consuming'
  BY <1>1, <1>6
<1>. HIDE DEF part, left
<1>9. buffer' \o wire' = buffer \o wire
  <2>1. IsList(buffer) /\ IsList(part) /\ IsList(left)
    BY <1>4, <1>7
  <2>2. (buffer \o part) \o left = buffer \o (part \o left)
    BY <2>1, Regrouped
  <2>. QED  BY <1>7, <1>8, <2>2, Zenon
<1>10. IsList(buffer') /\ IsList(wire')
  <2>1. IsJoined(buffer \o part, buffer, part)
    BY <1>4, <1>7, Joined, Zenon
  <2>. QED  BY <1>7, <1>8, <2>1, Zenon DEF IsJoined
<1>11. InTurn' /\ FailedInVain'
  BY <1>1, <1>2, <1>4 DEF InTurn, FailedInVain
<1>12. IsIntact' \/ IsSpoilt'
  BY <1>1, <1>2, <1>4, <1>9 DEF IsIntact, IsSpoilt
<1>. QED  BY <1>1, <1>3, <1>8, <1>10, <1>11, <1>12 DEF RetryBooks

\* When some frame is whole, either the first answer is, or all of a changed one.
LEMMA WholeAtHead ==
    ASSUME PathBooks, IsList(buffer), IsList(wire), Waiting \in Nat, IsIntact \/ IsSpoilt, ~NothingWhole("Rtu", buffer)
    PROVE  \E frame : /\ IsWhole(frame) /\ ExpectedRtuResponseLength(buffer) = Len(frame)
                      /\ \E tail : /\ IsList(tail) /\ buffer \o wire = frame \o tail /\ Len(frame) <= Len(buffer)
                                   /\ \/ IsIntact /\ Waiting # 0 /\ IsRtuFrame(frame) /\ HoldsWhole(tail, Waiting - 1)
                                      \/ IsSpoilt /\ tail = <<>>
<1>. DEFINE stream == buffer \o wire
<1>1. stream # <<>>
  <2>. SUFFICES ASSUME buffer \o wire = <<>> PROVE FALSE
    OBVIOUS
  <2>. QED  BY NothingInBuffer, NothingIsNotWhole
<1>2. \E frame : /\ IsWhole(frame)
                 /\ \E tail : /\ IsList(tail) /\ stream = frame \o tail
                              /\ \/ IsIntact /\ Waiting # 0 /\ IsRtuFrame(frame) /\ HoldsWhole(tail, Waiting - 1)
                                 \/ IsSpoilt /\ tail = <<>>
  <2>1. CASE IsIntact
    <3>1. HoldsWhole(stream, Waiting)
      BY <2>1 DEF IsIntact
    <3>. HIDE DEF stream
    <3>2. Waiting \in Nat \ {0}
      BY <1>1, <3>1, NoneIsNothing
    <3>3. PICK frame : (\E pdu : IsRtuAnswer(frame, pdu)) /\
              \E tail : IsList(tail) /\ stream = frame \o tail /\ HoldsWhole(tail, Waiting - 1)
      BY <3>1, <3>2, FirstWhole
    <3>4. IsWhole(frame) /\ IsRtuFrame(frame)
      <4>1. PICK pdu : IsRtuAnswer(frame, pdu)
        BY <3>3
      <4>. QED  BY <4>1, AnswerIsWhole DEF IsRtuAnswer
    <3>. QED  BY <2>1, <3>2, <3>3, <3>4, Zenon
  <2>2. CASE IsSpoilt
    <3>1. IsWhole(stream)
      BY <1>1, <2>2 DEF IsSpoilt
    <3>. HIDE DEF stream
    <3>2. stream \o <<>> = stream
      BY <3>1, NothingJoined DEF IsWhole
    <3>. QED  BY <2>2, <3>1, <3>2, Empty
  <2>. HIDE DEF stream
  <2>. QED  BY <2>1, <2>2, Zenon
<1>3. PICK frame : /\ IsWhole(frame)
                   /\ \E tail : /\ IsList(tail) /\ stream = frame \o tail
                                /\ \/ IsIntact /\ Waiting # 0 /\ IsRtuFrame(frame) /\ HoldsWhole(tail, Waiting - 1)
                                   \/ IsSpoilt /\ tail = <<>>
  BY <1>2
<1>4. PICK tail : /\ IsList(tail) /\ stream = frame \o tail
                  /\ \/ IsIntact /\ Waiting # 0 /\ IsRtuFrame(frame) /\ HoldsWhole(tail, Waiting - 1)
                     \/ IsSpoilt /\ tail = <<>>
  BY <1>3
<1>. DEFINE length == ExpectedRtuResponseLength(buffer)  m == Len(buffer)  n == Len(frame)
<1>5. IF m < n THEN ~(length > 0 /\ m >= length) ELSE length = n
  BY <1>3, <1>4, WholeHead
<1>6. length > 0 /\ m >= length
  BY DEF NothingWhole
<1>7. m \in Nat /\ n \in Nat
  BY <1>3, ListIsFunction DEF IsWhole
<1>. HIDE DEF length, m, n
<1>8. length = n /\ n <= m
  BY <1>5, <1>6, <1>7
<1>. QED  BY <1>3, <1>4, <1>8, Zenon DEF length, m, n

\* after a turn of consumeRtuFrames(): the request is complete, or its changed answer dropped,
LEMMA RetryTurn == ASSUME PathBooks, RetryBooks, ConsumeRtuFrame PROVE RetryBooks'
<1>. DEFINE length == ExpectedRtuResponseLength(buffer)  head == SubSeq(buffer, 1, length)
<1>1. /\ consuming /\ job.framing = "Rtu" /\ pending # <<>> /\ HoldsRtuFrame
      /\ UNCHANGED <<job, todo, sent, consuming, line, wire, heard>>
      /\ Cut(length)
      /\ IF IsRtuFrame(head) THEN CompleteRequest(1, PduOfRtuFrame(head)) ELSE UNCHANGED <<pending, results>>
  BY Zenon DEF ConsumeRtuFrame, deviceVars
<1>2. buffer' = SubSeq(buffer, length + 1, Len(buffer))
  BY <1>1 DEF Cut
<1>3. Clean' = Clean
  BY <1>1 DEF Clean
<1>4. /\ IsList(results')
      /\ \A i \in 1 .. Len(results') : results'[i].got.status = "failed" =>
             i \in 1 .. Len(results) /\ results'[i] = results[i]
  <2>1. IsList(results)
    BY DEF RetryBooks
  <2>2. CASE results' = results
    BY <2>1, <2>2
  <2>. QED  BY <1>1, <2>1, <2>2, NothingFails
<1>5. SUFFICES ASSUME Clean PROVE RetryBooks'
  BY <1>1, <1>3, <1>4 DEF RetryBooks
<1>6. /\ IsList(buffer) /\ IsList(wire) /\ InTurn /\ FailedInVain /\ (IsIntact \/ IsSpoilt)
      /\ First \in Nat /\ Waiting \in Nat
  BY <1>1, <1>5 DEF RetryBooks, InTurn
<1>7. ~NothingWhole("Rtu", buffer)
  BY <1>1 DEF NothingWhole, HoldsRtuFrame
<1>8. PICK frame : /\ IsWhole(frame) /\ length = Len(frame)
                   /\ \E tail : /\ IsList(tail) /\ buffer \o wire = frame \o tail /\ Len(frame) <= Len(buffer)
                                /\ \/ IsIntact /\ Waiting # 0 /\ IsRtuFrame(frame) /\ HoldsWhole(tail, Waiting - 1)
                                   \/ IsSpoilt /\ tail = <<>>
  BY <1>6, <1>7, WholeAtHead
<1>9. PICK tail : /\ IsList(tail) /\ buffer \o wire = frame \o tail /\ Len(frame) <= Len(buffer)
                  /\ \/ IsIntact /\ Waiting # 0 /\ IsRtuFrame(frame) /\ HoldsWhole(tail, Waiting - 1)
                     \/ IsSpoilt /\ tail = <<>>
  BY <1>8
<1>10. head = frame /\ IsList(buffer') /\ buffer' \o wire' = tail
  <2>1. IsList(frame)
    BY <1>8 DEF IsWhole
  <2>2. /\ SubSeq(buffer, 1, Len(frame)) = frame
        /\ IsList(SubSeq(buffer, Len(frame) + 1, Len(buffer)))
        /\ SubSeq(buffer, Len(frame) + 1, Len(buffer)) \o wire = tail
    BY <1>6, <1>9, <2>1, CutOff
  <2>. QED  BY <1>1, <1>2, <1>8, <2>2, Zenon
<1>. HIDE DEF length, head
<1>11. /\ Len(pending) \in Nat \ {0} /\ sent \in Nat /\ Len(line) \in Nat
       /\ First = sent - Len(pending) /\ Waiting = Len(pending) - Len(line)
  <2>1. pending \in Seq(PendingRequests)
    BY DEF PathBooks
  <2>. QED  BY <1>1, <2>1, ListIsFunction DEF PathBooks, First, Waiting
<1>12. First' = sent - Len(pending') /\ Waiting' = Len(pending') - Len(line)
  BY <1>1, Zenon DEF First, Waiting
<1>13. \A k \in 1 .. Len(pending) : pending[k].tid = First + k /\ pending[k].attempts <= RetryCount + 1
  BY <1>6 DEF InTurn
<1>14. CASE ~IsRtuFrame(head)
  <2>1. pending' = pending /\ results' = results /\ First' = First /\ Waiting' = Waiting
    BY <1>1, <1>11, <1>12, <1>14
  <2>2. IsSpoilt /\ tail = <<>>
    BY <1>9, <1>10, <1>14
  <2>3. IsSpoilt'
    BY <1>1, <1>10, <2>1, <2>2 DEF IsSpoilt
  <2>4. InTurn' /\ FailedInVain'
    BY <1>1, <1>6, <2>1 DEF InTurn, FailedInVain
  <2>. QED  BY <1>1, <1>4, <1>6, <1>10, <2>3, <2>4 DEF RetryBooks
<1>15. CASE IsRtuFrame(head)
  <2>1. pending' = RemoveAt(pending, 1)
    BY <1>1, <1>15 DEF CompleteRequest
  <2>2. /\ Len(pending') = Len(pending) - 1
        /\ \A k \in 1 .. Len(pending) - 1 : pending'[k] = pending[k + 1]
    <3>1. IsList(pending)
      BY AList DEF PathBooks
    <3>. QED  BY <1>1, <2>1, <3>1, RemovedFirst
  <2>3. First' = First + 1 /\ Waiting' = Waiting - 1
    BY <1>11, <1>12, <2>2
  <2>4. ASSUME NEW k \in 1 .. Len(pending')
        PROVE  /\ pending'[k] = pending[k + 1] /\ k + 1 \in 1 .. Len(pending)
               /\ First' + k = First + (k + 1)
    BY <1>6, <1>11, <2>2, <2>3
  <2>5. Waiting' \in Nat /\ HoldsWhole(tail, Waiting') /\ \A k \in 1 .. Len(pending') :
            InVain(heard, First + (k + 1)) = pending[k + 1].attempts - 1
    <3>1. CASE IsIntact /\ Waiting # 0 /\ HoldsWhole(tail, Waiting - 1)
      <4>1. \A k \in 1 .. Len(pending) : InVain(heard, First + k) = pending[k].attempts - 1
        BY <3>1 DEF IsIntact
      <4>. QED  BY <1>6, <2>3, <2>4, <3>1, <4>1
    <3>2. CASE IsSpoilt /\ tail = <<>>
      <4>1. Len(pending) = 1 /\ Len(line) = 0
        BY <3>2, Empty DEF IsSpoilt
      <4>2. Waiting' = 0 /\ Len(pending') = 0
        BY <1>11, <2>2, <2>3, <4>1
      <4>. QED  BY <3>2, <4>2, NoneWhole
    <3>. QED  BY <1>9, <3>1, <3>2
  <2>6. IsIntact'
    <3>1. HoldsWhole(buffer' \o wire', Waiting')
      BY <1>10, <2>5
    <3>2. \A k \in 1 .. Len(pending') : InVain(heard', First' + k) = pending'[k].attempts - 1
      BY <1>1, <2>4, <2>5
    <3>. QED  BY <3>1, <3>2 DEF IsIntact
  <2>7. InTurn'
    <3>1. First' \in Nat /\ First' + Waiting' = First + Waiting
      BY <1>6, <2>3
    <3>2. \A k \in 1 .. Len(pending') : pending'[k].tid = First' + k /\ pending'[k].attempts <= RetryCount + 1
      BY <1>13, <2>4
    <3>. QED  BY <1>1, <1>6, <2>5, <3>1, <3>2 DEF InTurn
  <2>8. FailedInVain'
    <3>1. \A n \in Nat : n <= First => n <= First + 1
      BY <1>6
    <3>2. \A i \in 1 .. Len(results) : results[i].got.status = "failed" =>
              /\ results[i].tid \in Nat /\ 1 <= results[i].tid /\ results[i].tid <= First
              /\ InVain(heard, results[i].tid) = RetryCount + 1
      BY <1>6 DEF FailedInVain
    <3>. QED  BY <1>1, <1>4, <2>3, <3>1, <3>2 DEF FailedInVain
  <2>. QED  BY <1>1, <1>4, <1>6, <1>10, <2>6, <2>7, <2>8 DEF RetryBooks
<1>. QED  BY <1>14, <1>15

\* handleTimeout() is reached only when the one answer under way came changed and was dropped.
LEMMA DroppedOnly ==
    ASSUME PathBooks, RetryBooks, job.framing = "Rtu", Clean, pending # <<>>, ~consuming, line = <<>>, wire = <<>>
    PROVE  IsSpoilt /\ buffer = <<>>
<1>1. /\ IsList(buffer) /\ IsList(wire) /\ Waiting \in Nat /\ (IsIntact \/ IsSpoilt) /\ NothingWhole("Rtu", buffer)
  BY DEF RetryBooks, InTurn
<1>2. buffer \o wire = buffer
  BY <1>1, NothingJoined
<1>3. CASE IsIntact
  <2>1. Len(line) = 0
    BY Empty
  <2>2. pending \in Seq(PendingRequests)
    BY DEF PathBooks
  <2>3. Waiting \in Nat \ {0}
    BY <1>1, <2>1, <2>2 DEF Waiting
  <2>4. HoldsWhole(buffer, Waiting)
    BY <1>2, <1>3 DEF IsIntact
  <2>5. PICK frame : (\E pdu : IsRtuAnswer(frame, pdu)) /\
            \E tail : IsList(tail) /\ buffer = frame \o tail /\ HoldsWhole(tail, Waiting - 1)
    BY <2>3, <2>4, FirstWhole
  <2>6. PICK tail : IsList(tail) /\ buffer = frame \o tail
    BY <2>5
  <2>7. IsWhole(frame)
    BY <2>5, AnswerIsWhole
  <2>. DEFINE length == ExpectedRtuResponseLength(buffer)  m == Len(buffer)  n == Len(frame)
  <2>8. IF m < n THEN ~(length > 0 /\ m >= length) ELSE length = n
    BY <1>1, <1>2, <2>6, <2>7, WholeHead
  <2>9. n \in Nat /\ n >= 3 /\ m \in Nat /\ n <= m
    <3>. DEFINE whole == frame \o tail
    <3>1. IsJoined(whole, frame, tail) /\ whole = buffer /\ IsList(frame)
      BY <2>6, <2>7, Joined DEF IsWhole
    <3>. HIDE DEF whole
    <3>. QED  BY <2>7, <3>1 DEF IsJoined, IsWhole
  <2>10. ~(length > 0 /\ m >= length)
    BY <1>1 DEF NothingWhole
  <2>. HIDE DEF length, m, n
  <2>. QED  BY <2>8, <2>9, <2>10
<1>4. CASE IsSpoilt /\ IsWhole(buffer)
  <2>. DEFINE length == ExpectedRtuResponseLength(buffer)  m == Len(buffer)
  <2>1. length = m /\ m \in Nat /\ m >= 3
    BY <1>4, ListIsFunction DEF IsWhole
  <2>2. ~(length > 0 /\ m >= length)
    BY <1>1 DEF NothingWhole
  <2>. HIDE DEF length, m
  <2>. QED  BY <2>1, <2>2
<1>5. CASE IsSpoilt /\ buffer = <<>>
  BY <1>5
<1>. QED  BY <1>1, <1>2, <1>3, <1>4, <1>5 DEF IsSpoilt

\* after handleTimeout(), which sends the request again or fails it.
LEMMA RetryTimeout ==
    ASSUME PathBooks, RetryBooks, job.framing = "Rtu", HandleTimeout
    PROVE  RetryBooks'
<1>. DEFINE again     == Chosen(pending, {request \in ToSet(pending) : MayRetry(request)})
            exhausted == Chosen(pending, {request \in ToSet(pending) : ~MayRetry(request)})
            frames == [k \in DOMAIN again |-> FrameFor(again[k])]
            last == Chosen(exhausted, {request \in ToSet(exhausted) : request.tid = sent})
            Failed == [tid |-> sent, ask |-> exhausted[Len(exhausted)].ask, got |-> [status |-> "failed", values |-> <<>>]]
            more == [k \in DOMAIN last |-> Failed]
<1>1. /\ pending # <<>> /\ ~consuming /\ line = <<>> /\ wire = <<>>
      /\ UNCHANGED <<job, sent, buffer, consuming, wire, heard>>
      /\ pending' = [k \in DOMAIN again |-> [again[k] EXCEPT !.attempts = @ + 1]]
      /\ line' = Reverse(frames) /\ results' = results \o more
  BY Zenon DEF HandleTimeout
<1>2. Clean' = Clean
  BY <1>1 DEF Clean
<1>3. IsList(results) /\ IsList(more) /\ IsList(results')
  <2>1. IsList(last)
    <3>1. exhausted \in Seq(PendingRequests)
      BY ChosenIsList DEF PathBooks
    <3>. HIDE DEF exhausted
    <3>. QED  BY <3>1, ChosenIsList, AList
  <2>. HIDE DEF last, Failed
  <2>2. more = [k \in 1 .. Len(last) |-> more[k]] /\ Len(last) \in Nat
    BY <2>1, ListIsFunction
  <2>3. IsList(results)
    BY DEF RetryBooks
  <2>. HIDE DEF more
  <2>4. IsList(more)
    BY <2>2, FunctionIsList
  <2>5. IsJoined(results \o more, results, more)
    BY <2>3, <2>4, Joined, Zenon
  <2>. QED  BY <1>1, <2>3, <2>4, <2>5, Zenon DEF IsJoined
<1>4. SUFFICES ASSUME Clean PROVE RetryBooks'
  BY <1>1, <1>2, <1>3 DEF RetryBooks
<1>5. IsSpoilt /\ buffer = <<>>
  BY <1>1, <1>4, DroppedOnly
<1>6. InTurn /\ FailedInVain /\ First \in Nat /\ Waiting \in Nat /\ sent \in Nat
  BY <1>4 DEF RetryBooks, InTurn, PathBooks
<1>. DEFINE r == pending[1]
<1>7. /\ pending \in Seq(PendingRequests) /\ Len(pending) = 1 /\ IsList(pending)
      /\ r \in PendingRequests /\ r.attempts \in Nat
      /\ r.tid = First + 1 /\ r.attempts <= RetryCount + 1 /\ InVain(heard, First + 1) = r.attempts
  <2>1. pending \in Seq(PendingRequests) /\ Len(pending) = 1 /\ InVain(heard, First + 1) = r.attempts
    BY <1>5 DEF PathBooks, IsSpoilt
  <2>2. r \in PendingRequests /\ IsList(pending)
    BY <2>1, AList
  <2>3. r.tid = First + 1 /\ r.attempts <= RetryCount + 1
    BY <1>6, <2>1 DEF InTurn
  <2>. QED  BY <2>1, <2>2, <2>3 DEF PendingRequests
<1>8. First + 1 = sent
  BY <1>6, <1>7 DEF First
<1>9. /\ MayRetry(r) => again = <<r>> /\ exhausted = <<>>
      /\ ~MayRetry(r) => again = <<>> /\ exhausted = <<r>>
  <2>. HIDE DEF r
  <2>1. ToSet(pending) = {r}
    BY <1>7, ChosenOfOne DEF r
  <2>2. \A S : (r \in S => Chosen(pending, S) = <<r>>) /\ (r \notin S => Chosen(pending, S) = <<>>)
    BY <1>7, ChosenOfOne DEF r
  <2>. QED  BY <2>1, <2>2
<1>. HIDE DEF again, exhausted, r
<1>10. IsIntact' /\ InTurn' /\ FailedInVain'
  <2>1. \A j \in 1 .. Len(heard) : heard[j].tid \in Nat /\ heard[j].tid <= sent
    BY <1>6 DEF InTurn
  <2>2. buffer' \o wire' = <<>>
    BY <1>1, <1>5, Empty, NothingJoined
  <2>3. CASE MayRetry(r)
    <3>1. again = <<r>> /\ exhausted = <<>> /\ Len(again) = 1 /\ again[1] = r /\ DOMAIN again = 1 .. 1 /\ IsList(again)
      BY <1>9, <2>3, OneMember, ListIsFunction
    <3>2. IsList(pending') /\ Len(pending') = 1 /\ pending'[1] = [r EXCEPT !.attempts = @ + 1]
      <4>1. pending' = [k \in 1 .. 1 |-> [again[k] EXCEPT !.attempts = @ + 1]]
        BY <1>1, <3>1
      <4>2. pending' = [k \in 1 .. 1 |-> pending'[k]] /\ pending'[1] = [again[1] EXCEPT !.attempts = @ + 1]
        BY <4>1
      <4>3. IsList(pending') /\ Len(pending') = 1
        BY <4>2, FunctionIsList
      <4>. QED  BY <3>1, <4>2, <4>3
    <3>3. pending'[1].tid = First + 1 /\ pending'[1].attempts = r.attempts + 1 /\ r.attempts <= RetryCount
      BY <1>7, <2>3, <3>2 DEF PendingRequests, MayRetry
    <3>4. Len(line') = 1 /\ line'[1].tid = First + 1
      <4>1. IsList(frames) /\ Len(frames) = 1 /\ frames[1] = FrameFor(r)
        <5>1. frames = [k \in 1 .. 1 |-> frames[k]] /\ frames[1] = FrameFor(r)
          BY <3>1
        <5>. HIDE DEF frames
        <5>. QED  BY <5>1, FunctionIsList
      <4>. HIDE DEF frames
      <4>2. Len(line') = 1 /\ line'[1] = frames[1]
        <5>1. Len(line') = Len(frames) /\ \A i \in 1 .. Len(frames) : line'[i] = frames[(Len(frames) - i) + 1]
          BY <1>1, <4>1, Reversed
        <5>2. 1 \in 1 .. Len(frames) /\ (Len(frames) - 1) + 1 = 1
          BY <4>1
        <5>. QED  BY <4>1, <5>1, <5>2
      <4>. QED  BY <1>7, <4>1, <4>2 DEF FrameFor
    <3>5. results' = results
      <4>1. last = <<>>
        BY <3>1, NoneChosen
      <4>. HIDE DEF last, Failed
      <4>2. more = <<>>
        BY <4>1
      <4>. HIDE DEF more
      <4>. QED  BY <1>1, <1>3, <4>2, NothingJoined
    <3>6. First' = First /\ Waiting' = 0
      BY <1>1, <1>6, <1>7, <3>2, <3>4 DEF First, Waiting
    <3>7. IsIntact'
      <4>1. HoldsWhole(buffer' \o wire', Waiting')
        BY <2>2, <3>6, NoneWhole
      <4>2. \A k \in 1 .. Len(pending') : InVain(heard', First' + k) = pending'[k].attempts - 1
        BY <1>1, <1>7, <3>2, <3>3, <3>6
      <4>. QED  BY <4>1, <4>2 DEF IsIntact
    <3>8. InTurn'
      <4>1. \A k \in 1 .. Len(pending') : pending'[k].tid = First' + k /\ pending'[k].attempts <= RetryCount + 1
        <5>1. r.attempts + 1 <= RetryCount + 1
          BY <1>7, <3>3, PathAssumption
        <5>2. pending'[1].tid = First' + 1 /\ pending'[1].attempts <= RetryCount + 1
          BY <3>3, <3>6, <5>1
        <5>. TAKE k \in 1 .. Len(pending')
        <5>3. k = 1
          BY <3>2
        <5>. QED  BY <5>2, <5>3
      <4>2. \A k \in 1 .. Len(line') : line'[k].tid = (First' + Waiting') + k
        BY <1>6, <3>4, <3>6
      <4>. QED  BY <1>1, <1>6, <2>1, <3>6, <4>1, <4>2 DEF InTurn
    <3>9. FailedInVain'
      BY <1>1, <1>6, <3>5, <3>6 DEF FailedInVain
    <3>. QED  BY <3>7, <3>8, <3>9
  <2>4. CASE ~MayRetry(r)
    <3>1. again = <<>> /\ Len(again) = 0 /\ exhausted = <<r>> /\ DOMAIN again = {}
      BY <1>9, <2>4, Empty
    <3>2. pending' = <<>> /\ line' = <<>> /\ Len(pending') = 0 /\ Len(line') = 0
      <4>1. pending' = <<>> /\ frames = <<>>
        BY <1>1, <3>1
      <4>. HIDE DEF frames
      <4>2. Len(Reverse(<<>>)) = 0 /\ IsList(Reverse(<<>>))
        BY Empty, Reversed
      <4>3. line' = <<>>
        BY <1>1, <4>1, <4>2, EmptyList
      <4>. QED  BY <4>1, <4>3, Empty
    <3>3. First' = First + 1 /\ Waiting' = 0
      BY <1>1, <1>6, <1>8, <3>2 DEF First, Waiting
    <3>4. r.attempts = RetryCount + 1
      BY <1>7, <2>4, PathAssumption DEF MayRetry
    <3>5. IsIntact'
      <4>1. HoldsWhole(buffer' \o wire', Waiting')
        BY <2>2, <3>3, NoneWhole
      <4>. QED  BY <3>2, <4>1 DEF IsIntact
    <3>6. InTurn'
      BY <1>1, <1>6, <2>1, <3>2, <3>3 DEF InTurn
    <3>7. FailedInVain'
      <4>1. \A k \in 1 .. Len(more) : more[k].tid = First + 1
        <5>1. more = [k \in DOMAIN more |-> Failed] /\ DOMAIN more = 1 .. Len(more)
          BY <1>3, ListIsFunction
        <5>2. Failed.tid = sent
          OBVIOUS
        <5>. HIDE DEF more, Failed
        <5>. QED  BY <1>8, <5>1, <5>2
      <4>. HIDE DEF more
      <4>2. IsJoined(results', results, more)
        BY <1>1, <1>3, Joined
      <4>3. \A i \in 1 .. Len(results) : results[i].got.status = "failed" =>
                /\ results[i].tid \in Nat /\ 1 <= results[i].tid /\ results[i].tid <= First
                /\ InVain(heard, results[i].tid) = RetryCount + 1
        BY <1>6 DEF FailedInVain
      <4>. SUFFICES ASSUME NEW i \in 1 .. Len(results'), results'[i].got.status = "failed"
                    PROVE  /\ results'[i].tid \in Nat /\ 1 <= results'[i].tid /\ results'[i].tid <= First + 1
                           /\ InVain(heard, results'[i].tid) = RetryCount + 1
        BY <1>1, <3>3 DEF FailedInVain
      <4>4. CASE i <= Len(results)
        <5>1. i \in 1 .. Len(results) /\ results'[i] = results[i]
          BY <4>2, <4>4 DEF IsJoined
        <5>. QED  BY <1>6, <4>3, <5>1
      <4>5. CASE ~(i <= Len(results))
        <5>. DEFINE k == i - Len(results)
        <5>1. k \in 1 .. Len(more) /\ i = Len(results) + k
          BY <4>2, <4>5 DEF IsJoined
        <5>. HIDE DEF k
        <5>2. results'[i] = more[k]
          BY <4>2, <5>1 DEF IsJoined
        <5>3. results'[i].tid = First + 1
          BY <4>1, <5>1, <5>2
        <5>. QED  BY <1>6, <1>7, <3>4, <5>3
      <4>. QED  BY <4>4, <4>5
    <3>. QED  BY <3>5, <3>6, <3>7
  <2>. QED  BY <2>3, <2>4
<1>11. /\ ~consuming' /\ IsList(buffer') /\ IsList(wire') /\ NothingWhole("Rtu", buffer')
  BY <1>1, <1>5, Empty, NothingIsNotWhole
<1>. QED  BY <1>1, <1>3, <1>10, <1>11 DEF RetryBooks

\* over TCP every answer comes as it is, and handleTimeout() is not reached,
LEMMA RetryTcp ==
    ASSUME PathBooks, CutBooks, TruthBooks, RetryBooks, job.framing = "Tcp", [Next]_vars
    PROVE  RetryBooks'
<1>1. damage = 0 /\ job' = job /\ IsList(results) /\ \A i \in 1 .. Len(results) : results[i].got.status # "failed"
  <2>1. job' = job
    BY DEF Next, vars, SendRequests, DeviceAnswers, AnswerRequest, DataReceived, ConsumeTcpFrame, ConsumeRtuFrame,
           EndConsume, HandleTimeout, ClearLog
  <2>. QED  BY <2>1 DEF TruthBooks, RetryBooks
<1>2. ASSUME results' = results PROVE RetryBooks'
  BY <1>1, <1>2 DEF RetryBooks
<1>3. ASSUME NEW k, NEW pdu, CompleteRequest(k, pdu) PROVE RetryBooks'
  <2>1. /\ IsList(results')
        /\ \A i \in 1 .. Len(results') : results'[i].got.status = "failed" =>
               i \in 1 .. Len(results) /\ results'[i] = results[i]
    BY <1>1, <1>3, NothingFails
  <2>. QED  BY <1>1, <2>1 DEF RetryBooks
<1>4. CASE ConsumeTcpFrame
  <2>1. results' = results \/ \E k : \E pdu : CompleteRequest(k, pdu)
    BY <1>4, Zenon DEF ConsumeTcpFrame
  <2>. QED  BY <1>2, <1>3, <2>1
<1>5. ~ConsumeRtuFrame
  BY DEF ConsumeRtuFrame
<1>6. ~HandleTimeout
  <2>. SUFFICES ASSUME HandleTimeout PROVE FALSE
    OBVIOUS
  <2>1. pending # <<>> /\ ~consuming /\ line = <<>> /\ wire = <<>>
    BY DEF HandleTimeout
  <2>. QED  BY <1>1, <2>1, AllIsRead
<1>7. CASE ~ConsumeTcpFrame
  <2>1. results' = results
    BY <1>5, <1>6, <1>7 DEF Next, vars, hostVars, SendRequests, DeviceAnswers, AnswerRequest, DataReceived, EndConsume, ClearLog
  <2>. QED  BY <1>2, <2>1
<1>. QED  BY <1>4, <1>7

\* and so at all times.
LEMMA RetryInductive == Spec => []RetryBooks
<1>1. PathBooks /\ CutBooks /\ TruthBooks /\ RetryBooks /\ [Next]_vars => RetryBooks'
  <2>. SUFFICES ASSUME PathBooks, CutBooks, TruthBooks, RetryBooks, [Next]_vars, job.framing # "Tcp"
                PROVE  RetryBooks'
    BY RetryTcp
  <2>1. job.framing = "Rtu"
    BY JobsAssumption DEF PathBooks
  <2>2. CASE SendRequests
    BY <2>2, RetrySend
  <2>3. CASE DeviceAnswers
    BY <2>3, RetryAnswer
  <2>4. ASSUME NEW n \in DOMAIN wire, DataReceived(n) PROVE RetryBooks'
    BY <2>4, RetryReceive
  <2>5. ~ConsumeTcpFrame
    BY <2>1 DEF ConsumeTcpFrame
  <2>6. CASE ConsumeRtuFrame
    BY <2>6, RetryTurn
  <2>7. CASE EndConsume
    BY <2>1, <2>7, RetryElse, Zenon DEF EndConsume, deviceVars, NothingWhole, HoldsRtuFrame
  <2>8. CASE HandleTimeout
    BY <2>1, <2>8, RetryTimeout
  <2>9. CASE ClearLog
    BY <2>9, RetryElse DEF ClearLog, deviceVars
  <2>10. CASE UNCHANGED vars
    BY <2>10, RetryElse DEF vars, hostVars, deviceVars
  <2>. QED  BY <2>2, <2>3, <2>4, <2>5, <2>6, <2>7, <2>8, <2>9, <2>10 DEF Next
<1>. QED  BY <1>1, RetryStart, TruthInductive, PTL DEF Spec

\* For all jobs and retry counts, whatever the line changes or loses and whatever computes
\* the checksum: a request is reported failed only when the answer to each of its
\* RetryCount + 1 transmissions came changed, unless an answer came that does not end where
\* its byte count says (handleTimeout(), consumeRtuFrames()).
THEOREM FaultsRetried == Spec => []TransientFaultsAreRetried
<1>1. PathBooks /\ TruthBooks /\ RetryBooks => TransientFaultsAreRetried
  <2>. SUFFICES ASSUME PathBooks, RetryBooks, NEW i \in DOMAIN results, results[i].got.status = "failed",
                       \A j \in DOMAIN heard : heard[j].came # "cut"
                PROVE  Cardinality({j \in DOMAIN heard :
                           heard[j].tid = results[i].tid /\ heard[j].came = "changed"}) = RetryCount + 1
    BY Zenon DEF TransientFaultsAreRetried
  <2>1. DOMAIN results = 1 .. Len(results) /\ DOMAIN heard = 1 .. Len(heard)
    BY ListIsFunction DEF PathBooks, RetryBooks
  <2>2. Clean /\ job.framing # "Tcp"
    BY <2>1 DEF Clean, RetryBooks
  <2>3. FailedInVain
    BY <2>2, JobsAssumption DEF PathBooks, RetryBooks
  <2>. QED  BY <2>1, <2>3 DEF FailedInVain, InVain
<1>. QED  BY <1>1, RetryInductive, TruthInductive, PTL
=============================================================================

------------------------- MODULE ReadCoalescer_proofs -------------------------
(***************************************************************************)
(* Proof that every register of every target is read exactly once, and by  *)
(* requests that depend on the set of registers only, for any limits, any  *)
(* bridged gap and lists of any length.                                    *)
(***************************************************************************)
EXTENDS ReadCoalescer, ListLemmas

Target == [unit : Nat, type : DOMAIN MaxCount, start : 0 .. AddressSpace - 1, quantity : Nat \ {0}]

LEMMA TargetFacts ==
    ASSUME NEW t \in Target
    PROVE  /\ t.unit \in Nat /\ t.type \in DOMAIN MaxCount /\ t.type \in Nat
           /\ MaxCount[t.type] \in Nat \ {0}
           /\ AddressSpace \in Nat /\ t.start \in Nat /\ t.start < AddressSpace
           /\ t.quantity \in Nat \ {0}
           /\ EndOf(t) \in Nat /\ EndOf(t) = t.start + t.quantity
           /\ KeyOf(t) = <<t.unit, t.type>>
<1>1. /\ t.unit \in Nat /\ t.type \in DOMAIN MaxCount /\ t.quantity \in Nat \ {0}
      /\ t.start \in 0 .. AddressSpace - 1
  BY DEF Target
<1>2. /\ DOMAIN MaxCount \subseteq Nat /\ AddressSpace \in Nat
      /\ \A type \in DOMAIN MaxCount : MaxCount[type] \in Nat \ {0}
  BY CoalescerAssumption
<1>. QED  BY <1>1, <1>2 DEF EndOf, KeyOf

-----------------------------------------------------------------------------
(* The order of keys and of the indices of a group.                        *)

KeysOf(list) == {KeyOf(list[i]) : i \in DOMAIN list}

Group(list, key) == {i \in DOMAIN list : KeyOf(list[i]) = key}

ListsInOrder(s, S) ==
    /\ s \in Seq(S) /\ Len(s) \in Nat /\ DOMAIN s = 1 .. Len(s)
    /\ \A j, k \in 1 .. Len(s) : j < k => s[j] # s[k]
    /\ \A x \in S : \E k \in 1 .. Len(s) : s[k] = x

LEMMA KeysAreListed ==
    ASSUME NEW list \in Seq(Target)
    PROVE  ListsInOrder(Sorted(KeysOf(list), KeyBefore), KeysOf(list))
<1>. DEFINE S == KeysOf(list)
            R == {pair \in S \X S : KeyBefore(pair[1], pair[2])}
            keys == Sorted(S, KeyBefore)
<1>1. S \subseteq Nat \X Nat
  <2>1. ASSUME NEW i \in DOMAIN list PROVE KeyOf(list[i]) \in Nat \X Nat
    <3>1. list[i] \in Target
      OBVIOUS
    <3>2. /\ list[i].unit \in Nat /\ list[i].type \in Nat
          /\ KeyOf(list[i]) = <<list[i].unit, list[i].type>>
      BY <3>1, TargetFacts, Zenon
    <3>. QED  BY <3>2
  <2>. QED  BY <2>1 DEF KeysOf
<1>2. IsFiniteSet(S)
  <2>. DEFINE f == [i \in 1 .. Len(list) |-> KeyOf(list[i])]
  <2>1. Len(list) \in Nat /\ DOMAIN list = 1 .. Len(list)
    OBVIOUS
  <2>2. f \in Surjection(1 .. Len(list), S)
    BY <2>1, Zenon DEF Surjection, KeysOf
  <2>3. IsFiniteSet(1 .. Len(list))
    BY <2>1, FS_Interval
  <2>. HIDE DEF f, S
  <2>. QED  BY <2>2, <2>3, FS_Surjection
<1>3. /\ R \in SUBSET (S \X S)
      /\ \A x \in S : <<x, x>> \notin R
      /\ \A x, y, z \in S : <<x, y>> \in R /\ <<y, z>> \in R => <<x, z>> \in R
      /\ \A x, y \in S : x = y \/ <<x, y>> \in R \/ <<y, x>> \in R
  <2>. HIDE DEF S
  <2>1. \A x, y \in S : <<x, y>> \in R <=> x[1] < y[1] \/ (x[1] = y[1] /\ x[2] < y[2])
    BY DEF KeyBefore
  <2>2. \A x \in S : x = <<x[1], x[2]>> /\ x[1] \in Nat /\ x[2] \in Nat
    BY <1>1
  <2>3. R \in SUBSET (S \X S)
    OBVIOUS
  <2>. HIDE DEF R
  <2>4. \A x \in S : <<x, x>> \notin R
    BY <2>1, <2>2
  <2>5. \A x, y, z \in S : <<x, y>> \in R /\ <<y, z>> \in R => <<x, z>> \in R
    BY <2>1, <2>2
  <2>6. ASSUME NEW x \in S, NEW y \in S PROVE x = y \/ <<x, y>> \in R \/ <<y, x>> \in R
    <3>1. x[1] = y[1] /\ x[2] = y[2] => x = y
      BY <2>2
    <3>. QED  BY <2>1, <2>2, <3>1
  <2>. QED  BY <2>3, <2>4, <2>5, <2>6
<1>. HIDE DEF S
<1>4. \E s \in [1 .. Cardinality(S) -> S] :
          \A j, k \in 1 .. Cardinality(S) : j < k => <<s[j], s[k]>> \in R
  <2>. HIDE DEF R
  <2>. QED  BY <1>2, <1>3, CanBeSorted
<1>5. \E s \in [1 .. Cardinality(S) -> S] : \A j, k \in DOMAIN s : j < k => KeyBefore(s[j], s[k])
  <2>1. PICK s \in [1 .. Cardinality(S) -> S] :
            \A j, k \in 1 .. Cardinality(S) : j < k => <<s[j], s[k]>> \in R
    BY <1>4
  <2>2. \A j, k \in DOMAIN s : j < k => KeyBefore(s[j], s[k])
    BY <2>1
  <2>. QED  BY <2>2
<1>6. /\ keys \in [1 .. Cardinality(S) -> S]
      /\ \A j, k \in DOMAIN keys : j < k => KeyBefore(keys[j], keys[k])
  BY <1>5, Zenon DEF Sorted
<1>. HIDE DEF keys
<1>7. \A j, k \in 1 .. Cardinality(S) : j < k => keys[j] # keys[k]
  <2>1. \A j \in 1 .. Cardinality(S) : keys[j][1] \in Nat /\ keys[j][2] \in Nat
    BY <1>1, <1>6
  <2>. QED  BY <1>6, <2>1 DEF KeyBefore
<1>8. /\ Cardinality(S) \in Nat /\ keys \in Seq(S)
      /\ Len(keys) = Cardinality(S) /\ DOMAIN keys = 1 .. Cardinality(S)
      /\ \A x \in S : \E k \in DOMAIN keys : keys[k] = x
  <2>1. keys \in [1 .. Cardinality(S) -> S]
    BY <1>6
  <2>. QED  BY <1>2, <1>7, <2>1, ListsAllMembers
<1>. QED  BY <1>7, <1>8 DEF ListsInOrder, keys, S

LEMMA GroupIsListed ==
    ASSUME NEW list \in Seq(Target), NEW key
    PROVE  /\ ListsInOrder(SortedIndices(list, key), Group(list, key))
           /\ \A j, k \in DOMAIN SortedIndices(list, key) :
                 j < k => list[SortedIndices(list, key)[j]].start <= list[SortedIndices(list, key)[k]].start
<1>. DEFINE S == Group(list, key)
            Before(i, j) == list[i].start < list[j].start \/ (list[i].start = list[j].start /\ i < j)
            R == {pair \in S \X S : Before(pair[1], pair[2])}
            indices == Sorted(S, Before)
<1>1. /\ S \subseteq 1 .. Len(list) /\ Len(list) \in Nat
      /\ \A i \in S : i \in Nat /\ list[i].start \in Nat
  <2>1. Len(list) \in Nat /\ S \subseteq 1 .. Len(list)
    BY DEF Group
  <2>2. ASSUME NEW i \in S PROVE i \in Nat /\ list[i].start \in Nat
    <3>1. list[i] \in Target /\ i \in Nat
      BY <2>1
    <3>. QED  BY <3>1, TargetFacts
  <2>. QED  BY <2>1, <2>2
<1>2. IsFiniteSet(S)
  <2>1. IsFiniteSet(1 .. Len(list)) /\ S \in SUBSET (1 .. Len(list))
    BY <1>1, FS_Interval
  <2>. HIDE DEF S
  <2>. QED  BY <2>1, FS_Subset
<1>. HIDE DEF S
<1>3. /\ R \in SUBSET (S \X S)
      /\ \A x \in S : <<x, x>> \notin R
      /\ \A x, y, z \in S : <<x, y>> \in R /\ <<y, z>> \in R => <<x, z>> \in R
      /\ \A x, y \in S : x = y \/ <<x, y>> \in R \/ <<y, x>> \in R
  <2>1. \A x, y \in S : <<x, y>> \in R <=> Before(x, y)
    OBVIOUS
  <2>2. R \in SUBSET (S \X S)
    OBVIOUS
  <2>. HIDE DEF R
  <2>3. \A x \in S : <<x, x>> \notin R
    BY <1>1, <2>1
  <2>4. \A x, y, z \in S : <<x, y>> \in R /\ <<y, z>> \in R => <<x, z>> \in R
    BY <1>1, <2>1
  <2>5. ASSUME NEW x \in S, NEW y \in S PROVE x = y \/ <<x, y>> \in R \/ <<y, x>> \in R
    <3>1. x = y \/ Before(x, y) \/ Before(y, x)
      BY <1>1
    <3>. QED  BY <2>1, <3>1
  <2>. QED  BY <2>2, <2>3, <2>4, <2>5
<1>4. \E s \in [1 .. Cardinality(S) -> S] :
          \A j, k \in 1 .. Cardinality(S) : j < k => <<s[j], s[k]>> \in R
  <2>. HIDE DEF R
  <2>. QED  BY <1>2, <1>3, CanBeSorted
<1>5. \E s \in [1 .. Cardinality(S) -> S] : \A j, k \in DOMAIN s : j < k => Before(s[j], s[k])
  <2>1. PICK s \in [1 .. Cardinality(S) -> S] :
            \A j, k \in 1 .. Cardinality(S) : j < k => <<s[j], s[k]>> \in R
    BY <1>4
  <2>2. \A j, k \in DOMAIN s : j < k => Before(s[j], s[k])
    BY <2>1
  <2>. QED  BY <2>2
<1>6. /\ indices \in [1 .. Cardinality(S) -> S]
      /\ \A j, k \in DOMAIN indices : j < k => Before(indices[j], indices[k])
  <2>. HIDE DEF Before
  <2>. QED  BY <1>5, Zenon DEF Sorted
<1>7. SortedIndices(list, key) = indices
  BY Zenon DEF SortedIndices, S, Group
<1>. HIDE DEF indices
<1>8. indices \in [1 .. Cardinality(S) -> S]
  BY <1>6
<1>9. \A j, k \in 1 .. Cardinality(S) :
          j < k => indices[j] # indices[k] /\ list[indices[j]].start <= list[indices[k]].start
  <2>1. ASSUME NEW j \in 1 .. Cardinality(S), NEW k \in 1 .. Cardinality(S), j < k
        PROVE  indices[j] # indices[k] /\ list[indices[j]].start <= list[indices[k]].start
    <3>. DEFINE x == indices[j]
                y == indices[k]
    <3>1. x \in S /\ y \in S /\ Before(x, y)
      BY <1>6, <1>8, <2>1
    <3>. HIDE DEF x, y
    <3>2. x # y /\ list[x].start <= list[y].start
      BY <1>1, <3>1
    <3>. QED  BY <3>2 DEF x, y
  <2>. QED  BY <2>1
<1>10. /\ Cardinality(S) \in Nat /\ indices \in Seq(S)
       /\ Len(indices) = Cardinality(S) /\ DOMAIN indices = 1 .. Cardinality(S)
       /\ \A x \in S : \E k \in DOMAIN indices : indices[k] = x
  <2>1. \A j, k \in 1 .. Cardinality(S) : j < k => indices[j] # indices[k]
    BY <1>9
  <2>. QED  BY <1>2, <1>8, <2>1, ListsAllMembers
<1>. QED  BY <1>7, <1>9, <1>10 DEF ListsInOrder, S

-----------------------------------------------------------------------------
(* The runs of a group.                                                    *)

Run == [from : Nat, to : Nat, members : Seq(Nat)]

\* Target i of the list is the m-th member of run r.
IsMember(runs, r, m, i) ==
    r \in 1 .. Len(runs) /\ m \in 1 .. Len(runs[r].members) /\ runs[r].members[m] = i

\* A run reaches from the start of its first member to the end of the one that ends last.
RunsFit(list, runs) ==
    \A r \in 1 .. Len(runs) :
        /\ runs[r].from < runs[r].to
        /\ \A m, i \in Nat : IsMember(runs, r, m, i) =>
              i \in DOMAIN list /\ runs[r].from <= list[i].start /\ EndOf(list[i]) <= runs[r].to

\* Each of the first n indices is a member of one run, once, and no other index is.
MembersOnce(runs, indices, n) ==
    /\ \A r, m, i \in Nat : IsMember(runs, r, m, i) => \E j \in 1 .. n : indices[j] = i
    /\ \A j \in 1 .. n : \E r, m \in Nat : IsMember(runs, r, m, indices[j])
    /\ \A r, m, q, l, i \in Nat : IsMember(runs, r, m, i) /\ IsMember(runs, q, l, i) => r = q /\ m = l

\* No later target starts before a run.
StartsAhead(list, runs, indices, n) ==
    \A r \in 1 .. Len(runs) : \A j \in n + 1 .. Len(indices) : runs[r].from <= list[indices[j]].start

\* What one more target, from start to end, does to the runs: it becomes one more member,
\* of the last run or of a new one.
Adds(after, runs, i, start, end) ==
    /\ after \in Seq(Run) /\ Len(after) \in Nat \ {0} /\ Len(after) >= Len(runs)
    /\ \A r \in 1 .. Len(runs) : after[r].from = runs[r].from /\ after[r].to >= runs[r].to
    /\ \A r \in 1 .. Len(after) :
          /\ r \notin 1 .. Len(runs) => after[r].from = start
          /\ after[r].from < after[r].to
    /\ after[Len(after)].from <= start /\ after[Len(after)].to >= end
    /\ \E m \in Nat :
          /\ \A q, l, x \in Nat : IsMember(after, q, l, x) <=>
                IsMember(runs, q, l, x) \/ (q = Len(after) /\ l = m /\ x = i)
          /\ \A x \in Nat : ~ IsMember(runs, Len(after), m, x)

LEMMA MergedAdds ==
    ASSUME NEW list \in Seq(Target), NEW runs \in Seq(Run), NEW i \in DOMAIN list,
           \A r \in 1 .. Len(runs) : runs[r].from < runs[r].to /\ runs[r].from <= list[i].start
    PROVE  Adds(Merged(list, runs, i), runs, i, list[i].start, EndOf(list[i]))
<1>. DEFINE start == list[i].start
            end == EndOf(list[i])
            after == Merged(list, runs, i)
            length == Len(runs)
<1>1. start \in Nat /\ end \in Nat /\ start < end /\ i \in Nat
  <2>1. list[i] \in Target /\ i \in Nat
    OBVIOUS
  <2>2. start \in Nat /\ end \in Nat /\ end = start + list[i].quantity /\ list[i].quantity \in Nat \ {0}
    BY <2>1, TargetFacts
  <2>. HIDE DEF start, end
  <2>. QED  BY <2>1, <2>2
<1>2. length \in Nat /\ \A r \in 1 .. length : runs[r] \in Run
  OBVIOUS
<1>3. \A r \in 1 .. length : runs[r].from < runs[r].to /\ runs[r].from <= start
  OBVIOUS
<1>4. CASE StartsNewRun(runs, list[i])
  <2>. DEFINE new == [from |-> start, to |-> end, members |-> <<i>>]
  <2>1. after = Append(runs, new)
    BY <1>4 DEF Merged
  <2>2. new \in Run /\ new.from = start /\ new.to = end /\ Len(new.members) = 1 /\ new.members[1] = i
    <3>1. <<i>> \in Seq(Nat)
      BY <1>1
    <3>. HIDE DEF start, end
    <3>. QED  BY <1>1, <3>1 DEF Run
  <2>. HIDE DEF start, end, new, after
  <2>3. /\ after \in Seq(Run) /\ Len(after) = length + 1 /\ after[length + 1] = new
        /\ \A r \in 1 .. length : after[r] = runs[r]
    BY <1>2, <2>1, <2>2
  <2>. HIDE DEF length
  <2>4. \A r \in 1 .. length + 1 : r = length + 1 \/ r \in 1 .. length
    BY <1>2
  <2>5. ASSUME NEW q \in Nat, NEW l \in Nat, NEW x \in Nat
        PROVE  IsMember(after, q, l, x) <=> IsMember(runs, q, l, x) \/ (q = length + 1 /\ l = 1 /\ x = i)
    <3>1. CASE q = length + 1
      <4>1. after[q] = new /\ q \in 1 .. Len(after)
        BY <1>2, <2>3, <3>1
      <4>2. IsMember(after, q, l, x) <=> l \in 1 .. 1 /\ new.members[l] = x
        BY <2>2, <4>1 DEF IsMember
      <4>3. ~ IsMember(runs, q, l, x)
        BY <1>2, <3>1 DEF IsMember, length
      <4>. QED  BY <2>2, <3>1, <4>2, <4>3
    <3>2. CASE q \in 1 .. length
      <4>1. after[q] = runs[q] /\ q \in 1 .. Len(after) /\ q # length + 1
        BY <1>2, <2>3, <3>2
      <4>. QED  BY <3>2, <4>1 DEF IsMember, length
    <3>3. CASE q \notin 1 .. length + 1
      <4>1. q \notin 1 .. Len(after) /\ q \notin 1 .. length /\ q # length + 1
        BY <1>2, <2>3, <3>3
      <4>. QED  BY <4>1 DEF IsMember, length
    <3>. QED  BY <2>4, <3>1, <3>2, <3>3
  <2>6. \A x \in Nat : ~ IsMember(runs, length + 1, 1, x)
    BY <1>2 DEF IsMember, length
  <2>7. \A r \in 1 .. length : after[r].from = runs[r].from /\ after[r].to >= runs[r].to
    <3>1. \A r \in 1 .. length : runs[r].to \in Nat
      BY <1>2 DEF Run
    <3>. QED  BY <2>3, <3>1
  <2>8. ASSUME NEW r \in 1 .. Len(after)
        PROVE  (r \notin 1 .. length => after[r].from = start) /\ after[r].from < after[r].to
    BY <1>1, <1>3, <2>2, <2>3, <2>4
  <2>9. Len(after) \in Nat \ {0} /\ Len(after) >= length /\ Len(after) = length + 1 /\ 1 \in Nat
    BY <1>2, <2>3
  <2>10. after[Len(after)].from <= start /\ after[Len(after)].to >= end
    BY <1>1, <2>2, <2>3
  <2>11. \E m \in Nat :
            /\ \A q, l, x \in Nat : IsMember(after, q, l, x) <=>
                  IsMember(runs, q, l, x) \/ (q = Len(after) /\ l = m /\ x = i)
            /\ \A x \in Nat : ~ IsMember(runs, Len(after), m, x)
    BY <2>5, <2>6, <2>9
  <2>. QED  BY <2>3, <2>7, <2>8, <2>9, <2>10, <2>11, Zenon DEF Adds, start, end, after, length
<1>5. CASE ~ StartsNewRun(runs, list[i])
  <2>. DEFINE old == runs[length]
              new == [from |-> old.from, to |-> GrownEnd(old, list[i]),
                      members |-> Append(old.members, i)]
  <2>1. after = [runs EXCEPT ![length] = new]
    BY <1>5 DEF Merged
  <2>2. length \in 1 .. length /\ old \in Run
    <3>1. runs # <<>>
      BY <1>5 DEF StartsNewRun
    <3>2. length # 0
      BY <3>1
    <3>. QED  BY <1>2, <3>2
  <2>3. /\ old.from \in Nat /\ old.to \in Nat /\ old.members \in Seq(Nat)
        /\ old.from < old.to /\ old.from <= start
    BY <1>3, <2>2 DEF Run
  <2>4. GrownEnd(old, list[i]) = (IF old.to >= end THEN old.to ELSE end)
    <3>1. GrownEnd(old, list[i]) = Max({old.to, end})
      BY Zenon DEF GrownEnd
    <3>. HIDE DEF old, end
    <3>2. Max({old.to, end}) = (IF old.to >= end THEN old.to ELSE end)
      <4>1. old.to \in Int /\ end \in Int
        BY <1>1, <2>3
      <4>. QED  BY <4>1, MaxOfTwo, Zenon
    <3>. QED  BY <3>1, <3>2
  <2>. DEFINE m == Len(old.members) + 1
  <2>5. /\ new \in Run /\ new.from = old.from /\ new.to >= old.to /\ new.to >= end
        /\ new.from < new.to /\ new.from <= start
        /\ m \in Nat /\ Len(new.members) = m /\ new.members[m] = i
        /\ \A l \in 1 .. Len(old.members) : new.members[l] = old.members[l]
    <3>. HIDE DEF old, start, end
    <3>1. /\ Append(old.members, i) \in Seq(Nat) /\ m \in Nat
          /\ Len(Append(old.members, i)) = m /\ Append(old.members, i)[m] = i
          /\ \A l \in 1 .. Len(old.members) : Append(old.members, i)[l] = old.members[l]
      BY <1>1, <2>3
    <3>2. GrownEnd(old, list[i]) \in Nat /\ GrownEnd(old, list[i]) >= old.to /\ GrownEnd(old, list[i]) >= end
      BY <1>1, <2>3, <2>4
    <3>. QED  BY <2>3, <3>1, <3>2 DEF Run
  <2>. HIDE DEF start, end, new, after, length, m
  <2>6. /\ after \in Seq(Run) /\ Len(after) = length /\ after[length] = new
        /\ \A r \in 1 .. length : r # length => after[r] = runs[r]
    BY <1>2, <2>1, <2>2, <2>5 DEF length
  <2>7. ASSUME NEW q \in Nat, NEW l \in Nat, NEW x \in Nat
        PROVE  IsMember(after, q, l, x) <=> IsMember(runs, q, l, x) \/ (q = length /\ l = m /\ x = i)
    <3>1. CASE q = length
      <4>1. IsMember(after, q, l, x) <=> l \in 1 .. m /\ new.members[l] = x
        BY <2>2, <2>5, <2>6, <3>1 DEF IsMember
      <4>2. IsMember(runs, q, l, x) <=> l \in 1 .. Len(old.members) /\ old.members[l] = x
        BY <2>2, <3>1 DEF IsMember, length
      <4>3. l \in 1 .. m <=> l \in 1 .. Len(old.members) \/ l = m
        <5>1. Len(old.members) \in Nat
          BY <2>3
        <5>. HIDE DEF old
        <5>. QED  BY <5>1 DEF m
      <4>. QED  BY <2>5, <3>1, <4>1, <4>2, <4>3
    <3>2. CASE q \in 1 .. length /\ q # length
      BY <2>6, <3>2 DEF IsMember, length
    <3>3. CASE q \notin 1 .. length
      BY <2>2, <2>6, <3>3 DEF IsMember, length
    <3>. QED  BY <3>1, <3>2, <3>3
  <2>8. \A x \in Nat : ~ IsMember(runs, length, m, x)
    BY <2>3 DEF IsMember, m, length
  <2>9. \A r \in 1 .. length : after[r].from = runs[r].from /\ after[r].to >= runs[r].to
    <3>1. \A r \in 1 .. length : runs[r].to \in Nat
      BY <1>2 DEF Run
    <3>. QED  BY <2>5, <2>6, <3>1
  <2>10. ASSUME NEW r \in 1 .. Len(after)
        PROVE  (r \notin 1 .. length => after[r].from = start) /\ after[r].from < after[r].to
    BY <1>3, <2>5, <2>6
  <2>11. Len(after) \in Nat \ {0} /\ Len(after) >= length /\ m \in Nat
    BY <1>2, <2>2, <2>5, <2>6
  <2>12. after[Len(after)].from <= start /\ after[Len(after)].to >= end
    BY <2>5, <2>6
  <2>. QED  BY <2>6, <2>7, <2>8, <2>9, <2>10, <2>11, <2>12, Zenon DEF Adds, start, end, after, length
<1>. QED  BY <1>4, <1>5

LEMMA MergedIsRuns ==
    ASSUME NEW list \in Seq(Target), NEW runs \in Seq(Run), NEW i \in DOMAIN list
    PROVE  Merged(list, runs, i) \in Seq(Run)
<1>. DEFINE start == list[i].start
            end == EndOf(list[i])
<1>1. start \in Nat /\ end \in Nat /\ end \in Int /\ i \in Nat
  <2>1. list[i] \in Target /\ i \in Nat
    OBVIOUS
  <2>2. start \in Nat /\ end \in Nat
    BY <2>1, TargetFacts
  <2>. HIDE DEF start, end
  <2>. QED  BY <2>1, <2>2
<1>. HIDE DEF start, end
<1>2. CASE StartsNewRun(runs, list[i])
  <2>1. <<i>> \in Seq(Nat)
    BY <1>1
  <2>2. [from |-> start, to |-> end, members |-> <<i>>] \in Run
    BY <1>1, <2>1 DEF Run
  <2>3. Merged(list, runs, i) = Append(runs, [from |-> start, to |-> end, members |-> <<i>>])
    BY <1>2 DEF Merged, start, end
  <2>. QED  BY <2>2, <2>3
<1>3. CASE ~ StartsNewRun(runs, list[i])
  <2>. DEFINE old == runs[Len(runs)]
              new == [from |-> old.from, to |-> GrownEnd(old, list[i]),
                      members |-> Append(old.members, i)]
  <2>1. Merged(list, runs, i) = [runs EXCEPT ![Len(runs)] = new]
    BY <1>3 DEF Merged
  <2>2. Len(runs) \in 1 .. Len(runs) /\ old \in Run
    <3>1. runs # <<>>
      BY <1>3 DEF StartsNewRun
    <3>2. Len(runs) # 0 /\ Len(runs) \in Nat
      BY <3>1
    <3>. QED  BY <3>2
  <2>3. old.from \in Nat /\ old.to \in Nat /\ old.to \in Int /\ old.members \in Seq(Nat)
    BY <2>2 DEF Run
  <2>4. GrownEnd(old, list[i]) \in Nat
    <3>1. GrownEnd(old, list[i]) = Max({old.to, end})
      BY Zenon DEF GrownEnd, end
    <3>2. Max({old.to, end}) = (IF old.to >= end THEN old.to ELSE end)
      BY <1>1, <2>3, MaxOfTwo, Zenon
    <3>. HIDE DEF old
    <3>. QED  BY <1>1, <2>3, <3>1, <3>2
  <2>5. Append(old.members, i) \in Seq(Nat)
    <3>. HIDE DEF old
    <3>. QED  BY <1>1, <2>3
  <2>6. new \in Run
    <3>. HIDE DEF old
    <3>. QED  BY <2>3, <2>4, <2>5 DEF Run
  <2>. HIDE DEF new
  <2>. QED  BY <2>1, <2>2, <2>6
<1>. QED  BY <1>2, <1>3

\* Target i of the list is a member of the run.
Has(run, i) == \E m \in 1 .. Len(run.members) : run.members[m] = i

\* A run starts where a member starts and ends where one ends, and no more than MaxGap of
\* its registers in a row belong to no member.
IsStretch(list, run) ==
    /\ \E i \in Nat : Has(run, i) /\ list[i].start = run.from
    /\ \E i \in Nat : Has(run, i) /\ EndOf(list[i]) = run.to
    /\ \A a \in run.from .. run.to - 1 :
          \E i \in Nat : Has(run, i) /\ a < EndOf(list[i]) /\ list[i].start <= a + MaxGap

\* The gaps between runs are wider than what is bridged.
Apart(runs) == \A r, q \in 1 .. Len(runs) : r < q => runs[q].from - runs[r].to > MaxGap

AreStretches(list, runs) ==
    /\ \A r \in 1 .. Len(runs) : IsStretch(list, runs[r])
    /\ Apart(runs)

LEMMA MergedKeepsStretches ==
    ASSUME NEW list \in Seq(Target), NEW runs \in Seq(Run), NEW i \in DOMAIN list,
           \A r \in 1 .. Len(runs) : runs[r].from < runs[r].to /\ runs[r].from <= list[i].start,
           AreStretches(list, runs)
    PROVE  AreStretches(list, Merged(list, runs, i))
<1>. DEFINE start == list[i].start
            end == EndOf(list[i])
            after == Merged(list, runs, i)
            n == Len(runs)
<1>1. start \in Nat /\ end \in Nat /\ start < end /\ i \in Nat /\ MaxGap \in Nat
  <2>1. list[i] \in Target /\ i \in Nat /\ MaxGap \in Nat
    BY CoalescerAssumption
  <2>2. start \in Nat /\ end \in Nat /\ list[i].quantity \in Nat \ {0} /\ end = start + list[i].quantity
    BY <2>1, TargetFacts
  <2>. HIDE DEF start, end
  <2>. QED  BY <2>1, <2>2
<1>2. n \in Nat /\ \A r \in 1 .. n : /\ runs[r] \in Run /\ runs[r].from \in Nat /\ runs[r].to \in Nat
                                     /\ runs[r].from < runs[r].to /\ IsStretch(list, runs[r])
  <2>1. n \in Nat /\ \A r \in 1 .. n : runs[r] \in Run /\ runs[r].from < runs[r].to
    OBVIOUS
  <2>2. \A r \in 1 .. n : IsStretch(list, runs[r])
    BY DEF AreStretches
  <2>. QED  BY <2>1, <2>2 DEF Run
<1>3. CASE StartsNewRun(runs, list[i])
  <2>. DEFINE new == [from |-> start, to |-> end, members |-> <<i>>]
  <2>1. after = Append(runs, new)
    BY <1>3 DEF Merged
  <2>2. /\ new.from = start /\ new.to = end
        /\ \A x \in Nat : Has(new, x) <=> x = i
    <3>1. Len(new.members) = 1 /\ new.members[1] = i
      OBVIOUS
    <3>2. 1 .. 1 = {1}
      OBVIOUS
    <3>. HIDE DEF start, end
    <3>. QED  BY <3>1, <3>2 DEF Has
  <2>3. n > 0 => start - runs[n].to > MaxGap
    <3>1. n > 0 => runs # <<>> /\ Last(runs) = runs[n]
      BY <1>2 DEF Last
    <3>. QED  BY <1>3, <3>1 DEF StartsNewRun
  <2>. HIDE DEF new, after
  <2>4. /\ Len(after) = n + 1 /\ after[n + 1] = new
        /\ \A r \in 1 .. n : after[r] = runs[r]
    BY <1>2, <2>1
  <2>. HIDE DEF n
  <2>5. IsStretch(list, new)
    <3>1. Has(new, i) /\ list[i].start = new.from /\ EndOf(list[i]) = new.to
      BY <1>1, <2>2
    <3>2. ASSUME NEW a \in new.from .. new.to - 1 PROVE a < EndOf(list[i]) /\ list[i].start <= a + MaxGap
      <4>1. a \in start .. end - 1
        BY <2>2
      <4>2. a < end /\ start <= a + MaxGap
        <5>. HIDE DEF start, end
        <5>. QED  BY <1>1, <4>1
      <4>. QED  BY <4>2
    <3>. HIDE DEF start, end
    <3>. QED  BY <1>1, <3>1, <3>2 DEF IsStretch
  <2>6. \A r \in 1 .. Len(after) : IsStretch(list, after[r])
    BY <1>2, <2>4, <2>5
  <2>7. ASSUME NEW r \in 1 .. Len(after), NEW q \in 1 .. Len(after), r < q
        PROVE  after[q].from - after[r].to > MaxGap
    <3>1. r \in 1 .. n /\ after[r] = runs[r]
      BY <1>2, <2>4, <2>7
    <3>2. CASE q \in 1 .. n
      BY <2>4, <2>7, <3>1, <3>2 DEF AreStretches, Apart, n
    <3>3. CASE q = n + 1
      <4>1. after[q].from = start
        BY <2>2, <2>4, <3>3
      <4>2. n \in 1 .. n /\ start - runs[n].to > MaxGap
        BY <1>2, <2>3, <3>1
      <4>3. CASE r = n
        BY <3>1, <4>1, <4>2, <4>3
      <4>4. CASE r < n
        <5>1. runs[n].from - runs[r].to > MaxGap
          BY <3>1, <4>2, <4>4 DEF AreStretches, Apart, n
        <5>2. runs[n].from < runs[n].to /\ runs[n].from \in Nat /\ runs[n].to \in Nat /\ runs[r].to \in Nat
          BY <1>2, <3>1, <4>2
        <5>3. start - runs[r].to > MaxGap
          <6>. DEFINE x == runs[n].from
                      y == runs[n].to
                      z == runs[r].to
          <6>1. /\ x \in Nat /\ y \in Nat /\ z \in Nat /\ x < y
                /\ x - z > MaxGap /\ start - y > MaxGap
            BY <4>2, <5>1, <5>2
          <6>. HIDE DEF start, end, x, y, z
          <6>2. start - z > MaxGap
            BY <1>1, <6>1
          <6>. QED  BY <6>2 DEF z
        <5>. QED  BY <3>1, <4>1, <5>3
      <4>. QED  BY <1>2, <3>1, <4>3, <4>4
    <3>. QED  BY <1>2, <2>4, <3>2, <3>3
  <2>. QED  BY <2>6, <2>7 DEF AreStretches, Apart, after
<1>4. CASE ~ StartsNewRun(runs, list[i])
  <2>. DEFINE old == runs[n]
              new == [from |-> old.from, to |-> GrownEnd(old, list[i]),
                      members |-> Append(old.members, i)]
  <2>1. after = [runs EXCEPT ![n] = new]
    BY <1>4 DEF Merged
  <2>2. n \in 1 .. n /\ start - old.to <= MaxGap
    <3>1. runs # <<>> /\ ~ (start - Last(runs).to > MaxGap)
      BY <1>4 DEF StartsNewRun
    <3>2. n # 0 /\ Last(runs) = old
      BY <1>2, <3>1 DEF Last
    <3>3. n \in 1 .. n
      BY <1>2, <3>2
    <3>4. ~ (start - old.to > MaxGap) /\ old.to \in Nat
      BY <1>2, <3>1, <3>2, <3>3
    <3>. HIDE DEF start, old
    <3>. QED  BY <1>1, <3>3, <3>4
  <2>3. old.from \in Nat /\ old.to \in Nat /\ old.members \in Seq(Nat) /\ Len(old.members) \in Nat
        /\ old.from < old.to /\ old.from <= start /\ IsStretch(list, old)
    <3>1. old \in Run /\ IsStretch(list, old) /\ old.from < old.to /\ old.from <= start
      BY <1>2, <2>2
    <3>. HIDE DEF old
    <3>. QED  BY <3>1 DEF Run
  <2>. HIDE DEF old
  <2>4. /\ new.from = old.from /\ new.to = (IF old.to >= end THEN old.to ELSE end)
        /\ \A x \in Nat : Has(new, x) <=> Has(old, x) \/ x = i
    <3>1. GrownEnd(old, list[i]) = Max({old.to, end})
      BY Zenon DEF GrownEnd
    <3>2. Max({old.to, end}) = (IF old.to >= end THEN old.to ELSE end)
      <4>. HIDE DEF end
      <4>1. old.to \in Int /\ end \in Int
        BY <1>1, <2>3
      <4>. QED  BY <4>1, MaxOfTwo, Zenon
    <3>3. /\ Len(new.members) = Len(old.members) + 1 /\ new.members[Len(old.members) + 1] = i
          /\ \A m \in 1 .. Len(old.members) : new.members[m] = old.members[m]
      BY <1>1, <2>3
    <3>4. \A x \in Nat : Has(new, x) <=> Has(old, x) \/ x = i
      <4>. DEFINE t == old.members
                  s == new.members
      <4>1. /\ Len(t) \in Nat /\ Len(s) = Len(t) + 1 /\ s[Len(t) + 1] = i
            /\ \A m \in 1 .. Len(t) : s[m] = t[m]
        BY <2>3, <3>3
      <4>. HIDE DEF s, t
      <4>2. /\ Len(t) + 1 \in 1 .. Len(s)
            /\ \A m \in 1 .. Len(s) : m \in 1 .. Len(t) \/ m = Len(t) + 1
            /\ \A m \in 1 .. Len(t) : m \in 1 .. Len(s)
        BY <4>1
      <4>3. ASSUME NEW x
            PROVE  (\E m \in 1 .. Len(s) : s[m] = x) <=> (\E m \in 1 .. Len(t) : t[m] = x) \/ x = i
        BY <4>1, <4>2, Zenon
      <4>. QED  BY <4>3, Zenon DEF Has, s, t
    <3>. QED  BY <3>1, <3>2, <3>4
  <2>. HIDE DEF new, after
  <2>5. /\ Len(after) = n /\ after[n] = new
        /\ \A r \in 1 .. n : r # n => after[r] = runs[r]
    BY <2>1, <2>2
  <2>. HIDE DEF n
  <2>6. IsStretch(list, new)
    <3>1. PICK first \in Nat : Has(old, first) /\ list[first].start = old.from
      BY <2>3 DEF IsStretch
    <3>2. PICK last \in Nat : Has(old, last) /\ EndOf(list[last]) = old.to
      BY <2>3 DEF IsStretch
    <3>3. Has(new, first) /\ list[first].start = new.from
      BY <2>4, <3>1
    <3>4. \E x \in Nat : Has(new, x) /\ EndOf(list[x]) = new.to
      <4>1. CASE old.to >= end
        BY <2>4, <3>2, <4>1
      <4>2. CASE ~ old.to >= end
        BY <1>1, <2>4, <4>2
      <4>. QED  BY <4>1, <4>2
    <3>5. ASSUME NEW a \in new.from .. new.to - 1
          PROVE  \E x \in Nat : Has(new, x) /\ a < EndOf(list[x]) /\ list[x].start <= a + MaxGap
      <4>1. a \in Nat /\ old.from <= a
        BY <2>3, <2>4
      <4>2. CASE a < old.to
        <5>1. a \in old.from .. old.to - 1
          BY <2>3, <4>1, <4>2
        <5>2. PICK x \in Nat : Has(old, x) /\ a < EndOf(list[x]) /\ list[x].start <= a + MaxGap
          BY <2>3, <5>1 DEF IsStretch
        <5>. QED  BY <2>4, <5>2
      <4>3. CASE ~ a < old.to
        <5>1. a < end /\ start <= a + MaxGap
          <6>1. new.to = end /\ a < new.to
            <7>. HIDE DEF end
            <7>. QED  BY <1>1, <2>3, <2>4, <4>1, <4>3
          <6>2. start - old.to <= MaxGap /\ old.to <= a
            BY <2>2, <2>3, <4>1, <4>3
          <6>. HIDE DEF start, end
          <6>. QED  BY <1>1, <2>3, <4>1, <6>1, <6>2
        <5>2. Has(new, i)
          BY <1>1, <2>4
        <5>. QED  BY <1>1, <5>1, <5>2
      <4>. QED  BY <4>2, <4>3
    <3>. QED  BY <3>3, <3>4, <3>5 DEF IsStretch
  <2>7. \A r \in 1 .. Len(after) : IsStretch(list, after[r])
    BY <1>2, <2>5, <2>6
  <2>8. ASSUME NEW r \in 1 .. Len(after), NEW q \in 1 .. Len(after), r < q
        PROVE  after[q].from - after[r].to > MaxGap
    <3>1. r \in 1 .. n /\ q \in 1 .. n /\ r # n
      BY <1>2, <2>5, <2>8
    <3>2. runs[q].from - runs[r].to > MaxGap
      BY <2>8, <3>1 DEF AreStretches, Apart, n
    <3>3. after[r] = runs[r] /\ after[q].from = runs[q].from
      BY <2>4, <2>5, <3>1 DEF old
    <3>. QED  BY <3>2, <3>3
  <2>. QED  BY <2>7, <2>8 DEF AreStretches, Apart, after
<1>. QED  BY <1>3, <1>4

GoodRuns(list, runs, indices, n) ==
    /\ runs \in Seq(Run)
    /\ RunsFit(list, runs)
    /\ MembersOnce(runs, indices, n)
    /\ StartsAhead(list, runs, indices, n)
    /\ AreStretches(list, runs)

LEMMA MergedIsGood ==
    ASSUME NEW list \in Seq(Target), NEW key, NEW indices,
           ListsInOrder(indices, Group(list, key)),
           \A j, k \in DOMAIN indices : j < k => list[indices[j]].start <= list[indices[k]].start,
           NEW n \in Nat, n + 1 <= Len(indices),
           NEW runs, GoodRuns(list, runs, indices, n)
    PROVE  GoodRuns(list, Merged(list, runs, indices[n + 1]), indices, n + 1)
<1>. DEFINE i == indices[n + 1]
            after == Merged(list, runs, i)
            start == list[i].start
            end == EndOf(list[i])
<1>1. /\ Len(indices) \in Nat /\ DOMAIN indices = 1 .. Len(indices) /\ n + 1 \in 1 .. Len(indices)
      /\ \A j \in 1 .. Len(indices) : indices[j] \in DOMAIN list
      /\ \A j, k \in 1 .. Len(indices) : j < k => indices[j] # indices[k]
      /\ \A j, k \in 1 .. Len(indices) : j < k => list[indices[j]].start <= list[indices[k]].start
  <2>1. \A j \in 1 .. Len(indices) : indices[j] \in DOMAIN list
    BY DEF ListsInOrder, Group
  <2>2. Len(indices) \in Nat /\ DOMAIN indices = 1 .. Len(indices)
    BY DEF ListsInOrder
  <2>3. n + 1 \in 1 .. Len(indices)
    BY <2>2
  <2>4. \A j, k \in 1 .. Len(indices) : j < k => indices[j] # indices[k]
    BY Zenon DEF ListsInOrder
  <2>. QED  BY <2>1, <2>2, <2>3, <2>4, Zenon
<1>2. i \in DOMAIN list /\ i \in Nat
  <2>1. i \in DOMAIN list
    BY <1>1
  <2>. HIDE DEF i
  <2>. QED  BY <2>1
<1>3. /\ runs \in Seq(Run)
      /\ \A r \in 1 .. Len(runs) : runs[r].from < runs[r].to /\ runs[r].from <= start
  <2>1. n + 1 \in n + 1 .. Len(indices)
    BY <1>1
  <2>. QED  BY <2>1 DEF GoodRuns, RunsFit, StartsAhead
<1>4. Adds(after, runs, i, start, end)
  <2>. HIDE DEF i
  <2>. QED  BY <1>2, <1>3, MergedAdds
<1>5. start \in Nat /\ end \in Nat
  <2>1. list[i] \in Target
    BY <1>2
  <2>. QED  BY <2>1, TargetFacts
<1>. HIDE DEF after, start, end, i
<1>6. PICK m \in Nat :
          /\ \A q, l, x \in Nat : IsMember(after, q, l, x) <=>
                IsMember(runs, q, l, x) \/ (q = Len(after) /\ l = m /\ x = i)
          /\ \A x \in Nat : ~ IsMember(runs, Len(after), m, x)
  BY <1>4 DEF Adds
<1>7. /\ after \in Seq(Run) /\ Len(after) \in Nat \ {0} /\ Len(after) >= Len(runs) /\ Len(runs) \in Nat
      /\ \A r \in 1 .. Len(runs) : after[r].from = runs[r].from /\ after[r].to >= runs[r].to
      /\ \A r \in 1 .. Len(after) :
            /\ r \notin 1 .. Len(runs) => after[r].from = start
            /\ after[r].from < after[r].to
      /\ after[Len(after)].from <= start /\ after[Len(after)].to >= end
  BY <1>3, <1>4 DEF Adds
<1>8. RunsFit(list, after)
  <2>1. ASSUME NEW r \in 1 .. Len(after), NEW l \in Nat, NEW x \in Nat, IsMember(after, r, l, x)
        PROVE  x \in DOMAIN list /\ after[r].from <= list[x].start /\ EndOf(list[x]) <= after[r].to
    <3>0. r \in Nat
      OBVIOUS
    <3>1. CASE IsMember(runs, r, l, x)
      <4>1. r \in 1 .. Len(runs)
        BY <3>1 DEF IsMember
      <4>2. /\ x \in DOMAIN list /\ runs[r].from <= list[x].start /\ EndOf(list[x]) <= runs[r].to
        BY <3>1, <4>1 DEF GoodRuns, RunsFit
      <4>3. after[r].from = runs[r].from /\ after[r].to >= runs[r].to
        BY <1>7, <4>1
      <4>4. EndOf(list[x]) \in Nat /\ after[r].to \in Nat /\ runs[r].to \in Nat
        <5>1. list[x] \in Target /\ runs[r] \in Run /\ after[r] \in Run
          BY <1>3, <1>7, <4>1, <4>2
        <5>2. EndOf(list[x]) \in Nat
          BY <5>1, TargetFacts
        <5>. QED  BY <5>1, <5>2 DEF Run
      <4>. QED  BY <4>2, <4>3, <4>4
    <3>2. CASE r = Len(after) /\ l = m /\ x = i
      BY <1>2, <1>7, <3>2 DEF start, end
    <3>. QED  BY <1>6, <2>1, <3>0, <3>1, <3>2
  <2>. QED  BY <1>7, <2>1 DEF RunsFit
<1>9. MembersOnce(after, indices, n + 1)
  <2>1. /\ \A r, l, x \in Nat : IsMember(runs, r, l, x) => \E j \in 1 .. n : indices[j] = x
        /\ \A j \in 1 .. n : \E r, l \in Nat : IsMember(runs, r, l, indices[j])
        /\ \A r, l, q, k, x \in Nat : IsMember(runs, r, l, x) /\ IsMember(runs, q, k, x) => r = q /\ l = k
    BY DEF GoodRuns, MembersOnce
  <2>2. \A j \in 1 .. n + 1 : j = n + 1 \/ j \in 1 .. n
    OBVIOUS
  <2>3. \A j \in 1 .. n : j \in 1 .. n + 1 /\ indices[j] \in Nat /\ indices[j] # i
    <3>1. ASSUME NEW j \in 1 .. n PROVE j \in 1 .. n + 1 /\ indices[j] \in Nat /\ indices[j] # i
      <4>1. j \in 1 .. Len(indices) /\ j < n + 1
        BY <1>1
      <4>2. indices[j] \in DOMAIN list
        BY <1>1, <4>1
      <4>. QED  BY <1>1, <4>1, <4>2 DEF i
    <3>. QED  BY <3>1
  <2>4. ASSUME NEW r \in Nat, NEW l \in Nat, NEW x \in Nat, IsMember(after, r, l, x)
        PROVE  \E j \in 1 .. n + 1 : indices[j] = x
    <3>1. n + 1 \in 1 .. n + 1 /\ indices[n + 1] = i
      BY DEF i
    <3>. QED  BY <1>6, <2>1, <2>3, <2>4, <3>1
  <2>5. ASSUME NEW j \in 1 .. n + 1
        PROVE  \E r, l \in Nat : IsMember(after, r, l, indices[j])
    <3>1. CASE j \in 1 .. n
      <4>1. PICK r \in Nat, l \in Nat : IsMember(runs, r, l, indices[j])
        BY <2>1, <3>1
      <4>. QED  BY <1>6, <2>3, <3>1, <4>1
    <3>2. CASE j = n + 1
      <4>1. indices[j] = i /\ Len(after) \in Nat
        BY <1>7, <3>2 DEF i
      <4>2. IsMember(after, Len(after), m, i)
        BY <1>2, <1>6, <4>1
      <4>. QED  BY <4>1, <4>2
    <3>. QED  BY <2>2, <3>1, <3>2
  <2>6. ASSUME NEW r \in Nat, NEW l \in Nat, NEW q \in Nat, NEW k \in Nat, NEW x \in Nat,
               IsMember(after, r, l, x), IsMember(after, q, k, x)
        PROVE  r = q /\ l = k
    <3>1. ~ IsMember(runs, r, l, i) /\ ~ IsMember(runs, q, k, i)
      BY <1>2, <2>1, <2>3
    <3>2. /\ IsMember(runs, r, l, x) \/ (r = Len(after) /\ l = m /\ x = i)
          /\ IsMember(runs, q, k, x) \/ (q = Len(after) /\ k = m /\ x = i)
      BY <1>6, <2>6, Zenon
    <3>3. CASE x = i
      BY <3>1, <3>2, <3>3, Zenon
    <3>4. CASE x # i
      <4>1. IsMember(runs, r, l, x) /\ IsMember(runs, q, k, x)
        BY <3>2, <3>4, Zenon
      <4>. QED  BY <2>1, <4>1, Zenon
    <3>. QED  BY <3>3, <3>4
  <2>. QED  BY <2>4, <2>5, <2>6 DEF MembersOnce
<1>10. StartsAhead(list, after, indices, n + 1)
  <2>1. ASSUME NEW r \in 1 .. Len(after), NEW j \in (n + 1) + 1 .. Len(indices)
        PROVE  after[r].from <= list[indices[j]].start
    <3>1. n + 1 < j /\ j \in 1 .. Len(indices) /\ j \in n + 1 .. Len(indices)
      BY <1>1
    <3>2. start <= list[indices[j]].start
      BY <1>1, <3>1 DEF start, i
    <3>3. CASE r \in 1 .. Len(runs)
      BY <1>7, <3>1, <3>3 DEF GoodRuns, StartsAhead
    <3>4. CASE r \notin 1 .. Len(runs)
      BY <1>7, <3>2, <3>4
    <3>. QED  BY <3>3, <3>4
  <2>. QED  BY <2>1 DEF StartsAhead
<1>11. AreStretches(list, after)
  <2>1. AreStretches(list, runs)
    BY DEF GoodRuns
  <2>. QED  BY <1>2, <1>3, <2>1, MergedKeepsStretches DEF after, start
<1>. QED  BY <1>7, <1>8, <1>9, <1>10, <1>11 DEF GoodRuns, after, i

\* The runs of a group are made of its targets, each once.
LEMMA GroupIsRuns ==
    ASSUME NEW list \in Seq(Target), NEW key
    PROVE  LET indices == SortedIndices(list, key)
           IN  GoodRuns(list, MergeByGap(list, indices), indices, Len(indices))
<1>. DEFINE indices == SortedIndices(list, key)
            length == Len(indices)
            Follow(g) == g = [k \in 0 .. length |-> IF k = 0 THEN <<>> ELSE Merged(list, g[k - 1], indices[k])]
<1>1. /\ ListsInOrder(indices, Group(list, key))
      /\ \A j, k \in DOMAIN indices : j < k => list[indices[j]].start <= list[indices[k]].start
  BY GroupIsListed
<1>. HIDE DEF indices
<1>2. length \in Nat /\ \A k \in 1 .. length : indices[k] \in DOMAIN list
  BY <1>1 DEF ListsInOrder, Group
<1>. HIDE DEF length
<1>. DEFINE step == [p \in Seq(Run) \X (1 .. length) |-> Merged(list, p[1], indices[p[2]])]
<1>3. step \in [Seq(Run) \X (1 .. length) -> Seq(Run)]
  <2>1. ASSUME NEW p \in Seq(Run) \X (1 .. length) PROVE Merged(list, p[1], indices[p[2]]) \in Seq(Run)
    <3>1. p[1] \in Seq(Run) /\ indices[p[2]] \in DOMAIN list
      BY <1>2
    <3>. QED  BY <3>1, MergedIsRuns
  <2>. QED  BY <2>1
<1>4. \A runs \in Seq(Run), k \in 1 .. length : step[<<runs, k>>] = Merged(list, runs, indices[k])
  OBVIOUS
<1>. HIDE DEF step
<1>5. PICK f \in [0 .. length -> Seq(Run)] :
          f[0] = <<>> /\ \A k \in 1 .. length : f[k] = step[<<f[k - 1], k>>]
  <2>1. <<>> \in Seq(Run)
    OBVIOUS
  <2>. DEFINE none == <<>>
  <2>2. none \in Seq(Run)
    BY <2>1
  <2>. HIDE DEF none
  <2>. DEFINE D == Seq(Run)
  <2>3. none \in D /\ step \in [D \X (1 .. length) -> D] /\ length \in Nat
    BY <1>2, <1>3, <2>2
  <2>. HIDE DEF D
  <2>4. \E f \in [0 .. length -> D] : Steps(f, none, step, length)
    BY <2>3, Repeated
  <2>. QED  BY <2>4 DEF none, D, Steps
<1>6. Follow(f)
  <2>1. ASSUME NEW k \in 0 .. length
        PROVE  f[k] = IF k = 0 THEN <<>> ELSE Merged(list, f[k - 1], indices[k])
    <3>1. CASE k # 0
      <4>1. k \in 1 .. length /\ k - 1 \in 0 .. length
        BY <1>2, <3>1
      <4>2. f[k - 1] \in Seq(Run)
        BY <4>1
      <4>3. f[k] = step[<<f[k - 1], k>>]
        BY <1>5, <4>1
      <4>. QED  BY <1>4, <3>1, <4>1, <4>2, <4>3
    <3>. QED  BY <1>5, <3>1
  <2>. QED  BY <2>1
<1>7. \E g : Follow(g)
  <2>. HIDE DEF Follow
  <2>. QED  BY <1>6
<1>. DEFINE runs == CHOOSE g : Follow(g)
<1>8. Follow(runs)
  <2>. HIDE DEF Follow
  <2>. QED  BY <1>7, Zenon
<1>9. RunsAfter(list, indices) = runs
  BY Zenon DEF RunsAfter, length
<1>. HIDE DEF runs
<1>10. /\ runs[0] = <<>>
       /\ \A k \in 1 .. length : runs[k] = Merged(list, runs[k - 1], indices[k])
  <2>1. \A k \in 0 .. length : runs[k] = IF k = 0 THEN <<>> ELSE Merged(list, runs[k - 1], indices[k])
    BY <1>8, Zenon
  <2>. QED  BY <1>2, <2>1
<1>. DEFINE S == {n \in Nat : n <= length => GoodRuns(list, runs[n], indices, n)}
<1>11. 0 \in S
  <2>1. runs[0] = <<>> /\ <<>> \in Seq(Run) /\ Len(<<>>) = 0
    BY <1>10
  <2>2. RunsFit(list, <<>>)
    BY DEF RunsFit
  <2>3. MembersOnce(<<>>, indices, 0)
    BY DEF MembersOnce, IsMember
  <2>4. StartsAhead(list, <<>>, indices, 0)
    BY DEF StartsAhead
  <2>5. AreStretches(list, <<>>)
    BY DEF AreStretches, Apart
  <2>. QED  BY <2>1, <2>2, <2>3, <2>4, <2>5 DEF GoodRuns
<1>12. ASSUME NEW n \in S PROVE n + 1 \in S
  <2>1. n \in Nat /\ n + 1 \in Nat
    OBVIOUS
  <2>2. ASSUME n + 1 <= length PROVE GoodRuns(list, runs[n + 1], indices, n + 1)
    <3>1. n <= length /\ n + 1 \in 1 .. length /\ (n + 1) - 1 = n
      BY <1>2, <2>1, <2>2
    <3>2. GoodRuns(list, runs[n], indices, n)
      BY <3>1
    <3>3. GoodRuns(list, Merged(list, runs[n], indices[n + 1]), indices, n + 1)
      BY <1>1, <2>1, <2>2, <3>2, MergedIsGood DEF length
    <3>4. runs[n + 1] = Merged(list, runs[n], indices[n + 1])
      <4>1. runs[n + 1] = Merged(list, runs[(n + 1) - 1], indices[n + 1])
        BY <1>10, <3>1
      <4>. QED  BY <3>1, <4>1
    <3>. QED  BY <3>3, <3>4
  <2>. QED  BY <2>1, <2>2
<1>13. S = Nat
  <2>1. S \in SUBSET Nat
    OBVIOUS
  <2>. HIDE DEF S
  <2>. QED  BY <1>11, <1>12, <2>1, Upwards
<1>14. GoodRuns(list, runs[length], indices, length)
  <2>1. length \in S
    <3>. HIDE DEF S
    <3>. QED  BY <1>2, <1>13
  <2>. QED  BY <1>2, <2>1
<1>15. MergeByGap(list, indices) = runs[length]
  BY <1>9 DEF MergeByGap, length
<1>. QED  BY <1>14, <1>15 DEF indices, length

-----------------------------------------------------------------------------
(* The pieces of a run.                                                    *)

LEMMA ProductsGrow ==
    ASSUME NEW a \in Nat, NEW b \in Nat, NEW m \in Nat, a <= b
    PROVE  a * m \in Nat /\ b * m \in Nat /\ a * m <= b * m
<1>1. b - a \in Nat
  OBVIOUS
<1>2. b * m = a * m + (b - a) * m /\ (b - a) * m \in Nat /\ a * m \in Nat
  BY <1>1
<1>. QED  BY <1>2

\* Quotient and remainder.
LEMMA Division ==
    ASSUME NEW n \in Nat, NEW m \in Nat \ {0}
    PROVE  /\ n \div m \in Nat /\ (n \div m) * m \in Nat /\ (n \div m) * m <= n
           /\ n < (n \div m) * m + m
OBVIOUS

\* A number below the modulus is its own remainder.
LEMMA Remainder ==
    ASSUME NEW n \in Nat, NEW m \in Nat, n < m
    PROVE  n % m = n
OBVIOUS

\* Multiples leave no remainder, and nothing else does.
LEMMA Multiples ==
    ASSUME NEW n \in Nat, NEW m \in Nat \ {0}
    PROVE  /\ (n * m) % m = 0
           /\ n % m = 0 => (n \div m) * m = n
<1>1. n % m = 0 => (n \div m) * m = n
  OBVIOUS
<1>2. (n * m) % m = 0
  <2>. DEFINE p == n * m
  <2>1. p \in Nat
    OBVIOUS
  <2>2. /\ p % m \in Nat /\ p % m < m /\ p \div m \in Nat
        /\ p = (p \div m) * m + (p % m)
    <3>. HIDE DEF p
    <3>. QED  BY <2>1
  <2>. DEFINE d == p \div m
              r == p % m
  <2>3. d \in Nat /\ r \in Nat /\ r < m /\ n * m = d * m + r
    BY <2>2
  <2>. HIDE DEF d, r, p
  <2>4. CASE n <= d
    <3>1. n * m <= d * m /\ n * m \in Nat /\ d * m \in Nat
      BY <2>3, <2>4, ProductsGrow
    <3>2. r = 0
      BY <2>3, <3>1
    <3>. QED  BY <3>2 DEF r, p
  <2>5. CASE n > d
    <3>1. d + 1 \in Nat /\ d + 1 <= n
      BY <2>3, <2>5
    <3>2. (d + 1) * m <= n * m /\ d * m \in Nat
      BY <2>3, <3>1, ProductsGrow
    <3>3. (d + 1) * m = d * m + m
      BY <2>3
    <3>4. FALSE
      BY <2>3, <3>2, <3>3
    <3>. QED  BY <3>4
  <2>. QED  BY <2>3, <2>4, <2>5
<1>. QED  BY <1>1, <1>2

\* How far the pieces before the q-th reach.
Before(q, max) == (q - 1) * max

PieceCount(run, max) == (run.to - run.from + max - 1) \div max

PieceFrom(run, q, max) == run.from + Before(q, max)

\* A register of the run is in one of the pieces, and the next one in the same or in the next.
Pieces(from, to, max, count) ==
    /\ count \in Nat
    /\ \A q \in 1 .. count : Before(q, max) \in Nat /\ from + Before(q, max) < to
    /\ \A a \in from .. to - 1 : (a - from) \div max + 1 \in 1 .. count
    /\ \A a \in from .. to - 1 : \A q \in 1 .. count :
          (a >= from + Before(q, max) /\ a < from + Before(q, max) + max) <=> q = (a - from) \div max + 1
    /\ \A a \in from .. to - 2 : (((a + 1) - from) \div max + 1) - ((a - from) \div max + 1) \in 0 .. 1

LEMMA InOnePiece ==
    ASSUME NEW from \in Nat, NEW to \in Nat, from < to, NEW max \in Nat \ {0}
    PROVE  Pieces(from, to, max, (to - from + max - 1) \div max)
<1>. DEFINE count == (to - from + max - 1) \div max
            piece(a) == (a - from) \div max + 1
<1>1. count \in Nat /\ count * max \in Nat /\ count * max <= to - from + max - 1
      /\ to - from + max - 1 < count * max + max
  <2>. DEFINE n == to - from + max - 1
  <2>1. n \in Nat
    OBVIOUS
  <2>. HIDE DEF n
  <2>2. n \div max \in Nat /\ (n \div max) * max \in Nat /\ (n \div max) * max <= n
        /\ n < (n \div max) * max + max
    BY <2>1, Division
  <2>. QED  BY <2>2 DEF n
<1>2. ASSUME NEW q \in 1 .. count PROVE Before(q, max) \in Nat /\ from + Before(q, max) < to
  <2>1. q - 1 \in Nat /\ count - 1 \in Nat /\ q - 1 <= count - 1
    BY <1>1
  <2>2. (q - 1) * max \in Nat /\ (count - 1) * max \in Nat /\ (q - 1) * max <= (count - 1) * max
    BY <2>1, ProductsGrow
  <2>3. (count - 1) * max = count * max - max
    BY <1>1
  <2>. HIDE DEF count
  <2>. QED  BY <1>1, <2>2, <2>3 DEF Before
<1>3. ASSUME NEW a \in from .. to - 1
      PROVE  /\ (a - from) \div max \in Nat
             /\ ((a - from) \div max) * max \in Nat /\ ((a - from) \div max) * max <= a - from
             /\ a - from < ((a - from) \div max) * max + max
  <2>. DEFINE n == a - from
  <2>1. n \in Nat
    OBVIOUS
  <2>. HIDE DEF n
  <2>2. n \div max \in Nat /\ (n \div max) * max \in Nat /\ (n \div max) * max <= n
        /\ n < (n \div max) * max + max
    BY <2>1, Division
  <2>. QED  BY <2>2 DEF n
<1>. HIDE DEF count
<1>4. ASSUME NEW a \in from .. to - 1 PROVE piece(a) \in 1 .. count
  <2>. DEFINE d == (a - from) \div max
  <2>1. d \in Nat /\ d * max \in Nat /\ d * max <= a - from
    BY <1>3
  <2>. HIDE DEF d
  <2>2. d * max < count * max
    BY <1>1, <2>1
  <2>3. ~ count <= d
    <3>1. count <= d => count * max <= d * max
      BY <1>1, <2>1, ProductsGrow
    <3>. QED  BY <1>1, <2>1, <2>2, <3>1
  <2>4. d + 1 \in 1 .. count
    BY <1>1, <2>1, <2>3
  <2>. QED  BY <2>4 DEF d
<1>5. ASSUME NEW a \in from .. to - 1, NEW q \in 1 .. count
      PROVE  (a >= from + Before(q, max) /\ a < from + Before(q, max) + max) <=> q = piece(a)
  <2>. DEFINE d == (a - from) \div max
              p == q - 1
  <2>1. d \in Nat /\ d * max \in Nat /\ d * max <= a - from /\ a - from < d * max + max
    BY <1>3
  <2>2. p \in Nat /\ q = p + 1 /\ Before(q, max) = p * max
    BY <1>1 DEF Before
  <2>. HIDE DEF d, p
  <2>3. p * max \in Nat
    BY <2>2
  <2>4. CASE p = d
    BY <2>1, <2>2, <2>4 DEF d
  <2>5. CASE p < d
    <3>1. p + 1 \in Nat /\ p + 1 <= d
      BY <2>1, <2>2, <2>5
    <3>2. (p + 1) * max <= d * max
      BY <2>1, <3>1, ProductsGrow
    <3>3. (p + 1) * max = p * max + max
      BY <2>2
    <3>4. ~ (a < from + p * max + max)
      BY <2>1, <2>3, <3>2, <3>3
    <3>5. q # d + 1
      BY <2>1, <2>2, <2>5
    <3>. QED  BY <2>2, <3>4, <3>5 DEF d
  <2>6. CASE d < p
    <3>1. d + 1 \in Nat /\ d + 1 <= p
      BY <2>1, <2>2, <2>6
    <3>2. (d + 1) * max <= p * max
      BY <2>2, <3>1, ProductsGrow
    <3>3. (d + 1) * max = d * max + max
      BY <2>1
    <3>4. ~ (a >= from + p * max)
      BY <2>1, <2>3, <3>2, <3>3
    <3>5. q # d + 1
      BY <2>1, <2>2, <2>6
    <3>. QED  BY <2>2, <3>4, <3>5 DEF d
  <2>. QED  BY <2>1, <2>2, <2>4, <2>5, <2>6
<1>6. ASSUME NEW a \in from .. to - 2 PROVE piece(a + 1) - piece(a) \in 0 .. 1
  <2>. DEFINE d == (a - from) \div max
              e == ((a + 1) - from) \div max
  <2>0. a \in from .. to - 1 /\ a + 1 \in from .. to - 1
    OBVIOUS
  <2>1. d \in Nat /\ d * max \in Nat /\ d * max <= a - from /\ a - from < d * max + max
    BY <1>3, <2>0
  <2>2. e \in Nat /\ e * max \in Nat /\ e * max <= (a + 1) - from /\ (a + 1) - from < e * max + max
    BY <1>3, <2>0
  <2>. HIDE DEF d, e
  <2>3. d <= e
    <3>1. ASSUME e < d PROVE FALSE
      <4>1. e + 1 \in Nat /\ e + 1 <= d
        BY <2>1, <2>2, <3>1
      <4>2. (e + 1) * max <= d * max
        BY <2>1, <4>1, ProductsGrow
      <4>3. (e + 1) * max = e * max + max
        BY <2>2
      <4>. QED  BY <2>1, <2>2, <4>2, <4>3
    <3>. QED  BY <2>1, <2>2, <3>1
  <2>4. e <= d + 1
    <3>1. ASSUME d + 1 < e PROVE FALSE
      <4>1. d + 2 \in Nat /\ d + 2 <= e
        BY <2>1, <2>2, <3>1
      <4>2. (d + 2) * max <= e * max
        BY <2>2, <4>1, ProductsGrow
      <4>3. (d + 2) * max = d * max + max + max
        BY <2>1
      <4>. QED  BY <2>1, <2>2, <4>2, <4>3
    <3>. QED  BY <2>1, <2>2, <3>1
  <2>5. (e + 1) - (d + 1) \in 0 .. 1
    BY <2>1, <2>2, <2>3, <2>4
  <2>. QED  BY <2>5 DEF d, e
<1>. QED  BY <1>1, <1>2, <1>4, <1>5, <1>6 DEF Pieces, count, piece

\* The registers of a member are registers of its run.
LEMMA MemberInside ==
    ASSUME NEW from \in Nat, NEW to \in Nat, NEW start \in Nat, NEW quantity \in Nat,
           from <= start, start + quantity <= to, NEW o \in 0 .. quantity - 1
    PROVE  start + o \in from .. to - 1
OBVIOUS

-----------------------------------------------------------------------------
(* The plan of a piece.                                                    *)

\* A slice carries the registers of its target that lie in the piece, at the places
\* where the device's values for their addresses stand.
SliceIs(c, i, t, from, to) ==
    /\ c = [targetIndex |-> i, offsetInPlan |-> c.offsetInPlan,
            offsetInTarget |-> c.offsetInTarget, count |-> c.count]
    /\ c.targetIndex = i /\ c.offsetInPlan \in Nat /\ c.offsetInTarget \in Nat
    /\ c.count \in Nat \ {0} /\ c.offsetInPlan + c.count <= to - from
    /\ \A o \in 0 .. t.quantity - 1 :
          /\ Carries(c, i, o) <=> t.start + o \in from .. to - 1
          /\ c.offsetInPlan + (o - c.offsetInTarget) = (t.start + o) - from

LEMMA SliceFacts ==
    ASSUME NEW list \in Seq(Target), NEW i \in DOMAIN list, NEW from \in Nat, NEW to \in Nat,
           from < to, Overlaps(list, i, from, to)
    PROVE  SliceIs(Covered(list, i, from, to), i, list[i], from, to)
<1>. DEFINE start == list[i].start
            end == EndOf(list[i])
            first == Max({start, from})
            last == Min({end, to})
            quantity == list[i].quantity
            c == Covered(list, i, from, to)
<1>1. start \in Nat /\ quantity \in Nat \ {0} /\ end = start + quantity /\ start < to /\ from < end
  <2>1. list[i] \in Target
    OBVIOUS
  <2>2. start \in Nat /\ quantity \in Nat \ {0} /\ end = start + quantity
    BY <2>1, TargetFacts
  <2>3. start < to /\ from < end
    <3>1. start < to /\ end > from
      BY DEF Overlaps
    <3>2. end \in Nat
      <4>. HIDE DEF start, end, quantity
      <4>. QED  BY <2>2
    <3>. HIDE DEF start, end
    <3>. QED  BY <3>1, <3>2
  <2>. QED  BY <2>2, <2>3
<1>2. c = [targetIndex |-> i, offsetInPlan |-> first - from, offsetInTarget |-> first - start,
           count |-> last - first]
  BY DEF Covered
<1>. HIDE DEF start, end, quantity
<1>3. first = (IF start >= from THEN start ELSE from) /\ last = (IF end <= to THEN end ELSE to)
  BY <1>1, MaxOfTwo, MinOfTwo
<1>. HIDE DEF first, last, c
<1>4. /\ first \in Nat /\ last \in Nat /\ first < last /\ from <= first /\ start <= first
      /\ last <= end /\ last <= to
      /\ \A a \in start .. end - 1 : a \in first .. last - 1 <=> a \in from .. to - 1
  BY <1>1, <1>3
<1>5. /\ c.targetIndex = i /\ c.offsetInPlan = first - from /\ c.offsetInTarget = first - start
      /\ c.count = last - first
  BY <1>2
<1>6. ASSUME NEW o \in 0 .. quantity - 1
      PROVE  /\ Carries(c, i, o) <=> start + o \in from .. to - 1
             /\ c.offsetInPlan + (o - c.offsetInTarget) = (start + o) - from
  <2>1. start + o \in start .. end - 1 /\ o \in Nat
    BY <1>1
  <2>2. Carries(c, i, o) <=> o \in first - start .. (first - start) + (last - first) - 1
    BY <1>5 DEF Carries
  <2>3. o \in first - start .. (first - start) + (last - first) - 1 <=> start + o \in first .. last - 1
    BY <1>1, <1>4, <2>1
  <2>4. start + o \in first .. last - 1 <=> start + o \in from .. to - 1
    BY <1>4, <2>1, Zenon
  <2>5. (first - from) + (o - (first - start)) = (start + o) - from
    BY <1>1, <1>4, <2>1
  <2>6. c.offsetInPlan + (o - c.offsetInTarget) = (start + o) - from
    BY <1>5, <2>5
  <2>. QED  BY <2>2, <2>3, <2>4, <2>6, Zenon
<1>7. c.offsetInPlan \in Nat /\ c.offsetInTarget \in Nat /\ c.count \in Nat \ {0}
      /\ c.offsetInPlan + c.count <= to - from
  BY <1>1, <1>4, <1>5
<1>8. c = [targetIndex |-> i, offsetInPlan |-> c.offsetInPlan,
           offsetInTarget |-> c.offsetInTarget, count |-> c.count]
  BY <1>2, <1>5
<1>. QED  BY <1>5, <1>6, <1>7, <1>8, Zenon DEF SliceIs, c, start, quantity

\* Numbers can be listed from the least.
LEMMA NumbersAreListed ==
    ASSUME NEW n \in Nat, NEW S \in SUBSET (1 .. n)
    PROVE  ListsInOrder(Sorted(S, <), S)
<1>. DEFINE R == {pair \in S \X S : pair[1] < pair[2]}
            s == Sorted(S, <)
<1>1. IsFiniteSet(S) /\ \A x \in S : x \in Nat
  <2>1. IsFiniteSet(1 .. n)
    BY FS_Interval
  <2>2. IsFiniteSet(S)
    BY <2>1, FS_Subset
  <2>. QED  BY <2>2
<1>2. /\ R \in SUBSET (S \X S)
      /\ \A x \in S : <<x, x>> \notin R
      /\ \A x, y, z \in S : <<x, y>> \in R /\ <<y, z>> \in R => <<x, z>> \in R
      /\ \A x, y \in S : x = y \/ <<x, y>> \in R \/ <<y, x>> \in R
  <2>1. \A x, y \in S : <<x, y>> \in R <=> x < y
    OBVIOUS
  <2>2. R \in SUBSET (S \X S)
    OBVIOUS
  <2>. HIDE DEF R
  <2>. QED  BY <1>1, <2>1, <2>2
<1>3. \E t \in [1 .. Cardinality(S) -> S] :
          \A j, k \in 1 .. Cardinality(S) : j < k => <<t[j], t[k]>> \in R
  <2>. HIDE DEF R
  <2>. QED  BY <1>1, <1>2, CanBeSorted
<1>4. \E t \in [1 .. Cardinality(S) -> S] : \A j, k \in DOMAIN t : j < k => t[j] < t[k]
  <2>1. PICK t \in [1 .. Cardinality(S) -> S] :
            \A j, k \in 1 .. Cardinality(S) : j < k => <<t[j], t[k]>> \in R
    BY <1>3
  <2>2. \A j, k \in DOMAIN t : j < k => t[j] < t[k]
    BY <2>1
  <2>. QED  BY <2>2
<1>5. s \in [1 .. Cardinality(S) -> S] /\ \A j, k \in DOMAIN s : j < k => s[j] < s[k]
  BY <1>4, Zenon DEF Sorted
<1>. HIDE DEF s
<1>6. s \in [1 .. Cardinality(S) -> S] /\ \A j, k \in 1 .. Cardinality(S) : j < k => s[j] # s[k]
  <2>1. s \in [1 .. Cardinality(S) -> S]
    BY <1>5
  <2>2. \A j \in 1 .. Cardinality(S) : s[j] \in Nat
    BY <1>1, <2>1
  <2>. QED  BY <1>5, <2>1, <2>2
<1>7. /\ Cardinality(S) \in Nat /\ s \in Seq(S)
      /\ Len(s) = Cardinality(S) /\ DOMAIN s = 1 .. Cardinality(S)
      /\ \A x \in S : \E k \in DOMAIN s : s[k] = x
  <2>1. IsFiniteSet(S)
    BY <1>1
  <2>. QED  BY <1>6, <2>1, ListsAllMembers
<1>. QED  BY <1>6, <1>7 DEF ListsInOrder, s

SliceOf(list) ==
    [targetIndex : DOMAIN list, offsetInPlan : Nat, offsetInTarget : Nat, count : Nat \ {0}]

PlanFor(list) ==
    [unit : Nat, type : DOMAIN MaxCount, start : 0 .. AddressSpace - 1, quantity : Nat,
     covered : Seq(SliceOf(list))]

\* A run of targets of one device and type, each a member once.
RunOf(list, run, key) ==
    /\ run \in Run /\ run.from < run.to
    /\ \A m \in 1 .. Len(run.members) :
          LET i == run.members[m]
          IN  /\ i \in DOMAIN list /\ KeyOf(list[i]) = key
              /\ run.from <= list[i].start /\ EndOf(list[i]) <= run.to
    /\ \A m, l \in 1 .. Len(run.members) : run.members[m] = run.members[l] => m = l

\* The piece of a run that the o-th register of a target lies in.
PieceOf(t, o, run, max) == ((t.start + o) - run.from) \div max + 1

\* The slice c of plan p tells the truth about the o-th register of target t.
TellsTheTruth(p, c, t, o) ==
    /\ <<p.unit, p.type>> = KeyOf(t)
    /\ c.offsetInPlan + c.count <= p.quantity
    /\ t.start + o < AddressSpace => p.start + c.offsetInPlan + (o - c.offsetInTarget) = t.start + o

\* The slices are those of the members of the run that reach into the piece.
CoversBy(covered, list, run, from, to, mine) ==
    /\ mine \in Seq(1 .. Len(run.members)) /\ Len(mine) \in Nat
    /\ covered \in [1 .. Len(mine) -> {Covered(list, run.members[m], from, to) :
                                          m \in 1 .. Len(run.members)}]
    /\ \A s \in 1 .. Len(mine) :
          /\ covered[s] = Covered(list, run.members[mine[s]], from, to)
          /\ Overlaps(list, run.members[mine[s]], from, to)
    /\ \A s, r \in 1 .. Len(mine) : mine[s] = mine[r] => s = r
    /\ \A m \in 1 .. Len(run.members) :
          Overlaps(list, run.members[m], from, to) => \E s \in 1 .. Len(mine) : mine[s] = m

\* The plan of a piece covers the targets that reach into it.
LEMMA PlanCovers ==
    ASSUME NEW list \in Seq(Target), NEW run, NEW key, RunOf(list, run, key),
           NEW from \in Nat, NEW max \in Nat, max = MaxCount[key[2]]
    PROVE  \E mine : CoversBy(PlanOf(list, run, key, from).covered, list, run,
                              from, PieceEnd(run, from, max), mine)
<1>. DEFINE to == PieceEnd(run, from, max)
            S == {k \in DOMAIN run.members : Overlaps(list, run.members[k], from, to)}
            mine == Sorted(S, <)
            n == Len(run.members)
            covered == PlanOf(list, run, key, from).covered
<1>1. n \in Nat /\ DOMAIN run.members = 1 .. n
  BY DEF RunOf, Run
<1>2. covered = [k \in DOMAIN mine |-> Covered(list, run.members[mine[k]], from, to)]
  BY DEF PlanOf
<1>3. S \in SUBSET (1 .. n) /\ \A m \in 1 .. n : m \in S <=> Overlaps(list, run.members[m], from, to)
  BY <1>1
<1>. HIDE DEF to, S, covered, n
<1>4. ListsInOrder(mine, S)
  BY <1>1, <1>3, NumbersAreListed
<1>. HIDE DEF mine
<1>5. /\ mine \in Seq(S) /\ Len(mine) \in Nat /\ DOMAIN mine = 1 .. Len(mine)
      /\ \A j, k \in 1 .. Len(mine) : j < k => mine[j] # mine[k]
      /\ \A x \in S : \E k \in 1 .. Len(mine) : mine[k] = x
  BY <1>4 DEF ListsInOrder
<1>6. \A s \in 1 .. Len(mine) : mine[s] \in S /\ mine[s] \in 1 .. n
  <2>1. ASSUME NEW s \in 1 .. Len(mine) PROVE mine[s] \in S
    BY <1>5
  <2>. QED  BY <1>3, <2>1
<1>7. mine \in Seq(1 .. n)
  <2>1. S \subseteq 1 .. n
    BY <1>3
  <2>. QED  BY <1>5, <2>1, SeqMonotonic, Zenon
<1>8. \A s, r \in 1 .. Len(mine) : mine[s] = mine[r] => s = r
  BY <1>5
<1>9. covered \in [1 .. Len(mine) -> {Covered(list, run.members[m], from, to) : m \in 1 .. n}]
  BY <1>2, <1>5, <1>6
<1>10. \A s \in 1 .. Len(mine) :
          /\ covered[s] = Covered(list, run.members[mine[s]], from, to)
          /\ Overlaps(list, run.members[mine[s]], from, to)
  BY <1>2, <1>3, <1>5, <1>6
<1>11. \A m \in 1 .. n : Overlaps(list, run.members[m], from, to) => \E s \in 1 .. Len(mine) : mine[s] = m
  BY <1>3, <1>5
<1>12. CoversBy(covered, list, run, from, to, mine)
  BY <1>5, <1>7, <1>8, <1>9, <1>10, <1>11, Zenon DEF n, CoversBy
<1>. QED  BY <1>12, Zenon DEF to, covered

\* The plan of the q-th piece of a run carries the registers in that piece, each once.
PlanIs(plan, list, run, q, max) ==
    /\ plan \in PlanFor(list)
    /\ \A m \in 1 .. Len(run.members) : \A o \in 0 .. list[run.members[m]].quantity - 1 :
          q = PieceOf(list[run.members[m]], o, run, max) =>
             \E s \in DOMAIN plan.covered : Carries(plan.covered[s], run.members[m], o)
    /\ \A i \in DOMAIN list : \A o \in 0 .. list[i].quantity - 1 :
       \A s \in DOMAIN plan.covered : Carries(plan.covered[s], i, o) =>
          /\ \E m \in 1 .. Len(run.members) : run.members[m] = i
          /\ q = PieceOf(list[i], o, run, max)
          /\ \A r \in DOMAIN plan.covered : Carries(plan.covered[r], i, o) => r = s
          /\ TellsTheTruth(plan, plan.covered[s], list[i], o)

LEMMA PlanFacts ==
    ASSUME NEW list \in Seq(Target), NEW key \in KeysOf(list), NEW run, RunOf(list, run, key),
           NEW max, max = MaxCount[key[2]], NEW q \in 1 .. PieceCount(run, max)
    PROVE  PlanIs(PlanOf(list, run, key, run.from + (q - 1) * max), list, run, q, max)
<1>. DEFINE from == run.from + (q - 1) * max
            to == PieceEnd(run, from, max)
            plan == PlanOf(list, run, key, from)
            covered == plan.covered
            n == Len(run.members)
<1>1. /\ run.from \in Nat /\ run.to \in Nat /\ run.from < run.to /\ n \in Nat
      /\ \A m \in 1 .. n : /\ run.members[m] \in DOMAIN list /\ KeyOf(list[run.members[m]]) = key
                           /\ run.from <= list[run.members[m]].start
                           /\ EndOf(list[run.members[m]]) <= run.to
      /\ \A m, l \in 1 .. n : run.members[m] = run.members[l] => m = l
  BY DEF RunOf, Run
<1>2. /\ max \in Nat \ {0} /\ key = <<key[1], key[2]>> /\ key[1] \in Nat /\ key[2] \in DOMAIN MaxCount
      /\ AddressSpace \in Nat \ {0}
  <2>1. PICK i \in DOMAIN list : key = KeyOf(list[i])
    BY DEF KeysOf
  <2>2. list[i] \in Target
    BY <2>1
  <2>3. /\ list[i].unit \in Nat /\ list[i].type \in DOMAIN MaxCount /\ AddressSpace \in Nat
        /\ MaxCount[list[i].type] \in Nat \ {0} /\ list[i].start \in Nat /\ list[i].start < AddressSpace
        /\ KeyOf(list[i]) = <<list[i].unit, list[i].type>>
    BY <2>2, TargetFacts
  <2>4. AddressSpace # 0
    <3>. DEFINE start == list[i].start
    <3>1. start \in Nat /\ start < AddressSpace
      BY <2>3
    <3>. HIDE DEF start
    <3>. QED  BY <3>1
  <2>. QED  BY <2>1, <2>3, <2>4
<1>3. /\ Before(q, max) \in Nat /\ run.from + Before(q, max) < run.to
      /\ \A a \in run.from .. run.to - 1 :
            (a >= run.from + Before(q, max) /\ a < run.from + Before(q, max) + max)
               <=> q = (a - run.from) \div max + 1
  <2>. DEFINE a0 == run.from
              b0 == run.to
  <2>1. a0 \in Nat /\ b0 \in Nat /\ a0 < b0 /\ q \in 1 .. (b0 - a0 + max - 1) \div max
    BY <1>1 DEF PieceCount
  <2>. HIDE DEF a0, b0
  <2>2. /\ Before(q, max) \in Nat /\ a0 + Before(q, max) < b0
        /\ \A a \in a0 .. b0 - 1 :
              (a >= a0 + Before(q, max) /\ a < a0 + Before(q, max) + max) <=> q = (a - a0) \div max + 1
    <3>1. max \in Nat \ {0}
      BY <1>2
    <3>2. Pieces(a0, b0, max, (b0 - a0 + max - 1) \div max)
      BY <2>1, <3>1, InOnePiece, Zenon
    <3>. DEFINE count == (b0 - a0 + max - 1) \div max
    <3>3. q \in 1 .. count /\ Pieces(a0, b0, max, count)
      BY <2>1, <3>2
    <3>. HIDE DEF count
    <3>. QED  BY <3>3, Zenon DEF Pieces
  <2>. QED  BY <2>2 DEF a0, b0
<1>4. from = run.from + Before(q, max)
  BY DEF Before
<1>. HIDE DEF from
<1>5. from \in Nat /\ from < run.to /\ run.from <= from
  BY <1>1, <1>3, <1>4
<1>6. to = (IF from + max <= run.to THEN from + max ELSE run.to)
  <2>1. to = Min({from + max, run.to})
    BY Zenon DEF PieceEnd
  <2>2. from + max \in Int /\ run.to \in Int
    BY <1>1, <1>2, <1>5
  <2>. HIDE DEF to
  <2>. QED  BY <2>1, <2>2, MinOfTwo, Zenon
<1>. HIDE DEF to
<1>7. to \in Nat /\ from < to
  BY <1>1, <1>2, <1>5, <1>6
<1>8. /\ plan.unit = key[1] /\ plan.type = key[2] /\ plan.start = from % AddressSpace
      /\ plan.quantity = to - from
      /\ plan = [unit |-> plan.unit, type |-> plan.type, start |-> plan.start,
                 quantity |-> plan.quantity, covered |-> covered]
  BY DEF PlanOf, to
<1>9. PICK mine : CoversBy(covered, list, run, from, to, mine)
  <2>1. max \in Nat
    BY <1>2
  <2>. QED  BY <1>5, <2>1, PlanCovers DEF to
<1>. HIDE DEF plan, covered, n
<1>10. /\ Len(mine) \in Nat
       /\ covered \in [1 .. Len(mine) -> {Covered(list, run.members[m], from, to) : m \in 1 .. n}]
       /\ DOMAIN covered = 1 .. Len(mine) /\ \A s \in 1 .. Len(mine) : mine[s] \in 1 .. n
       /\ \A s \in 1 .. Len(mine) :
             /\ covered[s] = Covered(list, run.members[mine[s]], from, to)
             /\ Overlaps(list, run.members[mine[s]], from, to)
       /\ \A s, r \in 1 .. Len(mine) : mine[s] = mine[r] => s = r
       /\ \A m \in 1 .. n :
             Overlaps(list, run.members[m], from, to) => \E s \in 1 .. Len(mine) : mine[s] = m
  <2>1. mine \in Seq(1 .. n)
    BY <1>9 DEF CoversBy, n
  <2>2. \A s \in 1 .. Len(mine) : mine[s] \in 1 .. n
    BY <2>1, ElementOfSeq
  <2>3. covered \in [1 .. Len(mine) -> {Covered(list, run.members[m], from, to) : m \in 1 .. n}]
    BY <1>9 DEF CoversBy, n
  <2>4. DOMAIN covered = 1 .. Len(mine)
    BY <2>3
  <2>. QED  BY <1>9, <2>2, <2>3, <2>4 DEF CoversBy, n
<1>11. ASSUME NEW s \in 1 .. Len(mine)
       PROVE  /\ run.members[mine[s]] \in DOMAIN list
              /\ SliceIs(covered[s], run.members[mine[s]], list[run.members[mine[s]]], from, to)
              /\ covered[s] \in SliceOf(list)
  <2>. DEFINE i == run.members[mine[s]]
              c == covered[s]
  <2>1. i \in DOMAIN list /\ c = Covered(list, i, from, to) /\ Overlaps(list, i, from, to)
    BY <1>1, <1>10
  <2>. HIDE DEF i, c
  <2>2. SliceIs(c, i, list[i], from, to)
    BY <1>5, <1>7, <2>1, SliceFacts
  <2>3. c \in SliceOf(list)
    BY <2>1, <2>2 DEF SliceIs, SliceOf
  <2>. QED  BY <2>1, <2>2, <2>3, Zenon DEF i, c
<1>12. plan \in PlanFor(list)
  <2>1. covered \in Seq(SliceOf(list))
    <3>1. covered \in [1 .. Len(mine) -> SliceOf(list)]
      BY <1>10, <1>11
    <3>. QED  BY <1>10, <3>1
  <2>2. plan.start \in 0 .. AddressSpace - 1 /\ plan.quantity \in Nat
    BY <1>2, <1>5, <1>7, <1>8
  <2>. QED  BY <1>2, <1>8, <2>1, <2>2 DEF PlanFor
\* Whether a register of a member is in this piece.
<1>13. ASSUME NEW m \in 1 .. n, NEW o \in 0 .. list[run.members[m]].quantity - 1
       PROVE  /\ list[run.members[m]].start + o \in from .. to - 1
                    <=> q = PieceOf(list[run.members[m]], o, run, max)
              /\ list[run.members[m]].start + o \in from .. to - 1
                    => Overlaps(list, run.members[m], from, to)
  <2>. DEFINE i == run.members[m]
              t == list[i]
              a == t.start + o
  <2>1. i \in DOMAIN list /\ run.from <= t.start /\ EndOf(t) <= run.to
    BY <1>1
  <2>2. t \in Target
    BY <2>1
  <2>3. t.start \in Nat /\ t.quantity \in Nat \ {0} /\ EndOf(t) = t.start + t.quantity
    <3>. HIDE DEF t
    <3>. QED  BY <2>2, TargetFacts
  <2>. HIDE DEF t
  <2>4. o \in 0 .. t.quantity - 1
    BY DEF t
  <2>5. a \in run.from .. run.to - 1 /\ a \in Nat
    <3>1. run.from \in Nat /\ run.to \in Nat
      BY <1>1
    <3>2. a = t.start + o /\ o \in Nat /\ o < t.quantity
      BY <2>3, <2>4
    <3>. HIDE DEF a
    <3>3. a \in Nat /\ a >= t.start /\ a < t.start + t.quantity
      BY <2>3, <3>2
    <3>4. t.start >= run.from /\ t.start + t.quantity <= run.to
      <4>1. run.from <= t.start
        BY <2>1 DEF t
      <4>2. EndOf(t) <= run.to
        BY <2>1 DEF t
      <4>. QED  BY <2>3, <3>1, <4>1, <4>2
    <3>. QED  BY <2>3, <3>1, <3>3, <3>4
  <2>6. a >= t.start /\ a < EndOf(t)
    BY <2>3, <2>4
  <2>. HIDE DEF a
  <2>7. (a >= run.from + Before(q, max) /\ a < run.from + Before(q, max) + max)
            <=> q = (a - run.from) \div max + 1
    BY <1>3, <2>5
  <2>8. a \in from .. to - 1 <=> a >= from /\ a < from + max
    <3>1. from \in Int /\ max \in Int /\ run.to \in Int /\ a \in Int /\ a < run.to
      BY <1>1, <1>2, <1>5, <2>5
    <3>2. to = IF from + max <= run.to THEN from + max ELSE run.to
      BY <1>6
    <3>. QED  BY <3>1, <3>2
  <2>9. a \in from .. to - 1 <=> q = PieceOf(t, o, run, max)
    <3>1. PieceOf(t, o, run, max) = (a - run.from) \div max + 1
      BY DEF PieceOf, a
    <3>. QED  BY <1>4, <2>7, <2>8, <3>1
  <2>10. a \in from .. to - 1 => t.start < to /\ EndOf(t) > from
    BY <1>5, <1>7, <2>3, <2>5, <2>6
  <2>. QED  BY <2>9, <2>10 DEF Overlaps, a, t
<1>14. ASSUME NEW m \in 1 .. n, NEW o \in 0 .. list[run.members[m]].quantity - 1,
              q = PieceOf(list[run.members[m]], o, run, max)
       PROVE  \E s \in DOMAIN covered : Carries(covered[s], run.members[m], o)
  <2>1. list[run.members[m]].start + o \in from .. to - 1 /\ Overlaps(list, run.members[m], from, to)
    BY <1>13, <1>14
  <2>2. PICK s \in 1 .. Len(mine) : mine[s] = m
    BY <1>10, <2>1
  <2>3. Carries(covered[s], run.members[m], o)
    BY <1>10, <1>11, <2>1, <2>2 DEF SliceIs
  <2>. QED  BY <1>10, <2>3
<1>15. ASSUME NEW i \in DOMAIN list, NEW o \in 0 .. list[i].quantity - 1,
              NEW s \in DOMAIN covered, Carries(covered[s], i, o)
       PROVE  /\ \E m \in 1 .. n : run.members[m] = i
              /\ q = PieceOf(list[i], o, run, max)
              /\ \A r \in DOMAIN covered : Carries(covered[r], i, o) => r = s
              /\ TellsTheTruth(plan, covered[s], list[i], o)
  <2>1. \A r \in DOMAIN covered : r \in 1 .. Len(mine) /\ mine[r] \in 1 .. n
    BY <1>10
  <2>2. \A r \in DOMAIN covered : Carries(covered[r], i, o) => run.members[mine[r]] = i
    BY <1>11, <2>1 DEF Carries, SliceIs
  <2>3. run.members[mine[s]] = i /\ mine[s] \in 1 .. n
    BY <1>15, <2>1, <2>2
  <2>4. \A r \in DOMAIN covered : Carries(covered[r], i, o) => r = s
    <3>1. ASSUME NEW r \in DOMAIN covered, Carries(covered[r], i, o) PROVE r = s
      <4>1. run.members[mine[r]] = run.members[mine[s]] /\ mine[r] \in 1 .. n
        BY <2>1, <2>2, <2>3, <3>1
      <4>2. mine[r] = mine[s]
        BY <1>1, <2>3, <4>1 DEF n
      <4>. QED  BY <1>10, <2>1, <4>2
    <3>. QED  BY <3>1
  <2>5. /\ list[i].start + o \in from .. to - 1
        /\ covered[s].offsetInPlan + covered[s].count <= to - from
        /\ covered[s].offsetInPlan \in Nat /\ covered[s].offsetInTarget \in Nat
        /\ covered[s].offsetInPlan + (o - covered[s].offsetInTarget) = (list[i].start + o) - from
    BY <1>11, <1>15, <2>1, <2>3 DEF SliceIs
  <2>6. q = PieceOf(list[i], o, run, max)
    BY <1>13, <2>3, <2>5
  <2>7. KeyOf(list[i]) = key
    BY <1>1, <2>3 DEF n
  <2>8. ASSUME list[i].start + o < AddressSpace
        PROVE  plan.start + covered[s].offsetInPlan + (o - covered[s].offsetInTarget) = list[i].start + o
    <3>. DEFINE a == list[i].start + o
                x == covered[s].offsetInPlan
                y == covered[s].offsetInTarget
    <3>0. o \in Int
      OBVIOUS
    <3>1. x + (o - y) = a - from /\ x \in Nat /\ y \in Nat /\ a \in from .. to - 1 /\ o \in Int
      <4>1. x + (o - y) = a - from
        BY <2>5
      <4>2. x \in Nat /\ y \in Nat /\ a \in from .. to - 1
        BY <2>5
      <4>. QED  BY <3>0, <4>1, <4>2
    <3>2. a < AddressSpace
      BY <2>8
    <3>. HIDE DEF a, x, y
    <3>3. from \in 0 .. AddressSpace - 1
      BY <1>2, <1>5, <3>1, <3>2
    <3>4. from % AddressSpace = from
      <4>1. AddressSpace \in Nat /\ from < AddressSpace
        BY <1>2, <1>5, <3>3
      <4>. QED  BY <1>5, <4>1, Remainder, Zenon
    <3>5. plan.start = from
      BY <1>8, <3>4
    <3>6. from + x + (o - y) = a
      BY <1>5, <3>1
    <3>. QED  BY <3>5, <3>6 DEF a, x, y
  <2>9. TellsTheTruth(plan, covered[s], list[i], o)
    BY <1>2, <1>8, <2>5, <2>7, <2>8 DEF TellsTheTruth
  <2>. QED  BY <2>3, <2>4, <2>6, <2>9
<1>16. PlanIs(plan, list, run, q, max)
  BY <1>12, <1>14, <1>15 DEF PlanIs, covered, n
<1>. QED  BY <1>16 DEF plan, from

-----------------------------------------------------------------------------
(* Every register is read once.                                            *)

\* The s-th slice of the p-th request carries the o-th register of target i, truly,
\* and no other slice of any request carries it.
ReadBy(requests, list, i, o, p, s) ==
    /\ p \in 1 .. Len(requests) /\ s \in DOMAIN requests[p].covered
    /\ Carries(requests[p].covered[s], i, o)
    /\ TellsTheTruth(requests[p], requests[p].covered[s], list[i], o)
    /\ \A q \in 1 .. Len(requests) : \A r \in DOMAIN requests[q].covered :
          Carries(requests[q].covered[r], i, o) => q = p /\ r = s

\* Every register of target i is read once, neighbours by the same request or the next.
ReadAt(requests, list, i, at) ==
    \A o \in 0 .. list[i].quantity - 1 :
        /\ at[o] \in 1 .. Len(requests)
        /\ \E s \in DOMAIN requests[at[o]].covered : ReadBy(requests, list, i, o, at[o], s)
        /\ o > 0 => at[o] - at[o - 1] \in 0 .. 1

IsRead(requests, list, i) == \E at : ReadAt(requests, list, i, at)

NotRead(requests, list, i) ==
    \A o \in 0 .. list[i].quantity - 1 : \A p \in 1 .. Len(requests) :
        \A s \in DOMAIN requests[p].covered : ~ Carries(requests[p].covered[s], i, o)

\* What is read in one of the lists only is read in the flattened list.
LEMMA FlattenedReads ==
    ASSUME NEW T, NEW seqs \in Seq(Seq(T)), NEW list \in Seq(Target), NEW i \in DOMAIN list
    PROVE  /\ (\A k \in 1 .. Len(seqs) : NotRead(seqs[k], list, i)) => NotRead(FlattenSeq(seqs), list, i)
           /\ \A k \in 1 .. Len(seqs) :
                 /\ IsRead(seqs[k], list, i)
                 /\ \A j \in 1 .. Len(seqs) : j # k => NotRead(seqs[j], list, i)
                 => IsRead(FlattenSeq(seqs), list, i)
<1>. DEFINE flat == FlattenSeq(seqs)
            n == Len(seqs)
            registers == 0 .. list[i].quantity - 1
<1>1. PICK before : Placed(seqs, n, before, flat)
  BY Flattened
<1>2. n \in Nat /\ \A k \in 1 .. n : seqs[k] \in Seq(T)
  OBVIOUS
<1>3. \A k \in 1 .. n : Len(seqs[k]) \in Nat
  BY <1>2
<1>. HIDE DEF flat, n
<1>4. /\ \A k \in 1 .. n : before[k] \in Nat
      /\ \A k \in 1 .. n : \A j \in 1 .. Len(seqs[k]) :
            before[k] + j \in 1 .. Len(flat) /\ flat[before[k] + j] = seqs[k][j]
      /\ \A p \in 1 .. Len(flat) : \E k \in 1 .. n : \E j \in 1 .. Len(seqs[k]) : p = before[k] + j
  BY <1>1, Zenon DEF Placed
\* A place of the flattened list is one of a list.
<1>5. ASSUME NEW p \in 1 .. Len(flat)
      PROVE  \E k \in 1 .. n : \E j \in 1 .. Len(seqs[k]) : p = before[k] + j /\ flat[p] = seqs[k][j]
  <2>1. PICK k \in 1 .. n : \E j \in 1 .. Len(seqs[k]) : p = before[k] + j
    BY <1>4
  <2>2. PICK j \in 1 .. Len(seqs[k]) : p = before[k] + j
    BY <2>1
  <2>3. flat[p] = seqs[k][j]
    BY <1>4, <2>2
  <2>. QED  BY <2>2, <2>3
<1>6. ASSUME \A k \in 1 .. n : NotRead(seqs[k], list, i) PROVE NotRead(flat, list, i)
  <2>1. ASSUME NEW o \in registers, NEW p \in 1 .. Len(flat), NEW s \in DOMAIN flat[p].covered,
               Carries(flat[p].covered[s], i, o)
        PROVE  FALSE
    <3>1. PICK k \in 1 .. n : \E j \in 1 .. Len(seqs[k]) : p = before[k] + j /\ flat[p] = seqs[k][j]
      BY <1>5
    <3>2. PICK j \in 1 .. Len(seqs[k]) : flat[p] = seqs[k][j]
      BY <3>1
    <3>3. NotRead(seqs[k], list, i)
      BY <1>6
    <3>. QED  BY <2>1, <3>2, <3>3, Zenon DEF NotRead
  <2>. QED  BY <2>1, Zenon DEF NotRead
<1>7. ASSUME NEW k \in 1 .. n, IsRead(seqs[k], list, i),
             \A j \in 1 .. n : j # k => NotRead(seqs[j], list, i)
      PROVE  IsRead(flat, list, i)
  <2>1. PICK at : ReadAt(seqs[k], list, i, at)
    BY <1>7 DEF IsRead
  <2>. DEFINE there == [o \in registers |-> before[k] + at[o]]
  <2>2. ASSUME NEW o \in registers
        PROVE  /\ at[o] \in 1 .. Len(seqs[k]) /\ there[o] = before[k] + at[o]
               /\ there[o] \in 1 .. Len(flat) /\ flat[there[o]] = seqs[k][at[o]]
    <3>1. at[o] \in 1 .. Len(seqs[k])
      BY <2>1 DEF ReadAt
    <3>. QED  BY <1>4, <3>1
  <2>. HIDE DEF there
  <2>3. ASSUME NEW o \in registers
        PROVE  \E s \in DOMAIN flat[there[o]].covered : ReadBy(flat, list, i, o, there[o], s)
    <3>1. PICK s \in DOMAIN seqs[k][at[o]].covered : ReadBy(seqs[k], list, i, o, at[o], s)
      BY <2>1 DEF ReadAt
    <3>2. /\ s \in DOMAIN flat[there[o]].covered
          /\ Carries(flat[there[o]].covered[s], i, o)
          /\ TellsTheTruth(flat[there[o]], flat[there[o]].covered[s], list[i], o)
      BY <2>2, <3>1 DEF ReadBy
    <3>3. ASSUME NEW p \in 1 .. Len(flat), NEW r \in DOMAIN flat[p].covered,
                 Carries(flat[p].covered[r], i, o)
          PROVE  p = there[o] /\ r = s
      <4>1. PICK l \in 1 .. n : \E j \in 1 .. Len(seqs[l]) : p = before[l] + j /\ flat[p] = seqs[l][j]
        BY <1>5
      <4>2. PICK j \in 1 .. Len(seqs[l]) : p = before[l] + j /\ flat[p] = seqs[l][j]
        BY <4>1
      <4>3. r \in DOMAIN seqs[l][j].covered /\ Carries(seqs[l][j].covered[r], i, o)
        BY <3>3, <4>2
      <4>4. l = k
        BY <1>7, <4>3, Zenon DEF NotRead
      <4>5. j = at[o] /\ r = s
        BY <3>1, <4>3, <4>4, Zenon DEF ReadBy
      <4>. QED  BY <2>2, <4>2, <4>4, <4>5
    <3>4. ReadBy(flat, list, i, o, there[o], s)
      BY <2>2, <3>2, <3>3 DEF ReadBy
    <3>. QED  BY <3>2, <3>4
  <2>4. ASSUME NEW o \in registers, o > 0 PROVE there[o] - there[o - 1] \in 0 .. 1
    <3>1. o - 1 \in registers /\ at[o] - at[o - 1] \in 0 .. 1
      <4>1. o - 1 \in registers
        <5>1. list[i] \in Target
          OBVIOUS
        <5>2. list[i].quantity \in Nat
          BY <5>1, TargetFacts
        <5>. QED  BY <2>4, <5>2
      <4>. QED  BY <2>1, <2>4, <4>1 DEF ReadAt
    <3>2. at[o] \in Nat /\ at[o - 1] \in Nat /\ before[k] \in Nat
      <4>1. at[o] \in 1 .. Len(seqs[k]) /\ at[o - 1] \in 1 .. Len(seqs[k])
        BY <2>2, <3>1
      <4>2. before[k] \in Nat
        BY <1>3, <1>4
      <4>. QED  BY <4>1, <4>2
    <3>3. there[o] = before[k] + at[o] /\ there[o - 1] = before[k] + at[o - 1]
      BY <2>2, <3>1
    <3>. QED  BY <3>1, <3>2, <3>3
  <2>5. ReadAt(flat, list, i, there)
    BY <2>2, <2>3, <2>4 DEF ReadAt
  <2>. QED  BY <2>5 DEF IsRead
<1>. QED  BY <1>6, <1>7 DEF flat, n

LEMMA RunReads ==
    ASSUME NEW list \in Seq(Target), NEW key \in KeysOf(list), NEW run, RunOf(list, run, key)
    PROVE  /\ PlansForRun(list, run, key) \in Seq(PlanFor(list))
           /\ \A i \in DOMAIN list :
                 IF \E m \in 1 .. Len(run.members) : run.members[m] = i
                 THEN IsRead(PlansForRun(list, run, key), list, i)
                 ELSE NotRead(PlansForRun(list, run, key), list, i)
<1>. DEFINE max == MaxCount[key[2]]
            count == PieceCount(run, max)
            requests == PlansForRun(list, run, key)
            Plan(q) == PlanOf(list, run, key, run.from + (q - 1) * max)
            n == Len(run.members)
<1>1. requests = [k \in 1 .. count |-> Plan(k)]
  BY DEF PlansForRun, PieceCount
<1>2. max \in Nat \ {0}
  <2>1. PICK i \in DOMAIN list : key = KeyOf(list[i])
    BY DEF KeysOf
  <2>2. list[i] \in Target
    BY <2>1
  <2>3. MaxCount[list[i].type] \in Nat \ {0} /\ key = <<list[i].unit, list[i].type>>
    BY <2>1, <2>2, TargetFacts
  <2>. QED  BY <2>3
<1>3. /\ run.from \in Nat /\ run.to \in Nat /\ run.from < run.to
      /\ \A m \in 1 .. n : /\ run.members[m] \in DOMAIN list /\ run.from <= list[run.members[m]].start
                           /\ EndOf(list[run.members[m]]) <= run.to
  BY DEF RunOf, Run
<1>. HIDE DEF max
<1>4. /\ count \in Nat
      /\ \A a \in run.from .. run.to - 1 : (a - run.from) \div max + 1 \in 1 .. count
      /\ \A a \in run.from .. run.to - 2 :
            (((a + 1) - run.from) \div max + 1) - ((a - run.from) \div max + 1) \in 0 .. 1
  <2>. DEFINE a0 == run.from
              b0 == run.to
  <2>1. a0 \in Nat /\ b0 \in Nat /\ a0 < b0
    BY <1>3
  <2>2. count = (b0 - a0 + max - 1) \div max
    BY DEF PieceCount
  <2>. HIDE DEF a0, b0
  <2>3. /\ (b0 - a0 + max - 1) \div max \in Nat
        /\ \A a \in a0 .. b0 - 1 : (a - a0) \div max + 1 \in 1 .. (b0 - a0 + max - 1) \div max
        /\ \A a \in a0 .. b0 - 2 : (((a + 1) - a0) \div max + 1) - ((a - a0) \div max + 1) \in 0 .. 1
    <3>1. Pieces(a0, b0, max, (b0 - a0 + max - 1) \div max)
      BY <1>2, <2>1, InOnePiece, Zenon
    <3>. QED  BY <3>1, Zenon DEF Pieces
  <2>. HIDE DEF count
  <2>. QED  BY <2>2, <2>3 DEF a0, b0
<1>5. ASSUME NEW q \in 1 .. count
      PROVE  /\ Plan(q) \in PlanFor(list)
             /\ \A m \in 1 .. n : \A o \in 0 .. list[run.members[m]].quantity - 1 :
                   q = PieceOf(list[run.members[m]], o, run, max) =>
                      \E s \in DOMAIN Plan(q).covered : Carries(Plan(q).covered[s], run.members[m], o)
             /\ \A i \in DOMAIN list : \A o \in 0 .. list[i].quantity - 1 :
                \A s \in DOMAIN Plan(q).covered : Carries(Plan(q).covered[s], i, o) =>
                   /\ \E m \in 1 .. n : run.members[m] = i
                   /\ q = PieceOf(list[i], o, run, max)
                   /\ \A r \in DOMAIN Plan(q).covered : Carries(Plan(q).covered[r], i, o) => r = s
                   /\ TellsTheTruth(Plan(q), Plan(q).covered[s], list[i], o)
  <2>1. q \in 1 .. PieceCount(run, max)
    OBVIOUS
  <2>. HIDE DEF count, n
  <2>2. PlanIs(PlanOf(list, run, key, run.from + (q - 1) * max), list, run, q, max)
    BY <2>1, PlanFacts DEF max
  <2>. HIDE DEF Plan
  <2>3. PlanIs(Plan(q), list, run, q, max)
    BY <2>2 DEF Plan
  <2>. QED  BY <2>3, Zenon DEF PlanIs, n
<1>. HIDE DEF Plan, count, requests, n
<1>6. requests \in Seq(PlanFor(list)) /\ Len(requests) = count /\ \A q \in 1 .. count : requests[q] = Plan(q)
  <2>1. \A q \in 1 .. count : Plan(q) \in PlanFor(list)
    BY <1>5
  <2>. QED  BY <1>1, <1>4, <2>1
<1>7. ASSUME NEW i \in DOMAIN list, \A m \in 1 .. n : run.members[m] # i
      PROVE  NotRead(requests, list, i)
  BY <1>5, <1>6, <1>7 DEF NotRead
<1>8. ASSUME NEW m \in 1 .. n PROVE IsRead(requests, list, run.members[m])
  <2>. DEFINE i == run.members[m]
              t == list[i]
              at == [o \in 0 .. t.quantity - 1 |-> PieceOf(t, o, run, max)]
  <2>1. i \in DOMAIN list /\ t \in Target /\ run.from <= t.start /\ EndOf(t) <= run.to
    BY <1>3
  <2>. HIDE DEF i, t
  <2>2. t.start \in Nat /\ t.quantity \in Nat \ {0} /\ EndOf(t) = t.start + t.quantity
    BY <2>1, TargetFacts
  <2>3. \A o \in 0 .. t.quantity - 1 : t.start + o \in run.from .. run.to - 1
    <3>1. run.from \in Nat /\ run.to \in Nat
      BY <1>3
    <3>2. run.from <= t.start /\ t.start + t.quantity <= run.to /\ t.start \in Nat /\ t.quantity \in Nat
      BY <2>1, <2>2
    <3>. QED  BY <3>1, <3>2, MemberInside, Zenon
  <2>4. \A o \in 0 .. t.quantity - 1 :
            at[o] = ((t.start + o) - run.from) \div max + 1 /\ at[o] = PieceOf(t, o, run, max)
    BY DEF PieceOf
  <2>. HIDE DEF at
  <2>5. \A o \in 0 .. t.quantity - 1 : at[o] \in 1 .. count
    BY <1>4, <2>3, <2>4
  <2>6. ASSUME NEW o \in 0 .. t.quantity - 1
        PROVE  \E s \in DOMAIN requests[at[o]].covered : ReadBy(requests, list, i, o, at[o], s)
    <3>. DEFINE q == at[o]
    <3>1. q \in 1 .. count /\ q = PieceOf(t, o, run, max) /\ requests[q] = Plan(q)
      BY <1>6, <2>4, <2>5
    <3>. HIDE DEF q
    <3>2. PICK s \in DOMAIN Plan(q).covered : Carries(Plan(q).covered[s], i, o)
      BY <1>5, <3>1 DEF i, t
    <3>3. /\ \A r \in DOMAIN Plan(q).covered : Carries(Plan(q).covered[r], i, o) => r = s
          /\ TellsTheTruth(Plan(q), Plan(q).covered[s], list[i], o)
      BY <1>5, <2>1, <3>1, <3>2 DEF t
    <3>4. ASSUME NEW p \in 1 .. count, NEW r \in DOMAIN Plan(p).covered, Carries(Plan(p).covered[r], i, o)
          PROVE  p = q /\ r = s
      <4>1. p = PieceOf(t, o, run, max)
        BY <1>5, <2>1, <3>4 DEF t
      <4>. QED  BY <3>1, <3>3, <3>4, <4>1
    <3>5. ReadBy(requests, list, i, o, q, s)
      BY <1>6, <3>1, <3>2, <3>3, <3>4 DEF ReadBy
    <3>. QED  BY <3>1, <3>2, <3>5 DEF q
  <2>7. ASSUME NEW o \in 0 .. t.quantity - 1, o > 0 PROVE at[o] - at[o - 1] \in 0 .. 1
    <3>. DEFINE a == t.start + (o - 1)
    <3>1. o - 1 \in 0 .. t.quantity - 1
      BY <2>2, <2>7
    <3>2. a \in run.from .. run.to - 1 /\ a + 1 \in run.from .. run.to - 1 /\ a + 1 = t.start + o
      BY <1>3, <2>2, <2>3, <3>1
    <3>3. /\ at[o] = ((a + 1) - run.from) \div max + 1
          /\ at[o - 1] = (a - run.from) \div max + 1
      BY <2>4, <3>1, <3>2
    <3>. HIDE DEF a
    <3>4. a \in run.from .. run.to - 2
      BY <1>3, <3>2
    <3>. QED  BY <1>4, <3>3, <3>4
  <2>8. ReadAt(requests, list, i, at)
    BY <1>6, <2>5, <2>6, <2>7 DEF ReadAt, t
  <2>. QED  BY <2>8 DEF IsRead, i
<1>. QED  BY <1>6, <1>7, <1>8 DEF requests, n

\* The runs of a group: each target of the group is a member of one of them.
AreRunsOf(runs, list, key) ==
    /\ runs \in Seq(Run)
    /\ \A r \in 1 .. Len(runs) : RunOf(list, runs[r], key)
    /\ \A i \in DOMAIN list : KeyOf(list[i]) = key =>
          \E r \in 1 .. Len(runs) : \E m \in 1 .. Len(runs[r].members) : runs[r].members[m] = i
    /\ \A r, q \in 1 .. Len(runs) : \A m \in 1 .. Len(runs[r].members) :
          \A l \in 1 .. Len(runs[q].members) : runs[r].members[m] = runs[q].members[l] => r = q
    /\ AreStretches(list, runs)

LEMMA GroupHasRuns ==
    ASSUME NEW list \in Seq(Target), NEW key
    PROVE  AreRunsOf(MergeByGap(list, SortedIndices(list, key)), list, key)
<1>. DEFINE indices == SortedIndices(list, key)
            runs == MergeByGap(list, indices)
<1>1. GoodRuns(list, runs, indices, Len(indices))
  BY GroupIsRuns
<1>2. ListsInOrder(indices, Group(list, key))
  BY GroupIsListed
<1>. HIDE DEF indices, runs
<1>3. /\ runs \in Seq(Run) /\ RunsFit(list, runs) /\ MembersOnce(runs, indices, Len(indices))
      /\ AreStretches(list, runs)
  BY <1>1 DEF GoodRuns
<1>4. /\ Len(indices) \in Nat /\ \A j \in 1 .. Len(indices) : indices[j] \in Group(list, key)
      /\ \A i \in Group(list, key) : \E j \in 1 .. Len(indices) : indices[j] = i
  BY <1>2 DEF ListsInOrder
<1>5. ASSUME NEW r \in 1 .. Len(runs)
      PROVE  /\ runs[r] \in Run /\ r \in Nat /\ runs[r].members \in Seq(Nat) /\ Len(runs[r].members) \in Nat
             /\ \A m \in 1 .. Len(runs[r].members) :
                   m \in Nat /\ runs[r].members[m] \in Nat /\ IsMember(runs, r, m, runs[r].members[m])
  <2>1. runs[r] \in Run /\ r \in Nat
    BY <1>3
  <2>2. runs[r].members \in Seq(Nat)
    BY <2>1 DEF Run
  <2>3. ASSUME NEW m \in 1 .. Len(runs[r].members)
        PROVE  m \in Nat /\ runs[r].members[m] \in Nat /\ IsMember(runs, r, m, runs[r].members[m])
    BY <2>2 DEF IsMember
  <2>4. Len(runs[r].members) \in Nat
    BY <2>2
  <2>. QED  BY <2>1, <2>2, <2>3, <2>4
<1>6. ASSUME NEW r \in 1 .. Len(runs), NEW q \in 1 .. Len(runs),
             NEW m \in 1 .. Len(runs[r].members), NEW l \in 1 .. Len(runs[q].members),
             runs[r].members[m] = runs[q].members[l]
      PROVE  r = q /\ m = l
  <2>. DEFINE i == runs[r].members[m]
  <2>1. /\ r \in Nat /\ q \in Nat /\ m \in Nat /\ l \in Nat /\ i \in Nat
        /\ IsMember(runs, r, m, i) /\ IsMember(runs, q, l, i)
    BY <1>5, <1>6
  <2>. HIDE DEF i
  <2>. QED  BY <1>3, <2>1, Zenon DEF MembersOnce
<1>7. ASSUME NEW r \in 1 .. Len(runs) PROVE RunOf(list, runs[r], key)
  <2>1. ASSUME NEW m \in 1 .. Len(runs[r].members)
        PROVE  LET i == runs[r].members[m]
               IN  /\ i \in DOMAIN list /\ KeyOf(list[i]) = key
                   /\ runs[r].from <= list[i].start /\ EndOf(list[i]) <= runs[r].to
    <3>. DEFINE i == runs[r].members[m]
    <3>1. i \in Nat /\ m \in Nat /\ r \in Nat /\ IsMember(runs, r, m, i)
      BY <1>5
    <3>. HIDE DEF i
    <3>2. i \in DOMAIN list /\ runs[r].from <= list[i].start /\ EndOf(list[i]) <= runs[r].to
      BY <1>3, <3>1 DEF RunsFit
    <3>3. PICK j \in 1 .. Len(indices) : indices[j] = i
      BY <1>3, <3>1 DEF MembersOnce
    <3>4. KeyOf(list[i]) = key
      BY <1>4, <3>3 DEF Group
    <3>. QED  BY <3>2, <3>4 DEF i
  <2>2. \A m, l \in 1 .. Len(runs[r].members) : runs[r].members[m] = runs[r].members[l] => m = l
    BY <1>6
  <2>3. runs[r].from < runs[r].to
    BY <1>3 DEF RunsFit
  <2>. QED  BY <1>5, <2>1, <2>2, <2>3 DEF RunOf
<1>8. ASSUME NEW i \in DOMAIN list, KeyOf(list[i]) = key
      PROVE  \E r \in 1 .. Len(runs) : \E m \in 1 .. Len(runs[r].members) : runs[r].members[m] = i
  <2>1. PICK j \in 1 .. Len(indices) : indices[j] = i
    BY <1>4, <1>8 DEF Group
  <2>2. PICK r \in Nat, m \in Nat : IsMember(runs, r, m, i)
    BY <1>3, <2>1 DEF MembersOnce
  <2>. QED  BY <2>2 DEF IsMember
<1>. QED  BY <1>3, <1>6, <1>7, <1>8 DEF AreRunsOf, runs, indices

LEMMA GroupReads ==
    ASSUME NEW list \in Seq(Target), NEW key \in KeysOf(list)
    PROVE  /\ PlansForGroup(list, key) \in Seq(PlanFor(list))
           /\ \A i \in DOMAIN list :
                 IF KeyOf(list[i]) = key
                 THEN IsRead(PlansForGroup(list, key), list, i)
                 ELSE NotRead(PlansForGroup(list, key), list, i)
<1>. DEFINE runs == MergeByGap(list, SortedIndices(list, key))
            seqs == [r \in DOMAIN runs |-> PlansForRun(list, runs[r], key)]
<1>1. /\ runs \in Seq(Run)
      /\ \A r \in 1 .. Len(runs) : RunOf(list, runs[r], key)
      /\ \A i \in DOMAIN list : KeyOf(list[i]) = key =>
            \E r \in 1 .. Len(runs) : \E m \in 1 .. Len(runs[r].members) : runs[r].members[m] = i
      /\ \A r, q \in 1 .. Len(runs) : \A m \in 1 .. Len(runs[r].members) :
            \A l \in 1 .. Len(runs[q].members) : runs[r].members[m] = runs[q].members[l] => r = q
  <2>1. AreRunsOf(runs, list, key)
    BY GroupHasRuns
  <2>. HIDE DEF runs
  <2>. QED  BY <2>1, Zenon DEF AreRunsOf
<1>2. PlansForGroup(list, key) = FlattenSeq(seqs)
  BY DEF PlansForGroup
<1>. HIDE DEF runs
<1>3. DOMAIN runs = 1 .. Len(runs) /\ Len(runs) \in Nat
  BY <1>1
<1>4. ASSUME NEW r \in 1 .. Len(runs)
      PROVE  /\ seqs[r] = PlansForRun(list, runs[r], key) /\ seqs[r] \in Seq(PlanFor(list))
             /\ \A i \in DOMAIN list :
                   IF \E m \in 1 .. Len(runs[r].members) : runs[r].members[m] = i
                   THEN IsRead(seqs[r], list, i)
                   ELSE NotRead(seqs[r], list, i)
  <2>1. seqs[r] = PlansForRun(list, runs[r], key)
    BY <1>3
  <2>2. RunOf(list, runs[r], key)
    BY <1>1
  <2>. HIDE DEF seqs
  <2>. QED  BY <2>1, <2>2, RunReads
<1>5. seqs \in Seq(Seq(PlanFor(list))) /\ Len(seqs) = Len(runs)
  BY <1>3, <1>4
<1>. HIDE DEF seqs
<1>6. FlattenSeq(seqs) \in Seq(PlanFor(list))
  BY <1>5, Flattened
<1>7. ASSUME NEW i \in DOMAIN list
      PROVE  /\ (\A k \in 1 .. Len(seqs) : NotRead(seqs[k], list, i)) => NotRead(FlattenSeq(seqs), list, i)
             /\ \A k \in 1 .. Len(seqs) :
                   /\ IsRead(seqs[k], list, i)
                   /\ \A j \in 1 .. Len(seqs) : j # k => NotRead(seqs[j], list, i)
                   => IsRead(FlattenSeq(seqs), list, i)
  BY <1>5, FlattenedReads
<1>8. ASSUME NEW i \in DOMAIN list, KeyOf(list[i]) = key PROVE IsRead(FlattenSeq(seqs), list, i)
  <2>1. PICK r \in 1 .. Len(runs) : \E m \in 1 .. Len(runs[r].members) : runs[r].members[m] = i
    BY <1>1, <1>8
  <2>2. IsRead(seqs[r], list, i)
    BY <1>4, <2>1
  <2>3. ASSUME NEW q \in 1 .. Len(runs), q # r PROVE NotRead(seqs[q], list, i)
    <3>1. ~ \E m \in 1 .. Len(runs[q].members) : runs[q].members[m] = i
      BY <1>1, <2>1, <2>3
    <3>. QED  BY <1>4, <3>1
  <2>. QED  BY <1>5, <1>7, <2>2, <2>3
<1>9. ASSUME NEW i \in DOMAIN list, KeyOf(list[i]) # key PROVE NotRead(FlattenSeq(seqs), list, i)
  <2>1. ASSUME NEW q \in 1 .. Len(runs) PROVE NotRead(seqs[q], list, i)
    <3>1. ~ \E m \in 1 .. Len(runs[q].members) : runs[q].members[m] = i
      BY <1>1, <1>9 DEF RunOf
    <3>. QED  BY <1>4, <3>1
  <2>. QED  BY <1>5, <1>7, <2>1
<1>. QED  BY <1>2, <1>6, <1>8, <1>9

\* Every target of a list is read by the requests for the list.
LEMMA EveryTargetIsRead ==
    ASSUME NEW list \in Seq(Target)
    PROVE  /\ Coalesce(list) \in Seq(PlanFor(list))
           /\ \A i \in DOMAIN list : IsRead(Coalesce(list), list, i)
<1>. DEFINE keys == Sorted(KeysOf(list), KeyBefore)
            seqs == [k \in DOMAIN keys |-> PlansForGroup(list, keys[k])]
<1>1. ListsInOrder(keys, KeysOf(list))
  BY KeysAreListed
<1>2. Coalesce(list) = FlattenSeq(seqs)
  BY DEF Coalesce, KeysOf
<1>. HIDE DEF keys
<1>3. /\ DOMAIN keys = 1 .. Len(keys) /\ Len(keys) \in Nat
      /\ \A k \in 1 .. Len(keys) : keys[k] \in KeysOf(list)
      /\ \A j, k \in 1 .. Len(keys) : keys[j] = keys[k] => j = k
      /\ \A key \in KeysOf(list) : \E k \in 1 .. Len(keys) : keys[k] = key
  <2>1. /\ keys \in Seq(KeysOf(list)) /\ DOMAIN keys = 1 .. Len(keys) /\ Len(keys) \in Nat
        /\ \A j, k \in 1 .. Len(keys) : j < k => keys[j] # keys[k]
        /\ \A key \in KeysOf(list) : \E k \in 1 .. Len(keys) : keys[k] = key
    BY <1>1 DEF ListsInOrder
  <2>2. \A k \in 1 .. Len(keys) : keys[k] \in KeysOf(list)
    BY <2>1, ElementOfSeq
  <2>. QED  BY <2>1, <2>2
<1>4. ASSUME NEW k \in 1 .. Len(keys)
      PROVE  /\ seqs[k] \in Seq(PlanFor(list))
             /\ \A i \in DOMAIN list :
                   IF KeyOf(list[i]) = keys[k] THEN IsRead(seqs[k], list, i) ELSE NotRead(seqs[k], list, i)
  <2>1. seqs[k] = PlansForGroup(list, keys[k]) /\ keys[k] \in KeysOf(list)
    BY <1>3
  <2>. HIDE DEF seqs
  <2>. QED  BY <2>1, GroupReads
<1>5. seqs \in Seq(Seq(PlanFor(list))) /\ Len(seqs) = Len(keys)
  BY <1>3, <1>4
<1>. HIDE DEF seqs
<1>6. FlattenSeq(seqs) \in Seq(PlanFor(list))
  BY <1>5, Flattened
<1>7. ASSUME NEW i \in DOMAIN list PROVE IsRead(FlattenSeq(seqs), list, i)
  <2>1. KeyOf(list[i]) \in KeysOf(list)
    BY DEF KeysOf
  <2>2. PICK k \in 1 .. Len(keys) : keys[k] = KeyOf(list[i])
    BY <1>3, <2>1
  <2>3. IsRead(seqs[k], list, i)
    BY <1>4, <2>2
  <2>4. \A j \in 1 .. Len(keys) : j # k => NotRead(seqs[j], list, i)
    BY <1>3, <1>4, <2>2
  <2>5. \A j \in 1 .. Len(seqs) :
            /\ IsRead(seqs[j], list, i)
            /\ \A l \in 1 .. Len(seqs) : l # j => NotRead(seqs[l], list, i)
            => IsRead(FlattenSeq(seqs), list, i)
    BY <1>5, FlattenedReads
  <2>. QED  BY <1>5, <2>3, <2>4, <2>5
<1>. QED  BY <1>2, <1>6, <1>7

-----------------------------------------------------------------------------
(* What is read depends on the wanted registers only.                      *)

\* The runs are the stretches of the registers in W.
Divides(runs, W) ==
    /\ \A w \in W : \E r \in 1 .. Len(runs) : w \in runs[r].from .. runs[r].to - 1
    /\ \A r \in 1 .. Len(runs) :
          /\ runs[r].from \in Nat /\ runs[r].to \in Nat /\ runs[r].from < runs[r].to
          /\ runs[r].from \in W /\ runs[r].to - 1 \in W
          /\ \A a \in runs[r].from .. runs[r].to - 1 :
                \E w \in W : a <= w /\ w <= a + MaxGap /\ w < runs[r].to
    /\ Apart(runs)

LEMMA GroupDivides ==
    ASSUME targets \in Seq(Target), NEW key
    PROVE  /\ Divides(MergeByGap(targets, SortedIndices(targets, key)), Wanted(key))
           /\ Wanted(key) \subseteq Nat
<1>. DEFINE runs == MergeByGap(targets, SortedIndices(targets, key))
            W == Wanted(key)
<1>1. AreRunsOf(runs, targets, key)
  BY GroupHasRuns
<1>. HIDE DEF runs
<1>2. /\ runs \in Seq(Run)
      /\ \A r \in 1 .. Len(runs) : RunOf(targets, runs[r], key)
      /\ \A i \in DOMAIN targets : KeyOf(targets[i]) = key =>
            \E r \in 1 .. Len(runs) : \E m \in 1 .. Len(runs[r].members) : runs[r].members[m] = i
      /\ AreStretches(targets, runs)
  BY <1>1, Zenon DEF AreRunsOf
<1>3. \A w : w \in W <=> \E i \in DOMAIN targets :
                            KeyOf(targets[i]) = key /\ w \in targets[i].start .. EndOf(targets[i]) - 1
  BY DEF Wanted
<1>4. ASSUME NEW i \in DOMAIN targets
      PROVE  /\ targets[i].start \in Nat /\ EndOf(targets[i]) \in Nat
             /\ targets[i].start < EndOf(targets[i])
  <2>. DEFINE start == targets[i].start
              end == EndOf(targets[i])
  <2>1. targets[i] \in Target
    OBVIOUS
  <2>2. start \in Nat /\ end \in Nat /\ targets[i].quantity \in Nat \ {0} /\ end = start + targets[i].quantity
    BY <2>1, TargetFacts
  <2>. HIDE DEF start, end
  <2>3. start \in Nat /\ end \in Nat /\ start < end
    BY <2>2
  <2>. QED  BY <2>3 DEF start, end
<1>. HIDE DEF W
<1>5. ASSUME NEW r \in 1 .. Len(runs)
      PROVE  /\ runs[r].from \in Nat /\ runs[r].to \in Nat /\ runs[r].from < runs[r].to
             /\ IsStretch(targets, runs[r])
             /\ \A i \in Nat : Has(runs[r], i) =>
                   /\ i \in DOMAIN targets /\ KeyOf(targets[i]) = key
                   /\ runs[r].from <= targets[i].start /\ EndOf(targets[i]) <= runs[r].to
  <2>1. RunOf(targets, runs[r], key) /\ IsStretch(targets, runs[r])
    BY <1>2 DEF AreStretches
  <2>2. runs[r].from \in Nat /\ runs[r].to \in Nat /\ runs[r].from < runs[r].to
    BY <2>1 DEF RunOf, Run
  <2>. QED  BY <2>1, <2>2, Zenon DEF RunOf, Has
<1>6. ASSUME NEW w \in W PROVE w \in Nat /\ \E r \in 1 .. Len(runs) : w \in runs[r].from .. runs[r].to - 1
  <2>1. PICK i \in DOMAIN targets : KeyOf(targets[i]) = key /\ w \in targets[i].start .. EndOf(targets[i]) - 1
    BY <1>3
  <2>2. PICK r \in 1 .. Len(runs) : Has(runs[r], i)
    BY <1>2, <2>1 DEF Has
  <2>3. i \in Nat
    OBVIOUS
  <2>4. runs[r].from <= targets[i].start /\ EndOf(targets[i]) <= runs[r].to
        /\ runs[r].from \in Nat /\ runs[r].to \in Nat
    BY <1>5, <2>2, <2>3
  <2>5. targets[i].start \in Nat /\ EndOf(targets[i]) \in Nat
    BY <1>4
  <2>6. w \in Nat /\ w \in runs[r].from .. runs[r].to - 1
    <3>. DEFINE start == targets[i].start
                end == EndOf(targets[i])
                from == runs[r].from
                to == runs[r].to
    <3>1. /\ start \in Nat /\ end \in Nat /\ from \in Nat /\ to \in Nat
          /\ w \in start .. end - 1 /\ from <= start /\ end <= to
      BY <2>1, <2>4, <2>5
    <3>. HIDE DEF start, end, from, to
    <3>2. w \in Nat /\ w \in from .. to - 1
      BY <3>1
    <3>. QED  BY <3>2 DEF from, to
  <2>. QED  BY <2>6
<1>7. ASSUME NEW r \in 1 .. Len(runs)
      PROVE  /\ runs[r].from \in W /\ runs[r].to - 1 \in W
             /\ \A a \in runs[r].from .. runs[r].to - 1 :
                   \E w \in W : a <= w /\ w <= a + MaxGap /\ w < runs[r].to
  <2>1. MaxGap \in Nat
    BY CoalescerAssumption
  <2>2. runs[r].from \in W
    <3>1. PICK i \in Nat : Has(runs[r], i) /\ targets[i].start = runs[r].from
      BY <1>5 DEF IsStretch
    <3>2. i \in DOMAIN targets /\ KeyOf(targets[i]) = key
      BY <1>5, <3>1
    <3>3. runs[r].from \in targets[i].start .. EndOf(targets[i]) - 1
      BY <1>4, <3>1, <3>2
    <3>. QED  BY <1>3, <3>2, <3>3
  <2>3. runs[r].to - 1 \in W
    <3>1. PICK i \in Nat : Has(runs[r], i) /\ EndOf(targets[i]) = runs[r].to
      BY <1>5 DEF IsStretch
    <3>2. i \in DOMAIN targets /\ KeyOf(targets[i]) = key
      BY <1>5, <3>1
    <3>3. runs[r].to - 1 \in targets[i].start .. EndOf(targets[i]) - 1
      BY <1>4, <3>1, <3>2
    <3>. QED  BY <1>3, <3>2, <3>3
  <2>4. ASSUME NEW a \in runs[r].from .. runs[r].to - 1
        PROVE  \E w \in W : a <= w /\ w <= a + MaxGap /\ w < runs[r].to
    <3>1. PICK i \in Nat : Has(runs[r], i) /\ a < EndOf(targets[i]) /\ targets[i].start <= a + MaxGap
      BY <1>5 DEF IsStretch
    <3>2. i \in DOMAIN targets /\ KeyOf(targets[i]) = key /\ EndOf(targets[i]) <= runs[r].to
      BY <1>5, <3>1
    <3>. DEFINE start == targets[i].start
                end == EndOf(targets[i])
                to == runs[r].to
                w == IF a >= start THEN a ELSE start
    <3>3. /\ start \in Nat /\ end \in Nat /\ to \in Nat /\ a \in Nat
          /\ start < end /\ end <= to /\ a < end /\ start <= a + MaxGap
      <4>1. runs[r].from \in Nat /\ runs[r].to \in Nat
        BY <1>5
      <4>2. a \in Nat
        BY <4>1
      <4>. QED  BY <1>4, <3>1, <3>2, <4>1, <4>2
    <3>. HIDE DEF start, end, to
    <3>4. w \in start .. end - 1 /\ a <= w /\ w <= a + MaxGap /\ w < to
      BY <2>1, <3>3
    <3>. HIDE DEF w
    <3>5. w \in W
      BY <1>3, <3>2, <3>4 DEF start, end
    <3>. QED  BY <3>4, <3>5 DEF to
  <2>. QED  BY <2>2, <2>3, <2>4
<1>8. Divides(runs, W)
  <2>1. Apart(runs)
    BY <1>2 DEF AreStretches
  <2>. QED  BY <1>5, <1>6, <1>7, <2>1, Zenon DEF Divides
<1>. QED  BY <1>6, <1>8 DEF runs, W

\* The stretches start where the runs start, and end where they end.
LEMMA RunsAreStretches ==
    ASSUME NEW runs, Len(runs) \in Nat, NEW W \in SUBSET Nat, Divides(runs, W)
    PROVE  /\ \A r \in 1 .. Len(runs) :
                 StartsStretch(runs[r].from, W) /\ StretchEnd(runs[r].from, W) = runs[r].to - 1
           /\ \A a \in W : StartsStretch(a, W) => \E r \in 1 .. Len(runs) : a = runs[r].from
<1>1. MaxGap \in Nat
  BY CoalescerAssumption
<1>2. ASSUME NEW r \in 1 .. Len(runs)
      PROVE  /\ runs[r].from \in Nat /\ runs[r].to \in Nat /\ runs[r].from < runs[r].to
             /\ runs[r].from \in W /\ runs[r].to - 1 \in W
             /\ \A a \in runs[r].from .. runs[r].to - 1 :
                   \E w \in W : a <= w /\ w <= a + MaxGap /\ w < runs[r].to
  BY Zenon DEF Divides
\* A wanted register is in the run, far before it or far behind it.
<1>3. ASSUME NEW r \in 1 .. Len(runs), NEW w \in W
      PROVE  \/ w \in runs[r].from .. runs[r].to - 1
             \/ w + MaxGap + 1 < runs[r].from
             \/ w > runs[r].to + MaxGap
  <2>1. PICK q \in 1 .. Len(runs) : w \in runs[q].from .. runs[q].to - 1
    BY DEF Divides
  <2>. DEFINE from == runs[r].from
              to == runs[r].to
              qfrom == runs[q].from
              qto == runs[q].to
  <2>2. /\ from \in Nat /\ to \in Nat /\ qfrom \in Nat /\ qto \in Nat /\ w \in Nat
        /\ w \in qfrom .. qto - 1
    BY <1>2, <2>1
  <2>3. CASE q < r
    <3>1. from - qto > MaxGap
      BY <2>3 DEF Divides, Apart
    <3>. HIDE DEF from, to, qfrom, qto
    <3>2. w + MaxGap + 1 < from
      BY <1>1, <2>2, <3>1
    <3>. QED  BY <3>2 DEF from
  <2>4. CASE q > r
    <3>1. qfrom - to > MaxGap
      BY <2>4 DEF Divides, Apart
    <3>. HIDE DEF from, to, qfrom, qto
    <3>2. w > to + MaxGap
      BY <1>1, <2>2, <3>1
    <3>. QED  BY <3>2 DEF to
  <2>5. CASE q = r
    BY <2>1, <2>5
  <2>. QED  BY <2>3, <2>4, <2>5
<1>4. ASSUME NEW r \in 1 .. Len(runs) PROVE StartsStretch(runs[r].from, W)
  <2>. DEFINE from == runs[r].from
              to == runs[r].to
  <2>1. ASSUME NEW b \in from - MaxGap - 1 .. from - 1, b \in W PROVE FALSE
    <3>1. b \in from .. to - 1 \/ b + MaxGap + 1 < from \/ b > to + MaxGap
      BY <1>3, <2>1
    <3>2. from \in Nat /\ to \in Nat /\ from < to
      BY <1>2
    <3>. HIDE DEF from, to
    <3>. QED  BY <1>1, <3>1, <3>2
  <2>2. from \in W
    BY <1>2
  <2>. QED  BY <2>1, <2>2, Zenon DEF StartsStretch
<1>5. ASSUME NEW r \in 1 .. Len(runs) PROVE StretchEnd(runs[r].from, W) = runs[r].to - 1
  <2>. DEFINE from == runs[r].from
              to == runs[r].to
              B == {b \in W : b >= from /\ \A c \in b + 1 .. b + MaxGap + 1 : c \notin W}
  <2>1. from \in Nat /\ to \in Nat /\ from < to /\ to - 1 \in W
    BY <1>2
  <2>2. to - 1 \in B
    <3>1. ASSUME NEW c \in (to - 1) + 1 .. (to - 1) + MaxGap + 1, c \in W PROVE FALSE
      <4>1. c \in from .. to - 1 \/ c + MaxGap + 1 < from \/ c > to + MaxGap
        BY <1>3, <3>1
      <4>. HIDE DEF from, to
      <4>. QED  BY <1>1, <2>1, <3>1, <4>1
    <3>2. to - 1 >= from
      <4>. HIDE DEF from, to
      <4>. QED  BY <2>1
    <3>. QED  BY <2>1, <3>1, <3>2
  <2>3. ASSUME NEW b \in B PROVE to - 1 <= b
    <3>1. b \in Nat /\ b >= from /\ \A c \in b + 1 .. b + MaxGap + 1 : c \notin W
      OBVIOUS
    <3>2. SUFFICES ASSUME b < to - 1 PROVE FALSE
      <4>. HIDE DEF from, to, B
      <4>. QED  BY <2>1, <3>1
    <3>3. b + 1 \in from .. to - 1
      <4>. HIDE DEF from, to, B
      <4>. QED  BY <2>1, <3>1, <3>2
    <3>4. PICK w \in W : b + 1 <= w /\ w <= b + 1 + MaxGap
      BY <1>2, <3>3
    <3>5. w \in b + 1 .. b + MaxGap + 1
      BY <1>1, <3>1, <3>4
    <3>. QED  BY <3>1, <3>4, <3>5
  <2>. DEFINE last == to - 1
  <2>4. last \in B /\ last \in Int /\ \A b \in B : last <= b /\ b \in Int
    <3>1. last \in Int
      <4>. HIDE DEF to
      <4>. QED  BY <2>1
    <3>2. \A b \in B : b \in Int
      OBVIOUS
    <3>. QED  BY <2>2, <2>3, <3>1, <3>2
  <2>5. StretchEnd(from, W) = Min(B)
    BY Zenon DEF StretchEnd
  <2>6. Min(B) = last
    <3>. HIDE DEF B, last
    <3>1. \A b \in B : (\A c \in B : b <= c) <=> b = last
      BY <2>4
    <3>2. (CHOOSE b \in B : \A c \in B : b <= c) = last
      BY <2>4, <3>1
    <3>. QED  BY <3>2 DEF Min
  <2>. QED  BY <2>5, <2>6
<1>6. ASSUME NEW a \in W, StartsStretch(a, W) PROVE \E r \in 1 .. Len(runs) : a = runs[r].from
  <2>1. PICK r \in 1 .. Len(runs) : a \in runs[r].from .. runs[r].to - 1
    BY DEF Divides
  <2>. DEFINE from == runs[r].from
              to == runs[r].to
  <2>2. from \in Nat /\ to \in Nat /\ from \in W /\ a \in Nat /\ a \in from .. to - 1
    BY <1>2, <2>1
  <2>3. \A b \in a - MaxGap - 1 .. a - 1 : b \notin W
    BY <1>6 DEF StartsStretch
  <2>4. SUFFICES ASSUME a # from PROVE FALSE
    OBVIOUS
  <2>5. CASE a - 1 - MaxGap >= from
    <3>. DEFINE y == a - 1 - MaxGap
    <3>1. y \in from .. to - 1
      <4>. HIDE DEF from, to
      <4>. QED  BY <1>1, <2>2, <2>5
    <3>2. PICK w \in W : y <= w /\ w <= y + MaxGap
      <4>. HIDE DEF y
      <4>. QED  BY <1>2, <3>1
    <3>3. w \in a - MaxGap - 1 .. a - 1
      <4>. HIDE DEF from, to
      <4>. QED  BY <1>1, <2>2, <3>2
    <3>. QED  BY <2>3, <3>3
  <2>6. CASE ~ (a - 1 - MaxGap >= from)
    <3>1. from \in a - MaxGap - 1 .. a - 1
      <4>. HIDE DEF from, to
      <4>. QED  BY <1>1, <2>2, <2>4, <2>6
    <3>. QED  BY <2>2, <2>3, <3>1
  <2>. QED  BY <2>5, <2>6
<1>. QED  BY <1>4, <1>5, <1>6

\* The pieces of a run: every max registers from its start, to its end.
PiecesOf(from, to, max) ==
    {<<b, Min({max, to - b})>> : b \in {c \in from .. to - 1 : (c - from) % max = 0}}

\* What a list of requests reads, and that it does so in the order of addresses.
ReadsPieces(requests, asked) ==
    /\ {<<requests[k].start, requests[k].quantity>> : k \in 1 .. Len(requests)} = asked
    /\ \A j, k \in 1 .. Len(requests) : j < k => requests[j].start < requests[k].start

LEMMA RunAsks ==
    ASSUME NEW list \in Seq(Target), NEW key \in KeysOf(list), NEW run, RunOf(list, run, key),
           run.to <= AddressSpace
    PROVE  /\ ReadsPieces(PlansForRun(list, run, key), PiecesOf(run.from, run.to, MaxCount[key[2]]))
           /\ \A k \in 1 .. Len(PlansForRun(list, run, key)) :
                 PlansForRun(list, run, key)[k].start \in run.from .. run.to - 1
<1>. DEFINE max == MaxCount[key[2]]
            from == run.from
            to == run.to
            count == PieceCount(run, max)
            requests == PlansForRun(list, run, key)
<1>1. max \in Nat \ {0} /\ AddressSpace \in Nat
  <2>1. PICK i \in DOMAIN list : key = KeyOf(list[i])
    BY DEF KeysOf
  <2>2. list[i] \in Target
    BY <2>1
  <2>3. /\ MaxCount[list[i].type] \in Nat \ {0} /\ key = <<list[i].unit, list[i].type>>
        /\ AddressSpace \in Nat
    BY <2>1, <2>2, TargetFacts
  <2>. QED  BY <2>3
<1>2. from \in Nat /\ to \in Nat /\ from < to /\ to <= AddressSpace
  BY DEF RunOf, Run
<1>3. requests = [k \in 1 .. count |-> PlanOf(list, run, key, from + (k - 1) * max)]
  BY DEF PlansForRun, PieceCount
<1>4. Pieces(from, to, max, count)
  <2>1. count = (to - from + max - 1) \div max
    BY DEF PieceCount
  <2>. HIDE DEF from, to, max, count
  <2>. QED  BY <1>1, <1>2, <2>1, InOnePiece
<1>5. ASSUME NEW first \in Nat
      PROVE  /\ PlanOf(list, run, key, first).start = first % AddressSpace
             /\ PlanOf(list, run, key, first).quantity = Min({first + max, to}) - first
  BY DEF PlanOf, PieceEnd
<1>. HIDE DEF from, to, max, count, requests
<1>6. count \in Nat /\ Len(requests) = count
  BY <1>3, <1>4 DEF Pieces
<1>7. ASSUME NEW k \in 1 .. count
      PROVE  /\ Before(k, max) \in Nat /\ from + Before(k, max) < to
             /\ Before(k, max) = (k - 1) * max /\ k - 1 \in Nat
             /\ requests[k].start = from + Before(k, max)
             /\ requests[k].quantity = Min({max, to - (from + Before(k, max))})
  <2>1. Before(k, max) \in Nat /\ from + Before(k, max) < to
    BY <1>4 DEF Pieces
  <2>2. Before(k, max) = (k - 1) * max /\ k - 1 \in Nat
    BY <1>6 DEF Before
  <2>. DEFINE first == from + Before(k, max)
  <2>3. first \in Nat /\ first < AddressSpace /\ first < to
    BY <1>1, <1>2, <2>1
  <2>4. requests[k] = PlanOf(list, run, key, first)
    BY <1>3, <2>2
  <2>. HIDE DEF first
  <2>5. requests[k].start = first
    BY <1>1, <1>5, <2>3, <2>4, Remainder
  <2>6. requests[k].quantity = Min({max, to - first})
    <3>1. requests[k].quantity = Min({first + max, to}) - first
      BY <1>5, <2>3, <2>4
    <3>2. Min({first + max, to}) = IF first + max <= to THEN first + max ELSE to
      <4>1. first + max \in Int /\ to \in Int
        BY <1>1, <1>2, <2>3
      <4>. QED  BY <4>1, MinOfTwo
    <3>3. Min({max, to - first}) = IF max <= to - first THEN max ELSE to - first
      <4>1. max \in Int /\ to - first \in Int
        BY <1>1, <1>2, <2>3
      <4>. QED  BY <4>1, MinOfTwo
    <3>. QED  BY <1>1, <1>2, <2>3, <3>1, <3>2, <3>3
  <2>. QED  BY <2>1, <2>2, <2>5, <2>6 DEF first
<1>8. ASSUME NEW k \in 1 .. count
      PROVE  <<requests[k].start, requests[k].quantity>> \in PiecesOf(from, to, max)
  <2>. DEFINE g == Before(k, max)
              b == from + g
  <2>0. g \in Nat /\ b < to /\ g = (k - 1) * max
    BY <1>7
  <2>. HIDE DEF g
  <2>1. b \in from .. to - 1
    BY <1>2, <2>0
  <2>2. b - from = (k - 1) * max
    <3>1. b - from = g
      BY <1>2, <2>0
    <3>. QED  BY <2>0, <3>1
  <2>3. (b - from) % max = 0
    BY <1>1, <1>7, <2>2, Multiples
  <2>4. requests[k].start = b /\ requests[k].quantity = Min({max, to - b})
    BY <1>7 DEF g
  <2>. HIDE DEF b
  <2>. QED  BY <2>1, <2>3, <2>4 DEF PiecesOf
<1>9. ASSUME NEW b \in from .. to - 1, (b - from) % max = 0
      PROVE  \E k \in 1 .. count : <<requests[k].start, requests[k].quantity>> = <<b, Min({max, to - b})>>
  <2>. DEFINE n == b - from
              d == n \div max
  <2>1. n \in Nat /\ b = from + n
    BY <1>2
  <2>2. d \in Nat /\ d * max = n
    <3>. HIDE DEF n
    <3>1. n % max = 0
      BY <1>9 DEF n
    <3>2. d \in Nat
      BY <1>1, <2>1, Division
    <3>. QED  BY <1>1, <2>1, <3>1, <3>2, Multiples
  <2>3. d + 1 \in 1 .. count
    <3>1. (b - from) \div max + 1 \in 1 .. count
      BY <1>4 DEF Pieces
    <3>. QED  BY <3>1
  <2>. HIDE DEF d, n
  <2>4. Before(d + 1, max) = n
    <3>1. (d + 1) - 1 = d
      BY <2>2
    <3>. QED  BY <2>2, <3>1 DEF Before
  <2>. DEFINE k == d + 1
  <2>5. requests[k].start = b /\ requests[k].quantity = Min({max, to - b})
    BY <1>7, <2>1, <2>3, <2>4
  <2>. QED  BY <2>3, <2>5
<1>10. ASSUME NEW j \in 1 .. count, NEW k \in 1 .. count, j < k
       PROVE  requests[j].start < requests[k].start
  <2>. DEFINE x == j - 1
              y == k - 1
  <2>1. x \in Nat /\ y \in Nat /\ x + 1 <= y
    BY <1>6, <1>10
  <2>2. requests[j].start = from + x * max /\ requests[k].start = from + y * max
    BY <1>7
  <2>. HIDE DEF x, y
  <2>3. (x + 1) * max <= y * max /\ (x + 1) * max \in Nat /\ y * max \in Nat
    BY <1>1, <2>1, ProductsGrow
  <2>4. (x + 1) * max = x * max + max /\ x * max \in Nat
    BY <1>1, <2>1
  <2>5. from + x * max < from + y * max
    BY <1>1, <1>2, <2>3, <2>4
  <2>. QED  BY <2>2, <2>5
<1>11. {<<requests[k].start, requests[k].quantity>> : k \in 1 .. Len(requests)} = PiecesOf(from, to, max)
  <2>1. \A p \in PiecesOf(from, to, max) :
            \E k \in 1 .. count : <<requests[k].start, requests[k].quantity>> = p
    <3>. TAKE p \in PiecesOf(from, to, max)
    <3>1. PICK b \in {c \in from .. to - 1 : (c - from) % max = 0} : p = <<b, Min({max, to - b})>>
      BY DEF PiecesOf
    <3>2. \E k \in 1 .. count : <<requests[k].start, requests[k].quantity>> = <<b, Min({max, to - b})>>
      BY <1>9
    <3>. QED  BY <3>1, <3>2, Zenon
  <2>. QED  BY <1>6, <1>8, <2>1
<1>12. ReadsPieces(requests, PiecesOf(from, to, max))
  BY <1>6, <1>10, <1>11 DEF ReadsPieces
<1>13. ASSUME NEW k \in 1 .. Len(requests) PROVE requests[k].start \in from .. to - 1
  <2>. DEFINE g == Before(k, max)
  <2>1. g \in Nat /\ from + g < to /\ requests[k].start = from + g
    BY <1>6, <1>7
  <2>. HIDE DEF g
  <2>. QED  BY <1>2, <2>1
<1>. QED  BY <1>12, <1>13 DEF requests, from, to, max

\* The place of one request is before that of another in the flattened list when its list is
\* in front, or when it is in front in their list.
LEMMA PlacesInOrder ==
    ASSUME NEW seqs, NEW n \in Nat, NEW before, NEW flat, Placed(seqs, n, before, flat),
           NEW k \in 1 .. n, NEW l \in 1 .. n, NEW i \in 1 .. Len(seqs[k]), NEW j \in 1 .. Len(seqs[l]),
           before[k] + i < before[l] + j
    PROVE  k < l \/ (k = l /\ i < j)
<1>1. /\ before[k] \in Nat /\ before[l] \in Nat /\ Len(seqs[k]) \in Nat /\ Len(seqs[l]) \in Nat
      /\ l < k => before[l] + Len(seqs[l]) <= before[k]
  BY DEF Placed
<1>2. i \in Nat /\ j \in Nat /\ i > 0 /\ j <= Len(seqs[l])
  BY <1>1
<1>3. ~ l < k
  BY <1>1, <1>2
<1>4. k = l => i < j
  BY <1>1, <1>2
<1>. QED  BY <1>3, <1>4

LEMMA RunIsOfKey ==
    ASSUME NEW list \in Seq(Target), NEW key \in KeysOf(list), NEW run, RunOf(list, run, key),
           NEW k \in 1 .. Len(PlansForRun(list, run, key))
    PROVE  KeyOf(PlansForRun(list, run, key)[k]) = key
<1>1. key = <<key[1], key[2]>>
  BY DEF KeysOf, KeyOf
<1>2. \A first : KeyOf(PlanOf(list, run, key, first)) = <<key[1], key[2]>>
  BY DEF PlanOf, KeyOf
<1>3. k \in DOMAIN PlansForRun(list, run, key)
  <2>1. PlansForRun(list, run, key) \in Seq(PlanFor(list))
    BY RunReads
  <2>. QED  BY <2>1
<1>. QED  BY <1>1, <1>2, <1>3 DEF PlansForRun

\* The requests for a group, from the requests for its runs.
GroupOf(flat, list, key, runs, before) ==
    /\ Placed([r \in 1 .. Len(runs) |-> PlansForRun(list, runs[r], key)], Len(runs), before, flat)
    /\ \A p \in 1 .. Len(flat) : \E r \in 1 .. Len(runs) :
          \E k \in 1 .. Len(PlansForRun(list, runs[r], key)) :
             p = before[r] + k /\ flat[p] = PlansForRun(list, runs[r], key)[k]
    /\ \A r \in 1 .. Len(runs) : \A k \in 1 .. Len(PlansForRun(list, runs[r], key)) :
          before[r] + k \in 1 .. Len(flat) /\ flat[before[r] + k] = PlansForRun(list, runs[r], key)[k]

LEMMA GroupIsPlaced ==
    ASSUME NEW list \in Seq(Target), NEW key \in KeysOf(list)
    PROVE  \E before : GroupOf(PlansForGroup(list, key), list, key,
                               MergeByGap(list, SortedIndices(list, key)), before)
<1>. DEFINE runs == MergeByGap(list, SortedIndices(list, key))
            seqs == [r \in 1 .. Len(runs) |-> PlansForRun(list, runs[r], key)]
            flat == PlansForGroup(list, key)
<1>1. runs \in Seq(Run) /\ \A r \in 1 .. Len(runs) : RunOf(list, runs[r], key)
  <2>1. AreRunsOf(runs, list, key)
    BY GroupHasRuns
  <2>. HIDE DEF runs
  <2>. QED  BY <2>1 DEF AreRunsOf
<1>2. flat = FlattenSeq([r \in DOMAIN runs |-> PlansForRun(list, runs[r], key)])
  BY DEF PlansForGroup
<1>. HIDE DEF runs, flat
<1>3. DOMAIN runs = 1 .. Len(runs) /\ Len(runs) \in Nat
  BY <1>1
<1>4. flat = FlattenSeq(seqs)
  BY <1>2, <1>3
<1>5. \A r \in 1 .. Len(runs) : PlansForRun(list, runs[r], key) \in Seq(PlanFor(list))
  BY <1>1, RunReads
<1>6. seqs \in Seq(Seq(PlanFor(list))) /\ Len(seqs) = Len(runs)
      /\ \A r \in 1 .. Len(runs) : seqs[r] = PlansForRun(list, runs[r], key)
  BY <1>3, <1>5
<1>7. PICK before : Placed(seqs, Len(runs), before, flat)
  <2>. HIDE DEF seqs
  <2>1. \E before : Placed(seqs, Len(seqs), before, FlattenSeq(seqs))
    BY <1>6, Flattened
  <2>. QED  BY <1>4, <1>6, <2>1
<1>. HIDE DEF seqs
<1>8. ASSUME NEW r \in 1 .. Len(runs), NEW k \in 1 .. Len(PlansForRun(list, runs[r], key))
      PROVE  before[r] + k \in 1 .. Len(flat) /\ flat[before[r] + k] = PlansForRun(list, runs[r], key)[k]
  <2>1. seqs[r] = PlansForRun(list, runs[r], key)
    BY <1>6
  <2>2. \A j \in 1 .. Len(seqs[r]) : before[r] + j \in 1 .. Len(flat) /\ flat[before[r] + j] = seqs[r][j]
    BY <1>7, Zenon DEF Placed
  <2>. QED  BY <1>8, <2>1, <2>2, Zenon
<1>9. ASSUME NEW p \in 1 .. Len(flat)
      PROVE  \E r \in 1 .. Len(runs) : \E k \in 1 .. Len(PlansForRun(list, runs[r], key)) :
                p = before[r] + k /\ flat[p] = PlansForRun(list, runs[r], key)[k]
  <2>1. PICK r \in 1 .. Len(runs) : \E k \in 1 .. Len(seqs[r]) : p = before[r] + k
    BY <1>7 DEF Placed
  <2>2. PICK k \in 1 .. Len(seqs[r]) : p = before[r] + k
    BY <2>1
  <2>3. k \in 1 .. Len(PlansForRun(list, runs[r], key))
    BY <1>6, <2>2
  <2>4. flat[p] = PlansForRun(list, runs[r], key)[k]
    BY <1>8, <2>2, <2>3
  <2>. QED  BY <2>2, <2>3, <2>4
<1>10. GroupOf(flat, list, key, runs, before)
  BY <1>7, <1>8, <1>9, Zenon DEF GroupOf, seqs
<1>. QED  BY <1>10 DEF flat, runs

LEMMA GroupAsks ==
    ASSUME targets \in Seq(Target), NEW key \in KeysOf(targets),
           Wanted(key) \subseteq 0 .. AddressSpace - 1
    PROVE  ReadsPieces(PlansForGroup(targets, key), ReferenceRequests(key))
<1>. DEFINE runs == MergeByGap(targets, SortedIndices(targets, key))
            W == Wanted(key)
            max == MaxCount[key[2]]
            flat == PlansForGroup(targets, key)
            Requests(r) == PlansForRun(targets, runs[r], key)
<1>1. Divides(runs, W) /\ W \subseteq Nat /\ W \subseteq 0 .. AddressSpace - 1
  BY GroupDivides
<1>2. PICK before : GroupOf(flat, targets, key, runs, before)
  BY GroupIsPlaced
<1>3. runs \in Seq(Run) /\ \A r \in 1 .. Len(runs) : RunOf(targets, runs[r], key)
  <2>1. AreRunsOf(runs, targets, key)
    BY GroupHasRuns
  <2>. HIDE DEF runs
  <2>. QED  BY <2>1 DEF AreRunsOf
<1>4. ReferenceRequests(key) = UNION {RequestsFrom(a, key) : a \in {b \in W : StartsStretch(b, W)}}
  BY DEF ReferenceRequests
<1>5. \A a : RequestsFrom(a, key) =
                {<<b, Min({max, StretchEnd(a, W) + 1 - b})>> :
                    b \in {c \in a .. StretchEnd(a, W) : (c - a) % max = 0}}
  BY DEF RequestsFrom
<1>. HIDE DEF runs, W, flat, max
<1>6. Len(runs) \in Nat /\ AddressSpace \in Nat
  BY <1>3, CoalescerAssumption
<1>7. ASSUME NEW r \in 1 .. Len(runs)
      PROVE  /\ runs[r].from \in Nat /\ runs[r].to \in Nat /\ runs[r].to <= AddressSpace
             /\ runs[r].from \in W
  <2>1. runs[r].from \in Nat /\ runs[r].to \in Nat /\ runs[r].to - 1 \in W /\ runs[r].from \in W
    BY <1>1, Zenon DEF Divides
  <2>2. runs[r].to - 1 \in 0 .. AddressSpace - 1
    BY <1>1, <2>1
  <2>3. runs[r].to <= AddressSpace
    <3>. DEFINE to == runs[r].to
    <3>1. to \in Nat /\ to - 1 \in 0 .. AddressSpace - 1
      BY <2>1, <2>2
    <3>. HIDE DEF to
    <3>2. to <= AddressSpace
      BY <1>6, <3>1
    <3>. QED  BY <3>2 DEF to
  <2>. QED  BY <2>1, <2>3
<1>8. /\ \A r \in 1 .. Len(runs) :
            StartsStretch(runs[r].from, W) /\ StretchEnd(runs[r].from, W) = runs[r].to - 1
      /\ \A a \in W : StartsStretch(a, W) => \E r \in 1 .. Len(runs) : a = runs[r].from
  BY <1>1, <1>6, RunsAreStretches
<1>9. ASSUME NEW r \in 1 .. Len(runs)
      PROVE  RequestsFrom(runs[r].from, key) = PiecesOf(runs[r].from, runs[r].to, max)
  <2>. DEFINE to == runs[r].to
              from == runs[r].from
              last == StretchEnd(from, W)
  <2>1. last = to - 1 /\ to \in Nat
    BY <1>7, <1>8
  <2>2. RequestsFrom(from, key) =
           {<<b, Min({max, last + 1 - b})>> : b \in {c \in from .. last : (c - from) % max = 0}}
    BY <1>5
  <2>. HIDE DEF to, from, last
  <2>3. \A b \in {c \in from .. last : (c - from) % max = 0} : last + 1 - b = to - b
    BY <1>7, <2>1
  <2>4. RequestsFrom(from, key) = PiecesOf(from, to, max)
    <3>1. RequestsFrom(from, key) =
             {<<b, Min({max, to - b})>> : b \in {c \in from .. last : (c - from) % max = 0}}
      BY <2>2, <2>3
    <3>. QED  BY <2>1, <3>1, Zenon DEF PiecesOf
  <2>. QED  BY <2>4 DEF from, to
<1>10. \A x : x \in ReferenceRequests(key) <=>
                 \E r \in 1 .. Len(runs) : x \in PiecesOf(runs[r].from, runs[r].to, max)
  BY <1>4, <1>7, <1>8, <1>9
<1>11. ASSUME NEW r \in 1 .. Len(runs)
       PROVE  /\ ReadsPieces(Requests(r), PiecesOf(runs[r].from, runs[r].to, max))
              /\ \A k \in 1 .. Len(Requests(r)) : Requests(r)[k].start \in runs[r].from .. runs[r].to - 1
  BY <1>3, <1>7, RunAsks DEF max
<1>. HIDE DEF Requests
<1>12. /\ \A p \in 1 .. Len(flat) : \E r \in 1 .. Len(runs) : \E k \in 1 .. Len(Requests(r)) :
             p = before[r] + k /\ flat[p] = Requests(r)[k]
       /\ \A r \in 1 .. Len(runs) : \A k \in 1 .. Len(Requests(r)) :
             before[r] + k \in 1 .. Len(flat) /\ flat[before[r] + k] = Requests(r)[k]
  BY <1>2, Zenon DEF GroupOf, Requests
<1>13. ASSUME NEW p \in 1 .. Len(flat)
       PROVE  <<flat[p].start, flat[p].quantity>> \in ReferenceRequests(key)
  <2>1. PICK r \in 1 .. Len(runs) : \E k \in 1 .. Len(Requests(r)) : flat[p] = Requests(r)[k]
    BY <1>12
  <2>2. PICK k \in 1 .. Len(Requests(r)) : flat[p] = Requests(r)[k]
    BY <2>1
  <2>3. <<flat[p].start, flat[p].quantity>> \in PiecesOf(runs[r].from, runs[r].to, max)
    BY <1>11, <2>2 DEF ReadsPieces
  <2>. QED  BY <1>10, <2>3
<1>14. ASSUME NEW x \in ReferenceRequests(key)
       PROVE  \E p \in 1 .. Len(flat) : x = <<flat[p].start, flat[p].quantity>>
  <2>1. PICK r \in 1 .. Len(runs) : x \in PiecesOf(runs[r].from, runs[r].to, max)
    BY <1>10
  <2>2. PICK k \in 1 .. Len(Requests(r)) : x = <<Requests(r)[k].start, Requests(r)[k].quantity>>
    BY <1>11, <2>1 DEF ReadsPieces
  <2>3. before[r] + k \in 1 .. Len(flat) /\ flat[before[r] + k] = Requests(r)[k]
    BY <1>12
  <2>. QED  BY <2>2, <2>3
<1>15. ASSUME NEW p \in 1 .. Len(flat), NEW q \in 1 .. Len(flat), p < q
       PROVE  flat[p].start < flat[q].start
  <2>1. PICK r \in 1 .. Len(runs) :
            \E k \in 1 .. Len(Requests(r)) : p = before[r] + k /\ flat[p] = Requests(r)[k]
    BY <1>12
  <2>2. PICK k \in 1 .. Len(Requests(r)) : p = before[r] + k /\ flat[p] = Requests(r)[k]
    BY <2>1
  <2>3. PICK s \in 1 .. Len(runs) :
            \E l \in 1 .. Len(Requests(s)) : q = before[s] + l /\ flat[q] = Requests(s)[l]
    BY <1>12
  <2>4. PICK l \in 1 .. Len(Requests(s)) : q = before[s] + l /\ flat[q] = Requests(s)[l]
    BY <2>3
  <2>5. r < s \/ (r = s /\ k < l)
    <3>. DEFINE seqs == [x \in 1 .. Len(runs) |-> PlansForRun(targets, runs[x], key)]
    <3>1. Placed(seqs, Len(runs), before, flat)
      BY <1>2, Zenon DEF GroupOf
    <3>2. seqs[r] = Requests(r) /\ seqs[s] = Requests(s)
      BY DEF Requests
    <3>. HIDE DEF seqs
    <3>3. k \in 1 .. Len(seqs[r]) /\ l \in 1 .. Len(seqs[s]) /\ before[r] + k < before[s] + l
      BY <1>15, <2>2, <2>4, <3>2
    <3>. QED  BY <1>6, <3>1, <3>3, PlacesInOrder
  <2>6. CASE r = s /\ k < l
    BY <1>11, <2>2, <2>4, <2>6 DEF ReadsPieces
  <2>7. CASE r < s
    <3>. DEFINE x == Requests(r)[k].start
                y == Requests(s)[l].start
                from == runs[r].from
                to == runs[r].to
                sfrom == runs[s].from
                sto == runs[s].to
    <3>1. x \in from .. to - 1 /\ y \in sfrom .. sto - 1
      BY <1>11
    <3>2. sfrom - to > MaxGap /\ MaxGap \in Nat
      BY <1>1, <2>7, CoalescerAssumption DEF Divides, Apart
    <3>3. from \in Nat /\ to \in Nat /\ sfrom \in Nat /\ sto \in Nat
      BY <1>7
    <3>. HIDE DEF x, y, from, to, sfrom, sto
    <3>4. x < y
      BY <3>1, <3>2, <3>3
    <3>. QED  BY <2>2, <2>4, <3>4 DEF x, y
  <2>. QED  BY <2>5, <2>6, <2>7
<1>16. {<<flat[p].start, flat[p].quantity>> : p \in 1 .. Len(flat)} = ReferenceRequests(key)
  BY <1>13, <1>14
<1>. QED  BY <1>15, <1>16 DEF ReadsPieces, flat

\* The requests of one key stand together, at places at + 1, at + 2 and so on.
StandAt(flat, requests, key, at) ==
    /\ at \in Nat
    /\ \A k \in 1 .. Len(requests) : at + k \in 1 .. Len(flat) /\ flat[at + k] = requests[k]
    /\ \A k \in 1 .. Len(requests) : KeyOf(requests[k]) = key
    /\ \A p \in 1 .. Len(flat) : KeyOf(flat[p]) = key => \E k \in 1 .. Len(requests) : p = at + k

LEMMA GroupIsOfKey ==
    ASSUME NEW list \in Seq(Target), NEW key \in KeysOf(list), NEW p \in 1 .. Len(PlansForGroup(list, key))
    PROVE  KeyOf(PlansForGroup(list, key)[p]) = key
<1>. DEFINE runs == MergeByGap(list, SortedIndices(list, key))
<1>1. PICK before : GroupOf(PlansForGroup(list, key), list, key, runs, before)
  BY GroupIsPlaced
<1>2. \A r \in 1 .. Len(runs) : RunOf(list, runs[r], key)
  <2>1. AreRunsOf(runs, list, key)
    BY GroupHasRuns
  <2>. HIDE DEF runs
  <2>. QED  BY <2>1 DEF AreRunsOf
<1>. HIDE DEF runs
<1>3. PICK r \in 1 .. Len(runs) : \E k \in 1 .. Len(PlansForRun(list, runs[r], key)) :
          PlansForGroup(list, key)[p] = PlansForRun(list, runs[r], key)[k]
  BY <1>1 DEF GroupOf
<1>4. PICK k \in 1 .. Len(PlansForRun(list, runs[r], key)) :
          PlansForGroup(list, key)[p] = PlansForRun(list, runs[r], key)[k]
  BY <1>3
<1>. QED  BY <1>2, <1>4, RunIsOfKey

LEMMA GroupsStandTogether ==
    ASSUME NEW list \in Seq(Target), NEW key \in KeysOf(list)
    PROVE  \E at : StandAt(Coalesce(list), PlansForGroup(list, key), key, at)
<1>. DEFINE keys == Sorted(KeysOf(list), KeyBefore)
            seqs == [k \in DOMAIN keys |-> PlansForGroup(list, keys[k])]
            flat == Coalesce(list)
            n == Len(keys)
<1>1. ListsInOrder(keys, KeysOf(list))
  BY KeysAreListed
<1>2. flat = FlattenSeq(seqs)
  BY DEF Coalesce, KeysOf
<1>. HIDE DEF keys, flat
<1>3. /\ DOMAIN keys = 1 .. n /\ n \in Nat
      /\ \A k \in 1 .. n : keys[k] \in KeysOf(list)
      /\ \A j, k \in 1 .. n : keys[j] = keys[k] => j = k
      /\ \E k \in 1 .. n : keys[k] = key
  <2>1. /\ keys \in Seq(KeysOf(list)) /\ DOMAIN keys = 1 .. Len(keys) /\ Len(keys) \in Nat
        /\ \A j, k \in 1 .. Len(keys) : j < k => keys[j] # keys[k]
        /\ \E k \in 1 .. Len(keys) : keys[k] = key
    BY <1>1 DEF ListsInOrder
  <2>2. \A k \in 1 .. Len(keys) : keys[k] \in KeysOf(list)
    BY <2>1, ElementOfSeq
  <2>. QED  BY <2>1, <2>2
<1>. HIDE DEF n
<1>4. \A k \in 1 .. n : PlansForGroup(list, keys[k]) \in Seq(PlanFor(list))
  BY <1>3, GroupReads
<1>5. /\ seqs \in Seq(Seq(PlanFor(list))) /\ Len(seqs) = n
      /\ \A k \in 1 .. n : seqs[k] = PlansForGroup(list, keys[k])
  BY <1>3, <1>4
<1>. HIDE DEF seqs
<1>6. PICK before : Placed(seqs, n, before, flat)
  <2>1. \E before : Placed(seqs, Len(seqs), before, FlattenSeq(seqs))
    BY <1>5, Flattened
  <2>. QED  BY <1>2, <1>5, <2>1
<1>7. /\ \A k \in 1 .. n :
            /\ before[k] \in Nat
            /\ \A j \in 1 .. Len(seqs[k]) : before[k] + j \in 1 .. Len(flat) /\ flat[before[k] + j] = seqs[k][j]
      /\ \A p \in 1 .. Len(flat) : \E k \in 1 .. n : \E j \in 1 .. Len(seqs[k]) : p = before[k] + j
  BY <1>6, Zenon DEF Placed
<1>8. PICK k \in 1 .. n : keys[k] = key
  BY <1>3
<1>9. ASSUME NEW l \in 1 .. n, NEW j \in 1 .. Len(seqs[l]) PROVE KeyOf(seqs[l][j]) = keys[l]
  BY <1>3, <1>5, GroupIsOfKey
<1>10. ASSUME NEW p \in 1 .. Len(flat), KeyOf(flat[p]) = key
       PROVE  \E j \in 1 .. Len(seqs[k]) : p = before[k] + j
  <2>1. PICK l \in 1 .. n : \E j \in 1 .. Len(seqs[l]) : p = before[l] + j
    BY <1>7
  <2>2. PICK j \in 1 .. Len(seqs[l]) : p = before[l] + j
    BY <2>1
  <2>3. flat[p] = seqs[l][j]
    BY <1>7, <2>2
  <2>4. keys[l] = key
    BY <1>9, <1>10, <2>3
  <2>5. l = k
    BY <1>3, <1>8, <2>4
  <2>. QED  BY <2>2, <2>5
<1>11. seqs[k] = PlansForGroup(list, key)
  BY <1>5, <1>8
<1>12. StandAt(flat, seqs[k], key, before[k])
  BY <1>7, <1>8, <1>9, <1>10 DEF StandAt
<1>. QED  BY <1>11, <1>12 DEF flat

LEMMA NothingToRead == Coalesce(<<>>) = <<>>
<1>. DEFINE none == <<>>
            keys == Sorted(KeysOf(none), KeyBefore)
            seqs == [k \in DOMAIN keys |-> PlansForGroup(none, keys[k])]
<1>1. none \in Seq(Target) /\ KeysOf(none) = {}
  BY DEF KeysOf
<1>2. Coalesce(none) = FlattenSeq(seqs)
  BY DEF Coalesce, KeysOf
<1>3. ListsInOrder(keys, KeysOf(none))
  <2>. HIDE DEF none
  <2>. QED  BY <1>1, KeysAreListed
<1>. HIDE DEF keys
<1>4. DOMAIN keys = {}
  <2>1. keys \in Seq({}) /\ Len(keys) \in Nat /\ DOMAIN keys = 1 .. Len(keys)
    BY <1>1, <1>3 DEF ListsInOrder
  <2>2. \A k \in 1 .. Len(keys) : FALSE
    BY <2>1
  <2>. QED  BY <2>1, <2>2
<1>5. seqs = <<>> /\ Len(seqs) = 0
  BY <1>4
<1>. HIDE DEF seqs
<1>6. FlattenSeq(seqs) = seqs
  BY <1>5 DEF FlattenSeq
<1>. QED  BY <1>2, <1>5, <1>6 DEF none

-----------------------------------------------------------------------------
(* The theorems.                                                           *)

\* The inductive invariant: the requests are those for the targets there are.
Books ==
    /\ targets \in Seq(TargetChoices) /\ Len(targets) <= MaxTargets
    /\ plans = Coalesce(targets)

LEMMA ChoicesAreTargets ==
    ASSUME NEW list \in Seq(TargetChoices)
    PROVE  list \in Seq(Target)
<1>1. TargetChoices \subseteq Target
  BY CoalescerAssumption DEF Target
<1>. QED  BY <1>1, SeqMonotonic

LEMMA PlansReadTargets ==
    ASSUME Books
    PROVE  /\ targets \in Seq(Target) /\ plans \in Seq(PlanFor(targets))
           /\ \A i \in DOMAIN targets : IsRead(plans, targets, i)
<1>1. targets \in Seq(Target)
  BY ChoicesAreTargets DEF Books
<1>. QED  BY <1>1, EveryTargetIsRead DEF Books

LEMMA BooksInductive == Spec => []Books
<1>1. Init => Books
  <2>. SUFFICES ASSUME Init PROVE Books
    OBVIOUS
  <2>1. targets = <<>> /\ plans = <<>> /\ MaxTargets \in Nat
    BY CoalescerAssumption DEF Init
  <2>2. <<>> \in Seq(TargetChoices) /\ Len(<<>>) = 0
    OBVIOUS
  <2>3. Coalesce(targets) = <<>>
    BY <2>1, NothingToRead, Zenon
  <2>. QED  BY <2>1, <2>2, <2>3 DEF Books
<1>2. Books /\ [Next]_vars => Books'
  <2>. SUFFICES ASSUME Books, [Next]_vars PROVE Books'
    OBVIOUS
  <2>1. targets \in Seq(TargetChoices) /\ Len(targets) <= MaxTargets /\ Len(targets) \in Nat
    BY DEF Books
  <2>2. MaxTargets \in Nat
    BY CoalescerAssumption
  <2>3. ASSUME targets' \in Seq(TargetChoices), Len(targets') <= MaxTargets, plans' = Coalesce(targets')
        PROVE  Books'
    BY <2>3 DEF Books
  <2>4. ASSUME NEW t \in TargetChoices, AddTarget(t) PROVE Books'
    <3>1. targets' = Append(targets, t) /\ plans' = Coalesce(targets') /\ Len(targets) < MaxTargets
      BY <2>4 DEF AddTarget
    <3>2. Append(targets, t) \in Seq(TargetChoices) /\ Len(Append(targets, t)) = Len(targets) + 1
      BY <2>1
    <3>3. Len(targets') <= MaxTargets
      BY <2>1, <2>2, <3>1, <3>2
    <3>. QED  BY <2>3, <3>1, <3>2, <3>3
  <2>5. ASSUME NEW i \in DOMAIN targets, RemoveTarget(i) PROVE Books'
    <3>1. targets' = RemoveAt(targets, i) /\ plans' = Coalesce(targets')
      BY <2>5 DEF RemoveTarget
    <3>. DEFINE front == SubSeq(targets, 1, i - 1)
                back == SubSeq(targets, i + 1, Len(targets))
    <3>2. i \in 1 .. Len(targets)
      BY <2>1
    <3>3. /\ front \in Seq(TargetChoices) /\ Len(front) = i - 1
          /\ back \in Seq(TargetChoices) /\ Len(back) = Len(targets) - i
      BY <2>1, <3>2
    <3>. HIDE DEF front, back
    <3>4. RemoveAt(targets, i) = front \o back
      BY Zenon DEF RemoveAt, front, back
    <3>5. front \o back \in Seq(TargetChoices) /\ Len(front \o back) = Len(targets) - 1
      BY <2>1, <3>2, <3>3
    <3>6. Len(targets') <= MaxTargets
      BY <2>1, <2>2, <3>1, <3>4, <3>5
    <3>. QED  BY <2>3, <3>1, <3>4, <3>5, <3>6
  <2>6. CASE UNCHANGED vars
    BY <2>6 DEF vars, Books
  <2>. QED  BY <2>4, <2>5, <2>6 DEF Next
<1>. QED  BY <1>1, <1>2, PTL DEF Spec

\* The requests have the wire's types, and no slice is empty (coalesce()).
THEOREM TypeCorrect == Spec => []TypeOK
<1>1. Books => TypeOK
  <2>. SUFFICES ASSUME Books PROVE TypeOK
    OBVIOUS
  <2>1. /\ targets \in Seq(TargetChoices) /\ Len(targets) <= MaxTargets
        /\ plans \in Seq(PlanFor(targets)) /\ MaxTargets \in Nat
    BY CoalescerAssumption, PlansReadTargets DEF Books
  <2>2. \A i \in DOMAIN targets : targets[i] \in TargetChoices /\ i \in 1 .. MaxTargets
    BY <2>1
  <2>3. ASSUME NEW p \in DOMAIN plans
        PROVE  /\ plans[p].unit \in Nat /\ plans[p].type \in DOMAIN MaxCount
               /\ plans[p].start \in 0 .. AddressSpace - 1 /\ plans[p].quantity \in Nat
               /\ \A k \in DOMAIN plans[p].covered : plans[p].covered[k] \in Slice
    <3>1. plans[p] \in PlanFor(targets)
      BY <2>1
    <3>2. plans[p].covered \in Seq(SliceOf(targets))
      BY <3>1 DEF PlanFor
    <3>3. ASSUME NEW k \in DOMAIN plans[p].covered PROVE plans[p].covered[k] \in Slice
      <4>1. plans[p].covered[k] \in SliceOf(targets)
        BY <3>2
      <4>. QED  BY <2>2, <4>1 DEF SliceOf, Slice
    <3>. QED  BY <3>1, <3>3 DEF PlanFor
  <2>. QED  BY <2>2, <2>3 DEF TypeOK
<1>. QED  BY <1>1, BooksInductive, PTL

\* Every register of every target is read by exactly one request, which knows where in its
\* answer the value stands (coalesce(), mergeByGap(), appendPlansForRun()).
THEOREM ReadsCorrect == Spec => []ReadsAreExact
<1>1. Books => ReadsAreExact
  <2>. SUFFICES ASSUME Books, NEW i \in DOMAIN targets, NEW o \in 0 .. targets[i].quantity - 1,
                       targets[i].start + o < AddressSpace
                PROVE  /\ Cardinality(Carriers(i, o)) = 1
                       /\ \A carrier \in Carriers(i, o) :
                             LET p == plans[carrier[1]]
                                 c == p.covered[carrier[2]]
                             IN  /\ <<p.unit, p.type>> = KeyOf(targets[i])
                                 /\ c.offsetInPlan + c.count <= p.quantity
                                 /\ o > 0 => \E before \in Carriers(i, o - 1) :
                                                carrier[1] - before[1] \in 0 .. 1
                                 /\ p.start + c.offsetInPlan + (o - c.offsetInTarget) = targets[i].start + o
    BY DEF ReadsAreExact
  <2>1. targets[i] \in Target /\ DOMAIN plans = 1 .. Len(plans)
    <3>1. targets \in Seq(Target) /\ plans \in Seq(PlanFor(targets))
      BY PlansReadTargets
    <3>. QED  BY <3>1
  <2>2. PICK at : ReadAt(plans, targets, i, at)
    BY PlansReadTargets DEF IsRead
  <2>3. ASSUME NEW r \in 0 .. targets[i].quantity - 1
        PROVE  \E s \in DOMAIN plans[at[r]].covered :
                  ReadBy(plans, targets, i, r, at[r], s) /\ Carriers(i, r) = {<<at[r], s>>}
    <3>1. PICK s \in DOMAIN plans[at[r]].covered : ReadBy(plans, targets, i, r, at[r], s)
      BY <2>2 DEF ReadAt
    <3>2. \A p \in DOMAIN plans : {k \in DOMAIN plans[p].covered : Carries(plans[p].covered[k], i, r)}
                                     = IF p = at[r] THEN {s} ELSE {}
      BY <2>1, <3>1 DEF ReadBy
    <3>3. at[r] \in DOMAIN plans
      BY <2>1, <3>1 DEF ReadBy
    <3>4. Carriers(i, r) = {<<at[r], s>>}
      BY <3>2, <3>3 DEF Carriers
    <3>. QED  BY <3>1, <3>4
  <2>4. PICK s \in DOMAIN plans[at[o]].covered :
            ReadBy(plans, targets, i, o, at[o], s) /\ Carriers(i, o) = {<<at[o], s>>}
    BY <2>3
  <2>5. Cardinality(Carriers(i, o)) = 1
    BY <2>4, FS_Singleton
  <2>6. TellsTheTruth(plans[at[o]], plans[at[o]].covered[s], targets[i], o)
    BY <2>4 DEF ReadBy
  <2>7. ASSUME o > 0 PROVE \E before \in Carriers(i, o - 1) : at[o] - before[1] \in 0 .. 1
    <3>1. o - 1 \in 0 .. targets[i].quantity - 1
      <4>1. targets[i].quantity \in Nat
        BY <2>1, TargetFacts
      <4>. QED  BY <2>7, <4>1
    <3>2. PICK r \in DOMAIN plans[at[o - 1]].covered : Carriers(i, o - 1) = {<<at[o - 1], r>>}
      BY <2>3, <3>1
    <3>3. at[o] - at[o - 1] \in 0 .. 1
      BY <2>2, <2>7 DEF ReadAt
    <3>4. <<at[o - 1], r>> \in Carriers(i, o - 1) /\ <<at[o - 1], r>>[1] = at[o - 1]
      BY <3>2
    <3>. QED  BY <3>3, <3>4
  <2>. QED  BY <2>4, <2>5, <2>6, <2>7 DEF TellsTheTruth
<1>. QED  BY <1>1, BooksInductive, PTL

\* What is read depends on the set of wanted registers only: the requests are those that a
\* second algorithm, from that set alone, asks for, in the order of their addresses
\* (coalesce(), mergeByGap(), appendPlansForRun()).
THEOREM RequestsCorrect == Spec => []RequestsAreCanonical
<1>1. Books => RequestsAreCanonical
  <2>. SUFFICES ASSUME Books, NEW key \in {KeyOf(targets[i]) : i \in DOMAIN targets},
                       Wanted(key) \subseteq 0 .. AddressSpace - 1
                PROVE  /\ {<<plans[p].start, plans[p].quantity>> : p \in RequestsFor(key)}
                              = ReferenceRequests(key)
                       /\ \A p, q \in RequestsFor(key) : p < q => plans[p].start < plans[q].start
    BY DEF RequestsAreCanonical
  <2>. DEFINE requests == PlansForGroup(targets, key)
              asked == ReferenceRequests(key)
  <2>1. key \in KeysOf(targets) /\ targets \in Seq(Target) /\ plans \in Seq(PlanFor(targets))
    BY PlansReadTargets DEF KeysOf
  <2>2. ReadsPieces(requests, asked)
    BY <2>1, GroupAsks
  <2>3. PICK at : StandAt(plans, requests, key, at)
    BY <2>1, GroupsStandTogether DEF Books
  <2>4. DOMAIN plans = 1 .. Len(plans) /\ requests \in Seq(PlanFor(targets))
    BY <2>1, GroupReads
  <2>. HIDE DEF requests, asked
  <2>5. at \in Nat /\ Len(requests) \in Nat
    BY <2>3, <2>4 DEF StandAt
  <2>6. ASSUME NEW k \in 1 .. Len(requests)
        PROVE  at + k \in RequestsFor(key) /\ plans[at + k] = requests[k]
    BY <2>3, <2>4 DEF StandAt, RequestsFor
  <2>7. ASSUME NEW p \in RequestsFor(key) PROVE \E k \in 1 .. Len(requests) : p = at + k
    BY <2>3, <2>4, <2>7 DEF StandAt, RequestsFor
  <2>8. {<<plans[p].start, plans[p].quantity>> : p \in RequestsFor(key)} = asked
    <3>1. asked = {<<requests[k].start, requests[k].quantity>> : k \in 1 .. Len(requests)}
      BY <2>2 DEF ReadsPieces
    <3>2. ASSUME NEW p \in RequestsFor(key) PROVE <<plans[p].start, plans[p].quantity>> \in asked
      <4>1. PICK k \in 1 .. Len(requests) : p = at + k
        BY <2>7
      <4>. QED  BY <2>6, <3>1, <4>1
    <3>3. ASSUME NEW x \in asked
          PROVE  \E p \in RequestsFor(key) : x = <<plans[p].start, plans[p].quantity>>
      <4>1. PICK k \in 1 .. Len(requests) : x = <<requests[k].start, requests[k].quantity>>
        BY <3>1
      <4>. QED  BY <2>6, <4>1
    <3>. QED  BY <3>2, <3>3
  <2>9. ASSUME NEW p \in RequestsFor(key), NEW q \in RequestsFor(key), p < q
        PROVE  plans[p].start < plans[q].start
    <3>1. PICK j \in 1 .. Len(requests) : p = at + j
      BY <2>7
    <3>2. PICK k \in 1 .. Len(requests) : q = at + k
      BY <2>7
    <3>3. j < k
      BY <2>5, <2>9, <3>1, <3>2
    <3>4. requests[j].start < requests[k].start
      BY <2>2, <3>3 DEF ReadsPieces
    <3>. QED  BY <2>6, <3>1, <3>2, <3>4
  <2>. QED  BY <2>8, <2>9 DEF asked
<1>. QED  BY <1>1, BooksInductive, PTL
=============================================================================

---------------------------- MODULE ReadCoalescer ----------------------------
(***************************************************************************)
(* core/poll/ReadCoalescer: turns the poll targets into contiguous read    *)
(* requests.  Targets of one device and one register type that lie close   *)
(* enough to each other form a run, gaps included; a run is then cut into  *)
(* pieces that fit a request.                                              *)
(*                                                                         *)
(* The list of targets changes as favorites are added and removed; each    *)
(* change rebuilds the plans.                                              *)
(***************************************************************************)
EXTENDS Integers, Sequences, FiniteSets, SequencesExt

CONSTANTS
    TargetChoices,  \* targets that may be added: [unit, type, start, quantity]
    MaxTargets,     \* bound on the length of the list
    MaxGap,         \* CoalescingOptions::maxGapToBridge
    MaxCount,       \* CoalescingOptions::maxCountFor(), by register type
    AddressSpace    \* 2^16: addresses on the wire are quint16

ASSUME CoalescerAssumption ==
    /\ TargetChoices \subseteq [unit : Nat, type : DOMAIN MaxCount, start : 0 .. AddressSpace - 1,
                                quantity : Nat \ {0}]
    /\ MaxTargets \in Nat /\ MaxGap \in Nat /\ AddressSpace \in Nat
    /\ DOMAIN MaxCount \subseteq Nat
    /\ \A type \in DOMAIN MaxCount : MaxCount[type] \in Nat \ {0}

VARIABLES
    targets,        \* PollEngine::m_targets
    plans           \* PollEngine::m_plans

vars == <<targets, plans>>

\* endAddressExclusive(), an int
EndOf(t) == t.start + t.quantity

-----------------------------------------------------------------------------
(* coalesce()                                                              *)

KeyOf(t) == <<t.unit, t.type>>

KeyBefore(a, b) == a[1] < b[1] \/ (a[1] = b[1] /\ a[2] < b[2])

\* Bug: the indices of a group are left in the order of the list.
ListOrder(list, key) ==
    SelectSeq([i \in DOMAIN list |-> i], LAMBDA i : KeyOf(list[i]) = key)

\* The members of a set in the order that Before says.
Sorted(S, Before(_, _)) ==
    CHOOSE s \in [1 .. Cardinality(S) -> S] : \A j, k \in DOMAIN s : j < k => Before(s[j], s[k])

\* The indices of a group, stably sorted by start address.
SortedIndices(list, key) ==
    Sorted({i \in DOMAIN list : KeyOf(list[i]) = key},
           LAMBDA i, j : list[i].start < list[j].start \/ (list[i].start = list[j].start /\ i < j))

StartsNewRun(runs, t) == runs = <<>> \/ t.start - Last(runs).to > MaxGap

\* Bug: a target nested in an earlier one shortens the run.
LastTargetEnds(run, t) == EndOf(t)

GrownEnd(run, t) == Max({run.to, EndOf(t)})

\* What the next target, the i-th of the list, makes of the runs so far.
Merged(list, runs, i) ==
    IF StartsNewRun(runs, list[i])
    THEN Append(runs, [from |-> list[i].start, to |-> EndOf(list[i]), members |-> <<i>>])
    ELSE [runs EXCEPT ![Len(runs)] = [from |-> @.from, to |-> GrownEnd(@, list[i]),
                                      members |-> Append(@.members, i)]]

\* mergeByGap(), after each of the indices
RunsAfter(list, indices) ==
    LET runs[k \in 0 .. Len(indices)] ==
            IF k = 0 THEN <<>> ELSE Merged(list, runs[k - 1], indices[k])
    IN  runs

MergeByGap(list, indices) == RunsAfter(list, indices)[Len(indices)]

\* The part of target i that the piece from .. to - 1 of a run carries.
Covered(list, i, from, to) ==
    LET start == Max({list[i].start, from})
        end   == Min({EndOf(list[i]), to})
    IN  [targetIndex |-> i, offsetInPlan |-> start - from,
         offsetInTarget |-> start - list[i].start, count |-> end - start]

\* Bug: every target of the run is given a slice of every piece.
OfTheRun(list, i, from, to) == from < to

\* Does target i reach into the piece from .. to - 1?
Overlaps(list, i, from, to) == list[i].start < to /\ EndOf(list[i]) > from

PieceEnd(run, from, max) == Min({from + max, run.to})

PlanOf(list, run, key, from) ==
    LET to == PieceEnd(run, from, MaxCount[key[2]])
    IN  [unit |-> key[1], type |-> key[2],
         start |-> from % AddressSpace, quantity |-> to - from,
         covered |-> LET mine == Sorted({k \in DOMAIN run.members : Overlaps(list, run.members[k], from, to)}, <)
                     IN  [k \in DOMAIN mine |-> Covered(list, run.members[mine[k]], from, to)]]

\* appendPlansForRun()
PlansForRun(list, run, key) ==
    LET max == MaxCount[key[2]]
    IN  [k \in 1 .. (run.to - run.from + max - 1) \div max |->
            PlanOf(list, run, key, run.from + (k - 1) * max)]

PlansForGroup(list, key) ==
    LET runs == MergeByGap(list, SortedIndices(list, key))
    IN  FlattenSeq([r \in DOMAIN runs |-> PlansForRun(list, runs[r], key)])

Coalesce(list) ==
    LET keys == Sorted({KeyOf(list[i]) : i \in DOMAIN list}, KeyBefore)
    IN  FlattenSeq([k \in DOMAIN keys |-> PlansForGroup(list, keys[k])])

-----------------------------------------------------------------------------
Init == targets = <<>> /\ plans = <<>>

\* setTargets() with a list to which a favorite was added, at the end.
AddTarget(t) ==
    /\ Len(targets) < MaxTargets
    /\ targets' = Append(targets, t)
    /\ plans' = Coalesce(targets')

\* setTargets() with a list from which one was removed.
RemoveTarget(i) ==
    /\ targets' = RemoveAt(targets, i)
    /\ plans' = Coalesce(targets')

Next ==
    \/ \E t \in TargetChoices : AddTarget(t)
    \/ \E i \in DOMAIN targets : RemoveTarget(i)

Spec == Init /\ [][Next]_vars

-----------------------------------------------------------------------------
(* Properties.                                                             *)

Slice == [targetIndex : 1 .. MaxTargets, offsetInPlan : Nat, offsetInTarget : Nat, count : Nat \ {0}]

\* The plans are requests of the wire's types, and their slices are not empty.
TypeOK ==
    /\ \A i \in DOMAIN targets : targets[i] \in TargetChoices
    /\ \A p \in DOMAIN plans :
          /\ plans[p].unit \in Nat /\ plans[p].type \in DOMAIN MaxCount
          /\ plans[p].start \in 0 .. AddressSpace - 1 /\ plans[p].quantity \in Nat
          /\ \A k \in DOMAIN plans[p].covered : plans[p].covered[k] \in Slice

\* The slices that carry the o-th register of target i, each with its plan.
Carries(slice, i, o) ==
    /\ slice.targetIndex = i
    /\ o \in slice.offsetInTarget .. slice.offsetInTarget + slice.count - 1

Carriers(i, o) ==
    UNION {{p} \X {k \in DOMAIN plans[p].covered : Carries(plans[p].covered[k], i, o)} :
               p \in DOMAIN plans}

\* Every register of every target, overlapping, nested, repeated, split or at the end
\* of the address space, is read by exactly one request of its device and type, and
\* the slice names the place in the answer where the device's value for that address
\* stands (mergeByGap(), appendPlansForRun()).  A value that is split is torn by no more
\* than one request: neighbours are in the same request or in the next.  A register
\* beyond the last address does not exist, and the request for it wraps to address 0.
ReadsAreExact ==
    \A i \in DOMAIN targets : \A o \in 0 .. targets[i].quantity - 1 :
        targets[i].start + o < AddressSpace =>
            /\ Cardinality(Carriers(i, o)) = 1
            /\ \A carrier \in Carriers(i, o) :
                  LET p == plans[carrier[1]]
                      c == p.covered[carrier[2]]
                  IN  /\ <<p.unit, p.type>> = KeyOf(targets[i])
                      /\ c.offsetInPlan + c.count <= p.quantity
                      /\ o > 0 => \E before \in Carriers(i, o - 1) : carrier[1] - before[1] \in 0 .. 1
                      /\ p.start + c.offsetInPlan + (o - c.offsetInTarget) = targets[i].start + o

\* The registers of a group that somebody asked for.
Wanted(key) ==
    UNION {targets[i].start .. EndOf(targets[i]) - 1 :
              i \in {j \in DOMAIN targets : KeyOf(targets[j]) = key}}

StartsStretch(a, wanted) == a \in wanted /\ \A b \in a - MaxGap - 1 .. a - 1 : b \notin wanted

\* The last register of the stretch a belongs to.
StretchEnd(a, wanted) ==
    Min({b \in wanted : b >= a /\ \A c \in b + 1 .. b + MaxGap + 1 : c \notin wanted})

\* The requests for a stretch that starts at a: every MaxCount registers, to its end.
RequestsFrom(a, key) ==
    LET max  == MaxCount[key[2]]
        last == StretchEnd(a, Wanted(key))
    IN  {<<b, Min({max, last + 1 - b})>> : b \in {c \in a .. last : (c - a) % max = 0}}

ReferenceRequests(key) ==
    UNION {RequestsFrom(a, key) : a \in {b \in Wanted(key) : StartsStretch(b, Wanted(key))}}

\* The requests for a group, by their places in the cycle.
RequestsFor(key) == {p \in DOMAIN plans : KeyOf(plans[p]) = key}

\* What is read depends on the set of registers asked for, not on the order or the
\* grouping of the targets: a request starts where a stretch of wanted registers
\* starts after a gap that is not bridged, and every MaxCount registers from there,
\* and the last ends with the stretch, so that no more than MaxGap registers in a
\* row are read that nobody asked for; and they are sent in the order of their
\* addresses, none twice (coalesce()).
RequestsAreCanonical ==
    \A key \in {KeyOf(targets[i]) : i \in DOMAIN targets} :
        Wanted(key) \subseteq 0 .. AddressSpace - 1 =>
            /\ {<<plans[p].start, plans[p].quantity>> : p \in RequestsFor(key)} = ReferenceRequests(key)
            /\ \A p, q \in RequestsFor(key) : p < q => plans[p].start < plans[q].start
=============================================================================

-------------------------- MODULE PollEngine_proofs --------------------------
(***************************************************************************)
(* Safety of the poll engine, for every set of targets, every way to group *)
(* them into plans, every window and any number of one-shot requests.      *)
(***************************************************************************)
EXTENDS PollEngine, FiniteSetTheorems, TLAPS

-----------------------------------------------------------------------------
(* Type correctness.                                                       *)

LEMMA OneShotType == OneShotTicket \in Tickets
  BY PollAssumption DEF OneShotTicket, Ticket, Tickets

\* Whatever slots are released, the tickets keep their type.
LEMMA ReleaseType ==
    ASSUME NEW slots, ticket \in [Slots -> Tickets], Release(slots)
    PROVE  ticket' \in [Slots -> Tickets]
  BY OneShotType DEF Release

\* A plan of the present list covers targets, and at least one.
LEMMA PlansType == TypeOK => plans \in Seq((SUBSET Targets) \ {{}})
<1>1. <<>> \in Seq((SUBSET Targets) \ {{}})
  OBVIOUS
<1>. QED  BY <1>1, PollAssumption, Zenon DEF TypeOK

LEMMA PlanType ==
    ASSUME TypeOK, NEW i \in DOMAIN plans
    PROVE  plans[i] \in (SUBSET Targets) \ {{}} /\ i \in Nat
  BY PlansType

LEMMA InitType == Init => TypeOK
<1>. SUFFICES ASSUME Init PROVE TypeOK
  OBVIOUS
<1>1. readFor \in [Targets -> 0 .. MaxGeneration]
  BY PollAssumption DEF Init
<1>2. ticket \in [Slots -> Tickets]
  BY OneShotType DEF Init
<1>3. active \in BOOLEAN /\ intervalArmed \in BOOLEAN /\ flushArmed \in BOOLEAN
  BY Zenon DEF Init
<1>4. regrouped \in BOOLEAN /\ cycleParity \in BOOLEAN
  BY Zenon DEF Init
<1>5. generation \in 0 .. MaxGeneration /\ outstanding \in 0 .. Window
  BY PollAssumption DEF Init
<1>. QED  BY <1>1, <1>2, <1>3, <1>4, <1>5 DEF Init, TypeOK, Callers

\* What stop() leaves behind.
LEMMA StopType ==
    ASSUME TypeOK, NEW kept, StopEngine(kept)
    PROVE  /\ active' \in BOOLEAN /\ intervalArmed' \in BOOLEAN /\ flushArmed' \in BOOLEAN
           /\ outstanding' \in 0 .. Window
           /\ waiting' \subseteq Slots /\ ticket' \in [Slots -> Tickets]
<1>1. ticket' \in [Slots -> Tickets]
  BY ReleaseType DEF TypeOK, StopEngine, CancelAll
<1>2. active' = FALSE /\ intervalArmed' = FALSE /\ flushArmed' = FALSE
  BY Zenon DEF StopEngine
<1>3. outstanding' \in 0 .. Window
  BY PollAssumption DEF StopEngine
<1>. QED  BY <1>1, <1>2, <1>3 DEF StopEngine, CancelAll

\* What beginCycle() leaves behind, also when there is nothing to poll.
LEMMA BeginType ==
    ASSUME TypeOK, NEW who \in Callers, BeginCycle(who)
    PROVE  /\ nextPlan' \in Nat \ {0} /\ outstanding' \in 0 .. Window
           /\ pumping' \in Callers
           /\ settledPlans' \subseteq Nat /\ regrouped' \in BOOLEAN
<1>1. CASE plans' = <<>>
  BY <1>1 DEF BeginCycle, cycleHistory, TypeOK, Callers
<1>2. CASE plans' # <<>>
  <2>1. ResetCycle /\ pumping' = who
    BY <1>2 DEF BeginCycle
  <2>2. regrouped' \in BOOLEAN
    BY <2>1, Zenon DEF ResetCycle
  <2>. QED  BY <2>1, <2>2, PollAssumption DEF ResetCycle
<1>. QED  BY <1>1, <1>2

\* What the head of noteRequestSettled() leaves behind.
LEMMA SettledType ==
    ASSUME TypeOK, NEW s \in Slots, NoteSettled(s)
    PROVE  /\ outstanding' \in 0 .. Window /\ pumping' \in Callers
           /\ settledPlans' \subseteq Nat /\ regrouped' \in BOOLEAN
<1>1. ticket[s].plan \in Nat
  BY DEF TypeOK, Tickets
<1>2. outstanding' \in 0 .. Window
  BY PollAssumption DEF NoteSettled, TypeOK
<1>3. regrouped' \in BOOLEAN
  BY DEF NoteSettled, TypeOK
<1>. QED  BY <1>1, <1>2, <1>3 DEF NoteSettled, TypeOK, Callers

\* The cache after an answer.
LEMMA ApplyType ==
    ASSUME TypeOK, NEW plan, ApplyResponse(plan)
    PROVE  /\ flushArmed' \in BOOLEAN /\ dirty' \subseteq Targets
           /\ readFor' \in [Targets -> 0 .. MaxGeneration]
<1>1. CASE plan \in DOMAIN plans
  <2>1. plans[plan] \subseteq Targets
    BY <1>1, PlanType
  <2>2. MarkDirty(plans[plan])
    BY <1>1 DEF ApplyResponse
  <2>3. readFor' = [t \in Targets |-> IF t \in plans[plan] THEN generation ELSE readFor[t]]
    BY <1>1 DEF ApplyResponse
  <2>4. readFor' \in [Targets -> 0 .. MaxGeneration]
    BY <2>3 DEF TypeOK
  <2>5. flushArmed' \in BOOLEAN
    BY <2>2 DEF MarkDirty, TypeOK
  <2>. QED  BY <2>1, <2>2, <2>4, <2>5 DEF MarkDirty, TypeOK
<1>2. CASE plan \notin DOMAIN plans
  BY <1>2 DEF ApplyResponse, TypeOK, cacheVars
<1>. QED  BY <1>1, <1>2

LEMMA NextType == TypeOK /\ [Next]_vars => TypeOK'
<1>. SUFFICES ASSUME TypeOK, [Next]_vars PROVE TypeOK'
  OBVIOUS
<1>1. ASSUME NEW config \in Configs, BeginPolling(config) PROVE TypeOK'
  <2>1. BeginCycle(IF active THEN "retarget" ELSE "begin")
    BY <1>1 DEF BeginPolling
  <2>2. /\ nextPlan' \in Nat \ {0} /\ outstanding' \in 0 .. Window /\ pumping' \in Callers
        /\ settledPlans' \subseteq Nat /\ regrouped' \in BOOLEAN
    BY <2>1, BeginType DEF Callers
  <2>3. ticket' \in [Slots -> Tickets] /\ waiting' = {}
    BY <1>1, ReleaseType DEF BeginPolling, CancelAll, TypeOK
  <2>4. dirty' = {} /\ readFor' \in [Targets -> 0 .. MaxGeneration]
    BY <1>1, PollAssumption DEF BeginPolling, ClearCaches
  <2>5. generation' \in 0 .. MaxGeneration
    BY <1>1, PollAssumption DEF BeginPolling, TypeOK
  <2>6. active' \in BOOLEAN /\ intervalArmed' \in BOOLEAN /\ cycleParity' \in BOOLEAN
    BY <1>1, Zenon DEF BeginPolling, StopIntervalTimer
  <2>7. plans' \in Configs /\ UNCHANGED <<flushArmed, expired>>
    BY <1>1 DEF BeginPolling
  <2>. QED  BY <2>2, <2>3, <2>4, <2>5, <2>6, <2>7 DEF TypeOK
<1>2. ASSUME NEW config \in Configs, Recoalesce(config) PROVE TypeOK'
  <2>1. regrouped' \in BOOLEAN
    BY <1>2 DEF Recoalesce, TypeOK
  <2>. QED  BY <1>2, <2>1 DEF Recoalesce, TypeOK, timerVars, cacheVars, managerVars
<1>3. CASE StopPolling
  BY <1>3, StopType DEF StopPolling, TypeOK, cacheVars, historyVars, cycleHistory
<1>4. CASE SendOneShot
  <2>1. PICK s \in Slots : waiting' = waiting \cup {s} /\ ticket' = [ticket EXCEPT ![s] = OneShotTicket]
    BY <1>4 DEF SendOneShot
  <2>2. waiting' \subseteq Slots /\ ticket' \in [Slots -> Tickets]
    BY <2>1, OneShotType DEF TypeOK
  <2>. QED  BY <1>4, <2>2 DEF SendOneShot, TypeOK, engineVars, timerVars, cacheVars, historyVars,
                             cycleHistory
<1>5. CASE PumpSend
  <2>1. PICK s \in Slots : waiting' = waiting \cup {s} /\ ticket' = [ticket EXCEPT ![s] = TicketOfThePlan]
    BY <1>5 DEF PumpSend
  <2>2. nextPlan \in DOMAIN plans /\ outstanding' \in 0 .. Window /\ nextPlan' \in Nat \ {0}
    <3>1. plans \in Seq((SUBSET Targets) \ {{}})
      BY PlansType
    <3>. QED  BY <1>5, <3>1, PollAssumption DEF PumpSend, MaySend, WindowOpen, TypeOK
  <2>3. TicketOfThePlan \in Tickets
    BY <2>2, PlanType DEF TicketOfThePlan, Ticket, Tickets, TypeOK
  <2>4. waiting' \subseteq Slots /\ ticket' \in [Slots -> Tickets]
    BY <2>1, <2>3 DEF TypeOK
  <2>. QED  BY <1>5, <2>2, <2>4 DEF PumpSend, TypeOK, timerVars, cacheVars, historyVars, cycleHistory
<1>6. CASE PumpSendFails
  <2>1. nextPlan' \in Nat \ {0}
    BY <1>6 DEF PumpSendFails, TypeOK
  <2>. QED  BY <1>6, <2>1, StopType DEF PumpSendFails, TypeOK, cacheVars, historyVars, cycleHistory
<1>7. CASE PumpReturns
  <2>1. CASE pumping = "retarget" /\ ~active
    <3>1. active' = TRUE /\ BeginCycle("begin")
      BY <1>7, <2>1 DEF PumpReturns
    <3>2. active' \in BOOLEAN
      BY <3>1, Zenon
    <3>. QED  BY <1>7, <3>1, <3>2, BeginType
              DEF PumpReturns, TypeOK, Callers, timerVars, cacheVars, managerVars
  <2>2. CASE ~(pumping = "retarget" /\ ~active)
    BY <1>7, <2>2 DEF PumpReturns, TypeOK, Callers, timerVars, cacheVars, managerVars, cycleHistory
  <2>. QED  BY <2>1, <2>2
<1>8. CASE SettleReturns
  <2>1. cycleParity' \in BOOLEAN /\ intervalArmed' \in BOOLEAN
    BY <1>8, Zenon DEF SettleReturns, TypeOK
  <2>. QED  BY <1>8, <2>1 DEF SettleReturns, TypeOK, Callers, engineVars, cacheVars, managerVars,
                             cycleHistory
<1>9. ASSUME NEW s \in waiting, Answered(s) PROVE TypeOK'
  <2>0. s \in Slots
    BY DEF TypeOK
  <2>1. waiting' \subseteq Slots /\ ticket' \in [Slots -> Tickets]
    BY <1>9, ReleaseType DEF Answered, TypeOK
  <2>2. CASE IsMine(s)
    <3>1. /\ flushArmed' \in BOOLEAN /\ dirty' \subseteq Targets
          /\ readFor' \in [Targets -> 0 .. MaxGeneration]
      BY <1>9, <2>2, ApplyType DEF Answered, TypeOK, cacheVars
    <3>2. NoteSettled(s)
      BY <1>9, <2>2 DEF Answered
    <3>. QED  BY <1>9, <2>0, <2>1, <3>1, <3>2, SettledType DEF Answered, TypeOK
  <2>3. CASE ~IsMine(s)
    BY <1>9, <2>1, <2>3 DEF Answered, TypeOK, cacheVars, cycleHistory
  <2>. QED  BY <2>2, <2>3
<1>10. ASSUME NEW S \in SUBSET waiting, Expires(S) PROVE TypeOK'
  <2>1. CASE active /\ StopEngine(S)
    BY <1>10, <2>1, StopType DEF Expires, TypeOK, cacheVars, historyVars, cycleHistory
  <2>2. CASE waiting' = waiting \ S /\ UNCHANGED <<active, timerVars, outstanding, ticket>>
    BY <1>10, <2>2 DEF Expires, TypeOK, timerVars, cacheVars, historyVars, cycleHistory
  <2>. QED  BY <1>10, <2>1, <2>2 DEF Expires
<1>11. ASSUME NEW s \in expired, Failed(s) PROVE TypeOK'
  <2>0. s \in Slots
    BY DEF TypeOK
  <2>1. expired' \subseteq Slots /\ ticket' \in [Slots -> Tickets]
    BY <1>11, ReleaseType DEF Failed, TypeOK
  <2>2. CASE IsMine(s)
    <3>1. NoteSettled(s)
      BY <1>11, <2>2 DEF Failed
    <3>. QED  BY <1>11, <2>0, <2>1, <3>1, SettledType DEF Failed, TypeOK, timerVars, cacheVars
  <2>3. CASE ~IsMine(s)
    BY <1>11, <2>1, <2>3 DEF Failed, TypeOK, timerVars, cacheVars, cycleHistory
  <2>. QED  BY <2>2, <2>3
<1>12. CASE IntervalFires
  <2>0. intervalArmed' \in BOOLEAN
    BY <1>12, Zenon DEF IntervalFires
  <2>1. CASE active
    BY <1>12, <2>0, <2>1, BeginType DEF IntervalFires, TypeOK, Callers, cacheVars, managerVars
  <2>2. CASE ~active
    BY <1>12, <2>0, <2>2 DEF IntervalFires, TypeOK, cacheVars, managerVars, cycleHistory
  <2>. QED  BY <2>1, <2>2
<1>13. CASE FlushFires
  <2>1. flushArmed' \in BOOLEAN
    BY <1>13, Zenon DEF FlushFires
  <2>. QED  BY <1>13, <2>1 DEF FlushFires, TypeOK, engineVars, managerVars, historyVars, cycleHistory
<1>14. CASE UNCHANGED vars
  BY <1>14 DEF vars, engineVars, timerVars, cacheVars, managerVars, historyVars, cycleHistory, TypeOK
<1>. QED
  BY <1>1, <1>2, <1>3, <1>4, <1>5, <1>6, <1>7, <1>8, <1>9, <1>10, <1>11, <1>12, <1>13, <1>14
     DEF Next, User, Pump

\* Every variable of the engine keeps its type, the count of requests within the
\* window, whatever the user, the timers and the manager do.
THEOREM TypeCorrect == Spec => []TypeOK
  BY InitType, NextType, PTL DEF Spec

-----------------------------------------------------------------------------
(* The requests the manager has for the engine.                            *)

LEMMA RequestsFinite ==
    ASSUME TypeOK
    PROVE  /\ EngineRequests \subseteq Slots
           /\ IsFiniteSet(EngineRequests) /\ Cardinality(EngineRequests) \in Nat
<1>1. IsFiniteSet(Slots)
  BY PollAssumption, FS_Interval DEF Slots
<1>2. EngineRequests \subseteq Slots
  BY DEF EngineRequests, TypeOK
<1>. QED  BY <1>1, <1>2, FS_Subset, FS_CardinalityType

\* generation tells the engine's requests from the controller's, while it runs.
LEMMA MineAreRequests ==
    ASSUME TypeOK, RequestsArePresent, active, NEW s \in waiting \cup expired
    PROVE  IsMine(s) <=> s \in EngineRequests
<1>1. ticket[s] = OneShotTicket => ticket[s].gen # generation
  BY DEF RequestsArePresent, OneShotTicket, Ticket, TypeOK
<1>. QED  BY <1>1 DEF IsMine, EngineRequests, RequestsArePresent

\* A request that has ended is gone, and the others keep their tickets.
LEMMA EndsRequest ==
    ASSUME TypeOK, NEW s \in waiting \cup expired, Release({s}),
           waiting' \cup expired' \subseteq waiting \cup expired,
           (waiting \cup expired) \ {s} \subseteq waiting' \cup expired'
    PROVE  /\ EngineRequests' = EngineRequests \ {s}
           /\ \A r \in EngineRequests' : ticket'[r] = ticket[r]
<1>1. \A r \in Slots \ {s} : ticket'[r] = ticket[r]
  BY DEF Release
<1>2. s \notin EngineRequests' /\ EngineRequests' \subseteq Slots
  BY DEF Release, EngineRequests, TypeOK
<1>3. ASSUME NEW r \in Slots, r # s PROVE r \in EngineRequests' <=> r \in EngineRequests
  BY <1>1, <1>3 DEF EngineRequests
<1>. QED  BY <1>1, <1>2, <1>3, RequestsFinite

\* A new request of the controller is none of the engine's.
LEMMA OneShotIsNone ==
    ASSUME TypeOK, NEW s \in Slots, s \notin waiting \cup expired,
           waiting' = waiting \cup {s}, UNCHANGED expired,
           ticket' = [ticket EXCEPT ![s] = OneShotTicket]
    PROVE  /\ EngineRequests' = EngineRequests
           /\ \A r \in EngineRequests : ticket'[r] = ticket[r]
  BY DEF EngineRequests, TypeOK

\* A new request of the engine is one more.
LEMMA PollIsOneMore ==
    ASSUME TypeOK, generation > 0, NEW s \in Slots, s \notin waiting \cup expired,
           waiting' = waiting \cup {s}, UNCHANGED expired,
           ticket' = [ticket EXCEPT ![s] = TicketOfThePlan]
    PROVE  /\ EngineRequests' = EngineRequests \cup {s} /\ s \notin EngineRequests
           /\ ticket'[s] = TicketOfThePlan
           /\ \A r \in EngineRequests : ticket'[r] = ticket[r]
           /\ Cardinality(EngineRequests') = Cardinality(EngineRequests) + 1
<1>1. TicketOfThePlan # OneShotTicket
  BY DEF TicketOfThePlan, OneShotTicket, Ticket, TypeOK
<1>2. EngineRequests' = EngineRequests \cup {s} /\ s \notin EngineRequests
  BY <1>1 DEF EngineRequests, TypeOK
<1>3. Cardinality(EngineRequests \cup {s}) = Cardinality(EngineRequests) + 1
  BY <1>2, RequestsFinite, FS_AddElement
<1>. QED  BY <1>2, <1>3 DEF EngineRequests, TypeOK

\* cancelAll() leaves only what is set aside to be reported failed.
LEMMA CancelledAreGone ==
    ASSUME TypeOK, NEW kept \in SUBSET waiting, CancelAll(kept), expired' \subseteq expired \cup kept
    PROVE  /\ EngineRequests' \subseteq EngineRequests \cap expired'
           /\ \A r \in EngineRequests' : ticket'[r] = ticket[r]
<1>1. ASSUME NEW r \in EngineRequests' PROVE r \in EngineRequests /\ ticket'[r] = ticket[r] /\ r \in expired'
  <2>1. r \in expired' /\ r \in Slots /\ ticket'[r] # OneShotTicket
    BY <1>1 DEF EngineRequests, CancelAll, TypeOK
  <2>2. ticket'[r] = ticket[r]
    BY <2>1 DEF CancelAll, Release
  <2>. QED  BY <2>1, <2>2 DEF EngineRequests
<1>. QED  BY <1>1

-----------------------------------------------------------------------------
(* The bookkeeping, by kinds of steps.                                     *)

LEMMA InitBooks == Init => CycleBooks
<1>. SUFFICES ASSUME Init PROVE CycleBooks
  OBVIOUS
<1>1. EngineRequests = {}
  BY DEF Init, EngineRequests
<1>2. Cardinality(EngineRequests) = 0
  BY <1>1, FS_EmptySet
<1>3. RequestsArePresent /\ IntervalBetweenCycles /\ CycleAdvances /\ AnswersFitTheirPlan
  BY <1>1 DEF Init, RequestsArePresent, IntervalBetweenCycles, CycleAdvances, AnswersFitTheirPlan
<1>4. CountIsExact
  BY <1>2, PollAssumption DEF Init, CountIsExact
<1>5. PumpingInCycle /\ DirtyDataIsCurrent /\ FlushScheduled
  BY DEF Init, PumpingInCycle, DirtyDataIsCurrent, FlushScheduled
<1>. QED  BY <1>3, <1>4, <1>5 DEF CycleBooks

\* A step that leaves the cycle and the engine's requests alone.
LEMMA QuietBooks ==
    ASSUME TypeOK, CycleBooks,
           UNCHANGED <<active, generation, plans, nextPlan, outstanding, intervalArmed, pumping,
                       settledPlans, regrouped, readFor>>,
           EngineRequests' = EngineRequests,
           \A s \in EngineRequests : ticket'[s] = ticket[s],
           pumping = "none" \/ expired' = expired,
           ~active => EngineRequests \subseteq expired',
           dirty' \subseteq dirty,
           flushArmed' = flushArmed \/ dirty' = {}
    PROVE  CycleBooks'
<1>1. RequestsArePresent'
  BY DEF CycleBooks, RequestsArePresent
<1>2. CountIsExact'
  BY DEF CycleBooks, CountIsExact
<1>3. PumpingInCycle'
  BY DEF CycleBooks, PumpingInCycle
<1>4. IntervalBetweenCycles'
  BY DEF CycleBooks, IntervalBetweenCycles
<1>5. CycleAdvances'
  <2>1. {ticket'[s].plan : s \in EngineRequests'} = {ticket[s].plan : s \in EngineRequests}
    OBVIOUS
  <2>. QED  BY <2>1 DEF CycleBooks, CycleAdvances
<1>6. AnswersFitTheirPlan'
  BY DEF CycleBooks, AnswersFitTheirPlan
<1>7. DirtyDataIsCurrent'
  BY DEF CycleBooks, DirtyDataIsCurrent, CoveredBy
<1>8. FlushScheduled'
  BY DEF CycleBooks, FlushScheduled
<1>. QED  BY <1>1, <1>2, <1>3, <1>4, <1>5, <1>6, <1>7, <1>8 DEF CycleBooks

\* A step of the manager while the engine is stopped.
LEMMA IdleBooks ==
    ASSUME TypeOK, CycleBooks, ~active, pumping = "none",
           UNCHANGED <<active, generation, plans, outstanding, intervalArmed, pumping, dirty, readFor>>,
           EngineRequests' \subseteq EngineRequests, EngineRequests' \subseteq expired',
           \A s \in EngineRequests' : ticket'[s] = ticket[s]
    PROVE  CycleBooks'
<1>1. RequestsArePresent'
  BY DEF CycleBooks, RequestsArePresent
<1>2. CountIsExact'
  <2>1. Cardinality(EngineRequests') <= Cardinality(EngineRequests) /\ Cardinality(EngineRequests') \in Nat
    BY RequestsFinite, FS_Subset, FS_CardinalityType
  <2>. QED  BY <2>1, RequestsFinite, PollAssumption DEF CycleBooks, CountIsExact
<1>3. PumpingInCycle' /\ IntervalBetweenCycles'
  BY DEF CycleBooks, PumpingInCycle, IntervalBetweenCycles
<1>4. CycleAdvances' /\ AnswersFitTheirPlan' /\ DirtyDataIsCurrent' /\ FlushScheduled'
  BY DEF CycleBooks, CycleAdvances, AnswersFitTheirPlan, DirtyDataIsCurrent, CoveredBy, FlushScheduled
<1>. QED  BY <1>1, <1>2, <1>3, <1>4 DEF CycleBooks

\* stop(): what the user, or a write error, leaves of a running engine.
LEMMA StoppedBooks ==
    ASSUME TypeOK, CycleBooks, NEW kept \in SUBSET waiting, StopEngine(kept),
           UNCHANGED <<generation, plans, pumping, dirty, readFor>>,
           expired' = expired \/ (pumping = "none" /\ expired' = kept)
    PROVE  CycleBooks'
<1>1. /\ EngineRequests' \subseteq EngineRequests \cap expired'
      /\ \A r \in EngineRequests' : ticket'[r] = ticket[r]
  BY CancelledAreGone DEF StopEngine
<1>2. active' = FALSE /\ intervalArmed' = FALSE
  BY Zenon DEF StopEngine
<1>3. RequestsArePresent'
  BY <1>1, <1>2 DEF CycleBooks, RequestsArePresent
<1>4. CountIsExact'
  <2>1. Cardinality(EngineRequests') <= Cardinality(EngineRequests)
    BY <1>1, RequestsFinite, FS_Subset
  <2>2. Cardinality(EngineRequests') \in Nat
    BY <1>1, RequestsFinite, FS_Subset, FS_CardinalityType
  <2>. QED  BY <1>2, <2>1, <2>2, RequestsFinite, PollAssumption DEF CycleBooks, CountIsExact
<1>5. PumpingInCycle' /\ IntervalBetweenCycles'
  BY <1>2 DEF CycleBooks, PumpingInCycle, IntervalBetweenCycles
<1>6. CycleAdvances' /\ AnswersFitTheirPlan'
  BY <1>2 DEF CycleAdvances, AnswersFitTheirPlan
<1>7. DirtyDataIsCurrent' /\ FlushScheduled'
  BY <1>2 DEF CycleBooks, DirtyDataIsCurrent, CoveredBy, FlushScheduled
<1>. QED  BY <1>3, <1>4, <1>5, <1>6, <1>7 DEF CycleBooks

\* beginCycle(), with none of the engine's requests in flight.
LEMMA BegunBooks ==
    ASSUME TypeOK, CycleBooks, NEW who \in {"begin", "retarget"}, BeginCycle(who),
           active' = TRUE, intervalArmed' = FALSE, generation' \in Nat, generation' > 0,
           EngineRequests' = {}, expired' = {},
           DirtyDataIsCurrent', FlushScheduled'
    PROVE  CycleBooks'
<1>1. Cardinality(EngineRequests') = 0
  BY FS_EmptySet
<1>2. RequestsArePresent' /\ AnswersFitTheirPlan'
  BY DEF RequestsArePresent, AnswersFitTheirPlan
<1>3. CASE plans' = <<>>
  <2>1. pumping' = "none"
    BY <1>3 DEF BeginCycle
  <2>. QED  BY <1>1, <1>2, <1>3, <2>1, PollAssumption
            DEF CycleBooks, CountIsExact, PumpingInCycle, IntervalBetweenCycles, CycleAdvances
<1>4. CASE plans' # <<>>
  <2>1. pumping' = who /\ nextPlan' = 1 /\ outstanding' = 0 /\ settledPlans' = {}
    BY <1>4 DEF BeginCycle, ResetCycle
  <2>2. CountIsExact' /\ PumpingInCycle' /\ IntervalBetweenCycles'
    BY <1>1, <1>4, <2>1, PollAssumption DEF CountIsExact, PumpingInCycle, IntervalBetweenCycles
  <2>3. CycleAdvances'
    BY <1>2, <2>1 DEF CycleAdvances
  <2>. QED  BY <1>2, <2>2, <2>3 DEF CycleBooks
<1>. QED  BY <1>3, <1>4

\* The head of noteRequestSettled(), for one of the engine's requests.
LEMMA SettledBooks ==
    ASSUME TypeOK, CycleBooks, active, NEW s \in EngineRequests, NoteSettled(s), pumping = "none",
           UNCHANGED <<active, generation, plans, nextPlan, intervalArmed>>,
           EngineRequests' = EngineRequests \ {s},
           \A r \in EngineRequests' : ticket'[r] = ticket[r],
           DirtyDataIsCurrent', FlushScheduled'
    PROVE  CycleBooks'
<1>1. /\ plans # <<>> /\ ~intervalArmed /\ pumping' = "settle"
      /\ outstanding = Cardinality(EngineRequests)
  BY DEF CycleBooks, RequestsArePresent, IntervalBetweenCycles, CountIsExact, NoteSettled
<1>2. Cardinality(EngineRequests') = Cardinality(EngineRequests) - 1
  BY RequestsFinite, FS_RemoveElement
<1>3. RequestsArePresent'
  BY <1>1 DEF CycleBooks, RequestsArePresent
<1>4. CountIsExact'
  <2>1. Cardinality(EngineRequests) # 0
    BY RequestsFinite, FS_EmptySet
  <2>2. outstanding' = outstanding - 1
    BY <1>1, <2>1, RequestsFinite DEF NoteSettled
  <2>. QED  BY <1>1, <1>2, <2>2, RequestsFinite, PollAssumption DEF CycleBooks, CountIsExact
<1>5. PumpingInCycle' /\ IntervalBetweenCycles'
  BY <1>1 DEF PumpingInCycle, IntervalBetweenCycles
<1>6. CycleAdvances'
  <2>. SUFFICES ASSUME ~regrouped
                PROVE  /\ nextPlan <= Len(plans) + 1
                       /\ settledPlans' \cup {ticket'[r].plan : r \in EngineRequests'} = 1 .. nextPlan - 1
    BY DEF CycleAdvances, NoteSettled
  <2>1. settledPlans \cup {ticket[r].plan : r \in EngineRequests} = 1 .. nextPlan - 1
    BY <1>1 DEF CycleBooks, CycleAdvances
  <2>2. {ticket'[r].plan : r \in EngineRequests'} = {ticket[r].plan : r \in EngineRequests \ {s}}
    OBVIOUS
  <2>3. settledPlans' = settledPlans \cup {ticket[s].plan}
    BY DEF NoteSettled
  <2>. QED  BY <1>1, <2>1, <2>2, <2>3 DEF CycleBooks, CycleAdvances
<1>7. AnswersFitTheirPlan'
  BY DEF CycleBooks, AnswersFitTheirPlan, NoteSettled
<1>. QED  BY <1>3, <1>4, <1>5, <1>6, <1>7 DEF CycleBooks

-----------------------------------------------------------------------------
(* The bookkeeping, by actions.                                            *)

LEMMA BeginBooks ==
    TypeOK /\ CycleBooks /\ (\E config \in Configs : BeginPolling(config)) => CycleBooks'
<1>. SUFFICES ASSUME TypeOK, CycleBooks, NEW config \in Configs, BeginPolling(config)
              PROVE  CycleBooks'
  OBVIOUS
<1>1. EngineRequests' = {} /\ expired' = {}
  <2>1. expired = {} /\ expired' = {} /\ CancelAll({})
    BY DEF BeginPolling, InEventLoop
  <2>. QED  BY <2>1, CancelledAreGone
<1>2. generation' = generation + 1 /\ generation \in Nat
  BY PollAssumption DEF BeginPolling, TypeOK
<1>3. BeginCycle(IF active THEN "retarget" ELSE "begin") /\ dirty' = {}
  BY DEF BeginPolling, ClearCaches
<1>4. active' = TRUE /\ intervalArmed' = FALSE
  BY DEF BeginPolling, StopIntervalTimer
<1>5. DirtyDataIsCurrent' /\ FlushScheduled'
  BY <1>3 DEF DirtyDataIsCurrent, FlushScheduled
<1>6. PICK who \in {"begin", "retarget"} : BeginCycle(who)
  BY <1>3
<1>7. generation' \in Nat /\ generation' > 0
  BY <1>2
<1>. QED  BY <1>1, <1>4, <1>5, <1>6, <1>7, BegunBooks

LEMMA RecoalesceBooks ==
    TypeOK /\ CycleBooks /\ (\E config \in Configs : Recoalesce(config)) => CycleBooks'
<1>. SUFFICES ASSUME TypeOK, CycleBooks, NEW config \in Configs, Recoalesce(config)
              PROVE  CycleBooks'
  OBVIOUS
<1>1. /\ plans' = config /\ CoveredBy(config) = CoveredBy(plans)
      /\ regrouped' = (regrouped \/ plans # config) /\ pumping = "none"
      /\ UNCHANGED <<active, generation, nextPlan, outstanding, intervalArmed, flushArmed,
                     dirty, readFor, pumping, waiting, expired, ticket, settledPlans>>
  BY DEF Recoalesce, InEventLoop, timerVars, cacheVars, managerVars
<1>2. EngineRequests' = EngineRequests
  BY <1>1 DEF EngineRequests
<1>3. plans' = <<>> <=> plans = <<>>
  <2>1. \A list \in Seq((SUBSET Targets) \ {{}}) : CoveredBy(list) = {} <=> list = <<>>
    <3>. TAKE list \in Seq((SUBSET Targets) \ {{}})
    <3>1. CASE list = <<>>
      BY <3>1 DEF CoveredBy
    <3>2. CASE list # <<>>
      <4>1. 1 \in DOMAIN list /\ list[1] # {}
        BY <3>2
      <4>. QED  BY <3>2, <4>1 DEF CoveredBy
    <3>. QED  BY <3>1, <3>2
  <2>. QED  BY <1>1, <2>1, PlansType, PollAssumption
<1>4. RequestsArePresent' /\ CountIsExact' /\ PumpingInCycle' /\ IntervalBetweenCycles'
  BY <1>1, <1>2, <1>3
     DEF CycleBooks, RequestsArePresent, CountIsExact, PumpingInCycle, IntervalBetweenCycles
<1>5. CycleAdvances' /\ AnswersFitTheirPlan'
  BY <1>1, <1>2, <1>3 DEF CycleBooks, CycleAdvances, AnswersFitTheirPlan
<1>6. DirtyDataIsCurrent' /\ FlushScheduled'
  BY <1>1 DEF CycleBooks, DirtyDataIsCurrent, FlushScheduled
<1>. QED  BY <1>4, <1>5, <1>6 DEF CycleBooks

LEMMA PumpSendBooks == TypeOK /\ CycleBooks /\ PumpSend => CycleBooks'
<1>. SUFFICES ASSUME TypeOK, CycleBooks, PumpSend PROVE CycleBooks'
  OBVIOUS
<1>1. /\ pumping # "none" /\ active /\ nextPlan <= Len(plans) /\ outstanding < Window
      /\ outstanding' = outstanding + 1 /\ nextPlan' = nextPlan + 1
      /\ UNCHANGED <<active, generation, plans, intervalArmed, flushArmed, dirty, readFor, pumping,
                     expired, settledPlans, regrouped>>
  BY DEF PumpSend, MaySend, WindowOpen, timerVars, cacheVars, historyVars, cycleHistory
<1>2. generation > 0 /\ plans # <<>> /\ ~intervalArmed
  BY <1>1 DEF CycleBooks, RequestsArePresent, PumpingInCycle
<1>3. PICK s \in Slots : /\ FreeSlot(s) /\ waiting' = waiting \cup {s}
                         /\ ticket' = [ticket EXCEPT ![s] = TicketOfThePlan]
  BY DEF PumpSend
<1>4. /\ EngineRequests' = EngineRequests \cup {s} /\ s \notin EngineRequests
      /\ ticket'[s] = TicketOfThePlan
      /\ \A r \in EngineRequests : ticket'[r] = ticket[r]
      /\ Cardinality(EngineRequests') = Cardinality(EngineRequests) + 1
  BY <1>1, <1>2, <1>3, PollIsOneMore DEF FreeSlot
<1>5. nextPlan \in DOMAIN plans
  BY <1>1, PlansType DEF TypeOK
<1>6. RequestsArePresent'
  BY <1>1, <1>2, <1>4 DEF CycleBooks, RequestsArePresent, TicketOfThePlan, Ticket
<1>7. CountIsExact'
  BY <1>1, <1>2, <1>4, PollAssumption DEF CycleBooks, CountIsExact, TypeOK
<1>8. PumpingInCycle' /\ IntervalBetweenCycles'
  BY <1>1, <1>2, <1>4 DEF CycleBooks, PumpingInCycle, IntervalBetweenCycles, TypeOK
<1>9. CycleAdvances'
  <2>. SUFFICES ASSUME ~regrouped
                PROVE  /\ nextPlan' <= Len(plans) + 1
                       /\ settledPlans \cup {ticket'[r].plan : r \in EngineRequests'} = 1 .. nextPlan
    BY <1>1 DEF CycleAdvances, TypeOK
  <2>1. settledPlans \cup {ticket[r].plan : r \in EngineRequests} = 1 .. nextPlan - 1
    BY <1>1, <1>2 DEF CycleBooks, CycleAdvances
  <2>2. {ticket'[r].plan : r \in EngineRequests'} = {ticket[r].plan : r \in EngineRequests} \cup {nextPlan}
    BY <1>4 DEF TicketOfThePlan, Ticket
  <2>3. 1 .. nextPlan = (1 .. nextPlan - 1) \cup {nextPlan}
    BY DEF TypeOK
  <2>4. nextPlan' <= Len(plans) + 1
    BY <1>1, PlansType DEF TypeOK
  <2>. QED  BY <2>1, <2>2, <2>3, <2>4
<1>10. AnswersFitTheirPlan'
  BY <1>1, <1>4, <1>5 DEF CycleBooks, AnswersFitTheirPlan, TicketOfThePlan, Ticket
<1>11. DirtyDataIsCurrent' /\ FlushScheduled'
  BY <1>1 DEF CycleBooks, DirtyDataIsCurrent, CoveredBy, FlushScheduled
<1>. QED  BY <1>6, <1>7, <1>8, <1>9, <1>10, <1>11 DEF CycleBooks

LEMMA PumpReturnsBooks == TypeOK /\ CycleBooks /\ PumpReturns => CycleBooks'
<1>. SUFFICES ASSUME TypeOK, CycleBooks, PumpReturns PROVE CycleBooks'
  OBVIOUS
<1>1. /\ pumping \in {"begin", "retarget"} /\ ~MaySend
      /\ UNCHANGED <<generation, plans, intervalArmed, flushArmed, dirty, readFor,
                     waiting, expired, ticket>>
  BY DEF PumpReturns, timerVars, cacheVars, managerVars
<1>2. plans # <<>> /\ ~intervalArmed /\ expired = {} /\ generation > 0
  BY <1>1 DEF CycleBooks, PumpingInCycle, RequestsArePresent
<1>3. EngineRequests' = EngineRequests
  BY <1>1 DEF EngineRequests
<1>4. DirtyDataIsCurrent'
  BY <1>1 DEF CycleBooks, DirtyDataIsCurrent, CoveredBy
<1>5. CASE pumping = "retarget" /\ ~active
  <2>1. active' = TRUE /\ BeginCycle("begin")
    BY <1>5 DEF PumpReturns
  <2>2. EngineRequests' = {}
    BY <1>2, <1>3, <1>5 DEF CycleBooks, RequestsArePresent
  <2>3. FlushScheduled'
    BY <1>1, <1>5 DEF CycleBooks, FlushScheduled
  <2>4. intervalArmed' = FALSE /\ generation' \in Nat /\ generation' > 0 /\ expired' = {}
    BY <1>1, <1>2, PollAssumption DEF TypeOK
  <2>. QED  BY <1>4, <2>1, <2>2, <2>3, <2>4, BegunBooks
<1>6. CASE ~(pumping = "retarget" /\ ~active)
  <2>1. pumping' = "none" /\ UNCHANGED <<active, nextPlan, outstanding, settledPlans, regrouped>>
    BY <1>6 DEF PumpReturns, cycleHistory
  <2>2. RequestsArePresent' /\ CountIsExact' /\ PumpingInCycle'
    BY <1>1, <1>2, <1>3, <2>1 DEF CycleBooks, RequestsArePresent, CountIsExact, PumpingInCycle
  <2>3. IntervalBetweenCycles'
    <3>1. active => EngineRequests # {}
      <4>. SUFFICES ASSUME active, EngineRequests = {} PROVE FALSE
        OBVIOUS
      <4>1. outstanding = 0 /\ nextPlan = 1
        BY <1>1, <1>2, FS_EmptySet DEF CycleBooks, CountIsExact, PumpingInCycle
      <4>2. Len(plans) >= 1
        BY <1>2, PlansType
      <4>. QED  BY <1>1, <4>1, <4>2, PollAssumption DEF MaySend, WindowOpen
    <3>. QED  BY <1>1, <1>2, <1>3, <2>1, <3>1 DEF IntervalBetweenCycles
  <2>4. CycleAdvances' /\ AnswersFitTheirPlan' /\ FlushScheduled'
    BY <1>1, <1>3, <2>1 DEF CycleBooks, CycleAdvances, AnswersFitTheirPlan, FlushScheduled
  <2>. QED  BY <1>4, <2>2, <2>3, <2>4 DEF CycleBooks
<1>. QED  BY <1>5, <1>6

LEMMA SettleReturnsBooks == TypeOK /\ CycleBooks /\ SettleReturns => CycleBooks'
<1>. SUFFICES ASSUME TypeOK, CycleBooks, SettleReturns PROVE CycleBooks'
  OBVIOUS
<1>1. /\ pumping = "settle" /\ ~MaySend /\ pumping' = "none"
      /\ UNCHANGED <<active, generation, plans, nextPlan, outstanding, flushArmed, dirty, readFor,
                     waiting, expired, ticket, settledPlans, regrouped>>
  BY DEF SettleReturns, engineVars, cacheVars, managerVars, cycleHistory
<1>2. plans # <<>> /\ ~intervalArmed
  BY <1>1 DEF CycleBooks, PumpingInCycle
<1>3. EngineRequests' = EngineRequests
  BY <1>1 DEF EngineRequests
<1>4. intervalArmed' <=> active /\ EngineRequests = {}
  <2>1. CASE ~active
    BY <1>2, <2>1 DEF SettleReturns
  <2>2. CASE active
    <3>1. outstanding = 0 <=> EngineRequests = {}
      BY <1>2, <2>2, RequestsFinite, FS_EmptySet DEF CycleBooks, CountIsExact
    <3>2. outstanding = 0 => nextPlan > Len(plans)
      BY <1>1, <2>2, PlansType, PollAssumption DEF MaySend, WindowOpen, TypeOK
    <3>3. intervalArmed' <=> CycleFinished
      BY <1>2, <2>2 DEF SettleReturns
    <3>. QED  BY <2>2, <3>1, <3>2, <3>3 DEF CycleFinished
  <2>. QED  BY <2>1, <2>2
<1>5. RequestsArePresent' /\ CountIsExact' /\ PumpingInCycle'
  BY <1>1, <1>3 DEF CycleBooks, RequestsArePresent, CountIsExact, PumpingInCycle
<1>6. IntervalBetweenCycles'
  <2>1. intervalArmed' => nextPlan > Len(plans)
    BY <1>2 DEF SettleReturns, CycleFinished
  <2>. QED  BY <1>1, <1>2, <1>3, <1>4, <2>1 DEF IntervalBetweenCycles
<1>7. CycleAdvances' /\ AnswersFitTheirPlan'
  BY <1>1, <1>3 DEF CycleBooks, CycleAdvances, AnswersFitTheirPlan
<1>8. DirtyDataIsCurrent' /\ FlushScheduled'
  BY <1>1 DEF CycleBooks, DirtyDataIsCurrent, CoveredBy, FlushScheduled
<1>. QED  BY <1>5, <1>6, <1>7, <1>8 DEF CycleBooks

LEMMA StopBooks == TypeOK /\ CycleBooks /\ (StopPolling \/ PumpSendFails) => CycleBooks'
<1>. SUFFICES ASSUME TypeOK, CycleBooks, StopPolling \/ PumpSendFails PROVE CycleBooks'
  OBVIOUS
<1>1. StopEngine({}) /\ UNCHANGED <<generation, plans, pumping, dirty, readFor, expired>>
  BY DEF StopPolling, PumpSendFails, cacheVars
<1>. QED  BY <1>1, StoppedBooks

LEMMA SendOneShotBooks == TypeOK /\ CycleBooks /\ SendOneShot => CycleBooks'
<1>. SUFFICES ASSUME TypeOK, CycleBooks, SendOneShot PROVE CycleBooks'
  OBVIOUS
<1>1. UNCHANGED <<active, generation, plans, nextPlan, outstanding, intervalArmed, flushArmed,
                  dirty, readFor, pumping, expired, settledPlans, regrouped>>
  BY DEF SendOneShot, engineVars, timerVars, cacheVars, historyVars, cycleHistory
<1>2. PICK s \in Slots : /\ FreeSlot(s) /\ waiting' = waiting \cup {s}
                         /\ ticket' = [ticket EXCEPT ![s] = OneShotTicket]
  BY DEF SendOneShot
<1>3. EngineRequests' = EngineRequests /\ \A r \in EngineRequests : ticket'[r] = ticket[r]
  BY <1>1, <1>2, OneShotIsNone DEF FreeSlot
<1>. QED  BY <1>1, <1>3, QuietBooks DEF CycleBooks, RequestsArePresent

LEMMA FlushBooks == TypeOK /\ CycleBooks /\ FlushFires => CycleBooks'
<1>. SUFFICES ASSUME TypeOK, CycleBooks, FlushFires PROVE CycleBooks'
  OBVIOUS
<1>1. /\ UNCHANGED <<active, generation, plans, nextPlan, outstanding, intervalArmed,
                     readFor, pumping, waiting, expired, ticket, settledPlans, regrouped>>
      /\ dirty' = {}
  BY DEF FlushFires, engineVars, managerVars, historyVars, cycleHistory
<1>2. EngineRequests' = EngineRequests
  BY <1>1 DEF EngineRequests
<1>. QED  BY <1>1, <1>2, QuietBooks DEF CycleBooks, RequestsArePresent

\* An answer fills the cache with what the present targets are asked for.
LEMMA AppliedBooks ==
    ASSUME TypeOK, CycleBooks, active, NEW plan, ApplyResponse(plan),
           UNCHANGED <<active, generation, plans>>, pumping' = "settle"
    PROVE  DirtyDataIsCurrent' /\ FlushScheduled'
<1>1. CASE plan \in DOMAIN plans
  <2>1. /\ dirty' = dirty \cup plans[plan] /\ flushArmed' = (flushArmed \/ plans[plan] # {})
        /\ readFor' = [t \in Targets |-> IF t \in plans[plan] THEN generation ELSE readFor[t]]
    BY <1>1 DEF ApplyResponse, MarkDirty
  <2>2. plans[plan] \subseteq Targets /\ plans[plan] \subseteq CoveredBy(plans) /\ plans[plan] # {}
    BY <1>1, PlanType DEF CoveredBy
  <2>3. DirtyDataIsCurrent'
    BY <2>1, <2>2 DEF CycleBooks, DirtyDataIsCurrent, CoveredBy, TypeOK
  <2>4. FlushScheduled'
    BY <2>1, <2>2 DEF FlushScheduled
  <2>. QED  BY <2>3, <2>4
<1>2. CASE plan \notin DOMAIN plans
  BY <1>2 DEF ApplyResponse, cacheVars, CycleBooks, DirtyDataIsCurrent, CoveredBy, FlushScheduled
<1>. QED  BY <1>1, <1>2

LEMMA AnsweredBooks == TypeOK /\ CycleBooks /\ (\E s \in waiting : Answered(s)) => CycleBooks'
<1>. SUFFICES ASSUME TypeOK, CycleBooks, NEW s \in waiting, Answered(s) PROVE CycleBooks'
  OBVIOUS
<1>1. /\ pumping = "none" /\ expired = {} /\ waiting' = waiting \ {s} /\ Release({s})
      /\ UNCHANGED <<active, generation, plans, nextPlan, intervalArmed, expired>>
  BY DEF Answered, InEventLoop
<1>2. /\ EngineRequests' = EngineRequests \ {s}
      /\ \A r \in EngineRequests' : ticket'[r] = ticket[r]
  BY <1>1, EndsRequest
<1>3. CASE IsMine(s)
  <2>1. active /\ s \in EngineRequests
    BY <1>3, MineAreRequests DEF IsMine, CycleBooks
  <2>2. NoteSettled(s)
    BY <1>3 DEF Answered
  <2>3. DirtyDataIsCurrent' /\ FlushScheduled'
    <3>1. CASE ApplyResponse(ticket[s].plan)
      BY <1>1, <2>1, <2>2, <3>1, AppliedBooks DEF NoteSettled
    <3>2. CASE UNCHANGED <<flushArmed, cacheVars>>
      BY <1>1, <2>2, <3>2
         DEF NoteSettled, cacheVars, CycleBooks, DirtyDataIsCurrent, CoveredBy, FlushScheduled
    <3>. QED  BY <1>3, <3>1, <3>2 DEF Answered
  <2>. QED  BY <1>1, <1>2, <2>1, <2>2, <2>3, SettledBooks
<1>4. CASE ~IsMine(s)
  <2>1. s \notin EngineRequests
    BY <1>1, <1>4, MineAreRequests DEF CycleBooks, RequestsArePresent
  <2>2. UNCHANGED <<outstanding, settledPlans, regrouped, pumping, flushArmed, dirty, readFor>>
    BY <1>4 DEF Answered, cycleHistory, cacheVars
  <2>3. EngineRequests' = EngineRequests
    BY <1>2, <2>1
  <2>. QED  BY <1>1, <1>2, <2>2, <2>3, QuietBooks DEF CycleBooks, RequestsArePresent
<1>. QED  BY <1>3, <1>4

LEMMA ExpiresBooks == TypeOK /\ CycleBooks /\ (\E S \in SUBSET waiting : Expires(S)) => CycleBooks'
<1>. SUFFICES ASSUME TypeOK, CycleBooks, NEW S \in SUBSET waiting, Expires(S) PROVE CycleBooks'
  OBVIOUS
<1>1. /\ pumping = "none" /\ expired = {} /\ expired' = S
      /\ UNCHANGED <<generation, plans, nextPlan, dirty, readFor, pumping, settledPlans, regrouped>>
  BY DEF Expires, InEventLoop, cacheVars, historyVars, cycleHistory
<1>2. CASE StopEngine(S)
  BY <1>1, <1>2, StoppedBooks
<1>3. CASE waiting' = waiting \ S /\ UNCHANGED <<active, timerVars, outstanding, ticket>>
  <2>1. EngineRequests' = EngineRequests
    BY <1>1, <1>3 DEF EngineRequests
  <2>2. ~active => EngineRequests = {}
    BY <1>1 DEF CycleBooks, RequestsArePresent
  <2>. QED  BY <1>1, <1>3, <2>1, <2>2, QuietBooks DEF timerVars
<1>. QED  BY <1>2, <1>3 DEF Expires

LEMMA FailedBooks == TypeOK /\ CycleBooks /\ (\E s \in expired : Failed(s)) => CycleBooks'
<1>. SUFFICES ASSUME TypeOK, CycleBooks, NEW s \in expired, Failed(s) PROVE CycleBooks'
  OBVIOUS
<1>1. /\ pumping = "none" /\ expired' = expired \ {s} /\ Release({s})
      /\ UNCHANGED <<active, generation, plans, nextPlan, intervalArmed, flushArmed, dirty, readFor,
                     waiting>>
  BY DEF Failed, timerVars, cacheVars
<1>2. /\ EngineRequests' = EngineRequests \ {s}
      /\ \A r \in EngineRequests' : ticket'[r] = ticket[r]
  BY <1>1, EndsRequest
<1>3. CASE IsMine(s)
  <2>1. active /\ s \in EngineRequests
    BY <1>3, MineAreRequests DEF IsMine, CycleBooks
  <2>2. NoteSettled(s)
    BY <1>3 DEF Failed
  <2>3. DirtyDataIsCurrent' /\ FlushScheduled'
    BY <1>1, <2>2
       DEF NoteSettled, CycleBooks, DirtyDataIsCurrent, CoveredBy, FlushScheduled
  <2>. QED  BY <1>1, <1>2, <2>1, <2>2, <2>3, SettledBooks
<1>4. CASE ~IsMine(s)
  <2>1. UNCHANGED <<outstanding, settledPlans, regrouped, pumping>>
    BY <1>4 DEF Failed, cycleHistory
  <2>2. CASE active
    <3>1. s \notin EngineRequests
      BY <1>4, <2>2, MineAreRequests DEF CycleBooks
    <3>2. EngineRequests' = EngineRequests
      BY <1>2, <3>1
    <3>. QED  BY <1>1, <1>2, <2>1, <2>2, <3>2, QuietBooks
  <2>3. CASE ~active
    <3>1. EngineRequests' \subseteq EngineRequests /\ EngineRequests' \subseteq expired'
      BY <1>1, <1>2, <2>3 DEF CycleBooks, RequestsArePresent
    <3>. QED  BY <1>1, <1>2, <2>1, <2>3, <3>1, IdleBooks
  <2>. QED  BY <2>2, <2>3
<1>. QED  BY <1>3, <1>4

LEMMA IntervalBooks == TypeOK /\ CycleBooks /\ IntervalFires => CycleBooks'
<1>. SUFFICES ASSUME TypeOK, CycleBooks, IntervalFires PROVE CycleBooks'
  OBVIOUS
<1>1. /\ intervalArmed /\ pumping = "none" /\ expired = {}
      /\ UNCHANGED <<active, generation, plans, flushArmed, dirty, readFor, waiting, expired, ticket>>
  BY DEF IntervalFires, InEventLoop, cacheVars, managerVars
<1>2. active /\ EngineRequests = {} /\ generation > 0
  BY <1>1 DEF CycleBooks, IntervalBetweenCycles, RequestsArePresent
<1>3. BeginCycle("begin") /\ active' = TRUE /\ intervalArmed' = FALSE
  BY <1>1, <1>2, Zenon DEF IntervalFires
<1>4. EngineRequests' = {} /\ expired' = {}
  BY <1>1, <1>2 DEF EngineRequests
<1>5. generation' \in Nat /\ generation' > 0
  BY <1>1, <1>2, PollAssumption DEF TypeOK
<1>6. pumping' # "retarget"
  BY <1>3 DEF BeginCycle
<1>7. DirtyDataIsCurrent' /\ FlushScheduled'
  BY <1>1, <1>2, <1>6 DEF CycleBooks, DirtyDataIsCurrent, CoveredBy, FlushScheduled
<1>. QED  BY <1>3, <1>4, <1>5, <1>7, BegunBooks

LEMMA NextBooks == TypeOK /\ CycleBooks /\ [Next]_vars => CycleBooks'
<1>. SUFFICES ASSUME TypeOK, CycleBooks, [Next]_vars PROVE CycleBooks'
  OBVIOUS
<1>1. CASE UNCHANGED vars
  BY <1>1 DEF vars, engineVars, timerVars, cacheVars, managerVars, historyVars, cycleHistory, CycleBooks,
              RequestsArePresent, CountIsExact, PumpingInCycle, IntervalBetweenCycles, CycleAdvances,
              AnswersFitTheirPlan, DirtyDataIsCurrent, FlushScheduled, EngineRequests, CoveredBy
<1>2. CASE User
  BY <1>2, BeginBooks, RecoalesceBooks, StopBooks, SendOneShotBooks DEF User
<1>3. CASE Pump
  BY <1>3, PumpSendBooks, StopBooks, PumpReturnsBooks, SettleReturnsBooks DEF Pump
<1>. QED  BY <1>1, <1>2, <1>3, AnsweredBooks, ExpiresBooks, FailedBooks, IntervalBooks, FlushBooks DEF Next

-----------------------------------------------------------------------------
(* What the bookkeeping gives.                                             *)

\* The engine's books are right between any two steps: what it counts is what the
\* manager holds, and what it holds belongs to the cycle under way.
THEOREM BooksCorrect == Spec => []CycleBooks
  BY InitType, InitBooks, NextType, NextBooks, PTL DEF Spec

\* No retarget, stop, failure or one-shot of the controller makes the engine's own
\* count of its requests go wrong, and the engine's requests never exceed the window;
\* the controller's own requests are not in it (m_requestsOutstanding).
THEOREM WindowCorrect == Spec => []WindowRespected
<1>1. CycleBooks => WindowRespected
  BY DEF CycleBooks, CountIsExact, WindowRespected
<1>. QED  BY <1>1, BooksCorrect, PTL

\* A running engine neither stalls nor starts a cycle on top of another.
THEOREM CyclesCorrect == Spec => []OneCycleAtATime
<1>1. CycleBooks => OneCycleAtATime
  BY DEF CycleBooks, IntervalBetweenCycles, InEventLoop, OneCycleAtATime
<1>. QED  BY <1>1, BooksCorrect, PTL

\* When the interval begins every plan of the cycle has been answered or reported
\* failed, unless the plans were regrouped meanwhile: none is forgotten
\* (noteRequestSettled()).
THEOREM CoverageCorrect == Spec => []CyclesCoverEveryPlan
<1>1. TypeOK /\ CycleBooks => CyclesCoverEveryPlan
  <2>. SUFFICES ASSUME TypeOK, CycleBooks, intervalArmed, ~regrouped PROVE settledPlans = DOMAIN plans
    BY DEF CyclesCoverEveryPlan
  <2>1. active /\ plans # <<>> /\ EngineRequests = {} /\ nextPlan > Len(plans)
    BY DEF CycleBooks, IntervalBetweenCycles
  <2>2. nextPlan <= Len(plans) + 1 /\ settledPlans = 1 .. nextPlan - 1
    BY <2>1 DEF CycleBooks, CycleAdvances
  <2>3. nextPlan - 1 = Len(plans) /\ DOMAIN plans = 1 .. Len(plans)
    BY <2>1, <2>2, PlansType DEF TypeOK
  <2>. QED  BY <2>2, <2>3
<1>. QED  BY <1>1, TypeCorrect, BooksCorrect, PTL

\* What is about to be flushed was read for the targets of the present configuration,
\* however late the answers to the previous one's requests come.
THEOREM DirtyDataCorrect == Spec => []DirtyDataIsCurrent
<1>1. CycleBooks => DirtyDataIsCurrent
  BY DEF CycleBooks
<1>. QED  BY <1>1, BooksCorrect, PTL

\* Across retargets, stops and restarts an answer is applied to the plan its request was
\* made for, as long as setCoalescingOptions() does not regroup the plans under it
\* (handleResponse(), applyPlanResponse()).
THEOREM AnswersCorrect == Spec => []AnswersFitTheirPlan
<1>1. CycleBooks => AnswersFitTheirPlan
  BY DEF CycleBooks
<1>. QED  BY <1>1, BooksCorrect, PTL
=============================================================================

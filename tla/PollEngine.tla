----------------------------- MODULE PollEngine -----------------------------
(***************************************************************************)
(* core/poll/PollEngine: polls a set of targets in cycles, with a bounded  *)
(* window of requests in flight, and flushes what it read at a fixed rate. *)
(*                                                                         *)
(* The transaction manager is seen as TransactionService promises it: a    *)
(* request sent is answered once, or reported failed once, or dropped by   *)
(* cancelAll().  A request occupies a slot of a pool from sendRequest() to *)
(* that end; its ticket stands for the correlation id.  The connection     *)
(* controller's one-shot reads and writes share the manager, and their     *)
(* answers reach the engine's slots too: their tickets have generation 0.  *)
(*                                                                         *)
(* The read plans are those ReadCoalescer computes; what matters of a plan *)
(* here is the set of targets it covers.                                   *)
(***************************************************************************)
EXTENDS Integers, Sequences, FiniteSets

CONSTANTS
    Targets,        \* targets a configuration may contain
    Configs,        \* plan lists: sequences of nonempty sets of targets
    Window,         \* effectiveWindowSize(): m_maxInFlight, 1 for RTU
    MaxOneShots,    \* bound on the controller's requests in flight
    MaxGeneration   \* bound on the retargetings (m_generation is a quint32)

ASSUME PollAssumption ==
    /\ Configs \subseteq Seq((SUBSET Targets) \ {{}})
    /\ Window \in Nat \ {0} /\ MaxOneShots \in Nat /\ MaxGeneration \in Nat

VARIABLES
    active,         \* m_running
    generation,     \* m_generation
    plans,          \* m_plans
    nextPlan,       \* m_nextPlanIndex, counted from 1
    outstanding,    \* m_requestsOutstanding
    intervalArmed,  \* m_intervalTimer.isActive()
    flushArmed,     \* m_flushTimer.isActive()
    dirty,          \* targets whose cache is dirty
    readFor,        \* the generation whose answers a target's cache holds
    pumping,        \* who called pumpRequests(), "none" when it is not running
    waiting,        \* slots of requests the manager waits for
    expired,        \* slots of requests it is about to report failed
    ticket,         \* the correlation id of each slot
    settledPlans,   \* history: plans settled since beginCycle()
    regrouped,      \* history: setCoalescingOptions() has changed the plans since then
    cycleParity     \* history: flips whenever a cycle completes or the targets change

engineVars  == <<active, generation, plans, nextPlan, outstanding>>
timerVars   == <<intervalArmed, flushArmed>>
cacheVars   == <<dirty, readFor>>
managerVars == <<waiting, expired, ticket>>
cycleHistory == <<settledPlans, regrouped>>
historyVars == <<cycleHistory, cycleParity>>
vars == <<engineVars, timerVars, cacheVars, pumping, managerVars, historyVars>>

Slots   == 1 .. Window + MaxOneShots
Plans   == UNION {{c[i] : i \in DOMAIN c} : c \in Configs}
Callers == {"none", "begin", "settle", "retarget"}

CoveredBy(planList) == UNION {planList[i] : i \in DOMAIN planList}

\* A ticket also records, for the properties, what the request asked for.
Ticket(gen, plan, covers) == [gen |-> gen, plan |-> plan, covers |-> covers]
OneShotTicket == Ticket(0, 0, {})
Tickets == [gen : 0 .. MaxGeneration, plan : Nat, covers : SUBSET Targets]

-----------------------------------------------------------------------------
Init ==
    /\ active = FALSE /\ generation = 0 /\ plans = <<>>
    /\ nextPlan = 1 /\ outstanding = 0
    /\ intervalArmed = FALSE /\ flushArmed = FALSE
    /\ dirty = {} /\ readFor = [t \in Targets |-> 0]
    /\ pumping = "none"
    /\ waiting = {} /\ expired = {}
    /\ ticket = [s \in Slots |-> OneShotTicket]
    /\ settledPlans = {} /\ regrouped = FALSE /\ cycleParity = FALSE

\* Nothing of the engine or of the manager is on the stack.
InEventLoop == pumping = "none" /\ expired = {}

\* ModbusTransactionManager::sendRequest() takes a free slot.
FreeSlot(s) ==
    /\ s \notin waiting \cup expired
    /\ \A r \in Slots : r < s => r \in waiting \cup expired

\* The manager is done with the requests in some slots.
Release(slots) ==
    ticket' = [s \in Slots |-> IF s \in slots THEN OneShotTicket ELSE ticket[s]]

\* ModbusTransactionManager::cancelAll(): every request is dropped, a one-shot of the
\* controller too, but for those set aside to be reported failed.
CancelAll(kept) == waiting' = {} /\ Release(waiting \ kept)

-----------------------------------------------------------------------------
(* start(), stop(), setTargets(), setCoalescingOptions().                  *)

\* Bug: the interval timer of the old targets keeps running.
LeaveIntervalTimer == UNCHANGED intervalArmed

StopIntervalTimer == intervalArmed' = FALSE

\* stop(), also from the handler of a write error inside pumpRequests().
StopEngine(kept) ==
    /\ active' = FALSE
    /\ intervalArmed' = FALSE
    /\ flushArmed' = FALSE
    /\ outstanding' = 0
    /\ CancelAll(kept)

\* beginCycle() on a plan list that is not empty.
ResetCycle ==
    /\ nextPlan' = 1 /\ outstanding' = 0
    /\ settledPlans' = {} /\ regrouped' = FALSE

\* beginCycle(), called by who: it pumps, unless there is nothing to poll.
BeginCycle(who) ==
    IF plans' = <<>>
    THEN pumping' = "none" /\ UNCHANGED <<nextPlan, outstanding, cycleHistory>>
    ELSE pumping' = who /\ ResetCycle

\* Bug: the caches outlive the targets they belong to.
KeepCaches == UNCHANGED <<dirty, readFor>>

ClearCaches == dirty' = {} /\ readFor' = [t \in Targets |-> 0]

\* ConnectionController::beginPolling(): setTargets(), then start().  While the
\* engine runs, setTargets() begins the cycle and start() finds it running;
\* otherwise start() begins it.
BeginPolling(config) ==
    /\ InEventLoop
    /\ generation < MaxGeneration
    /\ generation' = generation + 1
    /\ plans' = config
    /\ StopIntervalTimer
    /\ CancelAll({})
    /\ ClearCaches
    /\ active' = TRUE
    /\ BeginCycle(IF active THEN "retarget" ELSE "begin")
    /\ cycleParity' = ~cycleParity
    /\ UNCHANGED <<flushArmed, expired>>

\* ConnectionController::stopPolling()
StopPolling ==
    /\ InEventLoop
    /\ active
    /\ StopEngine({})
    /\ UNCHANGED <<generation, plans, nextPlan, cacheVars, pumping, expired, historyVars>>

\* setCoalescingOptions(): the plans of the same targets, grouped otherwise.
Recoalesce(config) ==
    /\ InEventLoop
    /\ CoveredBy(config) = CoveredBy(plans)
    /\ plans' = config
    /\ regrouped' = (regrouped \/ plans # config)
    /\ UNCHANGED <<active, generation, nextPlan, outstanding, timerVars, cacheVars, pumping,
                   managerVars, settledPlans, cycleParity>>

-----------------------------------------------------------------------------
(* pumpRequests().                                                         *)

WindowOpen == outstanding < Window

MaySend == active /\ nextPlan <= Len(plans) /\ WindowOpen

\* Bug: the index has moved on when the correlation id is made.
TicketOfTheNext == Ticket(generation, nextPlan + 1, plans[nextPlan])

\* makeCorrelationId()
TicketOfThePlan == Ticket(generation, nextPlan, plans[nextPlan])

PumpSend ==
    /\ pumping # "none"
    /\ MaySend
    /\ \E s \in Slots :
          /\ FreeSlot(s)
          /\ waiting' = waiting \cup {s}
          /\ ticket' = [ticket EXCEPT ![s] = TicketOfThePlan]
    /\ outstanding' = outstanding + 1
    /\ nextPlan' = nextPlan + 1
    /\ UNCHANGED <<active, generation, plans, timerVars, cacheVars, pumping, expired, historyVars>>

\* A transport may report an error from inside write(), though QTcpSocket and
\* QSerialPort buffer what is written; the handler of the error ends at stop().
PumpSendFails ==
    /\ pumping # "none"
    /\ MaySend
    /\ StopEngine({})
    /\ nextPlan' = nextPlan + 1
    /\ UNCHANGED <<generation, plans, cacheVars, pumping, expired, historyVars>>

\* beginCycle() returns; back in beginPolling(), start() finds the engine running
\* unless a write error has just stopped it.
PumpReturns ==
    /\ pumping \in {"begin", "retarget"}
    /\ ~MaySend
    /\ UNCHANGED plans
    /\ IF pumping = "retarget" /\ ~active
       THEN active' = TRUE /\ BeginCycle("begin")
       ELSE pumping' = "none" /\ UNCHANGED <<active, nextPlan, outstanding, cycleHistory>>
    /\ UNCHANGED <<generation, timerVars, cacheVars, managerVars, cycleParity>>

\* Bugs: a cycle ends when the last plan has been sent; a cycle never ends.
AllSent == nextPlan > Len(plans)
OneMoreExpected == nextPlan > Len(plans) + 1 /\ outstanding = 0

CycleFinished == nextPlan > Len(plans) /\ outstanding = 0

\* The end of noteRequestSettled().
SettleReturns ==
    /\ pumping = "settle"
    /\ ~MaySend
    /\ pumping' = "none"
    /\ IF CycleFinished
       THEN /\ cycleParity' = ~cycleParity
            /\ intervalArmed' = (active \/ intervalArmed)
       ELSE UNCHANGED <<cycleParity, intervalArmed>>
    /\ UNCHANGED <<engineVars, flushArmed, cacheVars, managerVars, cycleHistory>>

-----------------------------------------------------------------------------
(* handleResponse() and handleFailure().                                   *)

\* Bug: a one-shot's answer is counted as one of the engine's own.
TakeAnySettlement(s) == active

IsMine(s) == active /\ ticket[s].gen = generation

\* The head of noteRequestSettled(): a request less, then pumpRequests().
NoteSettled(s) ==
    /\ outstanding' = IF outstanding > 0 THEN outstanding - 1 ELSE 0
    /\ settledPlans' = settledPlans \cup {ticket[s].plan} /\ UNCHANGED regrouped
    /\ pumping' = "settle"

\* Bug: the flush timer is started by the first dirty target of a session only.
MarkWithoutTimer(covered) == dirty' = dirty \cup covered /\ UNCHANGED flushArmed

\* markDirty() of each target covered: starts the flush timer if it is idle.
MarkDirty(covered) == dirty' = dirty \cup covered /\ flushArmed' = (flushArmed \/ covered # {})

\* applyPlanResponse(): the plan is looked up by the index in the ticket.
ApplyResponse(plan) ==
    IF plan \in DOMAIN plans
    THEN /\ MarkDirty(plans[plan])
         /\ readFor' = [t \in Targets |-> IF t \in plans[plan] THEN generation ELSE readFor[t]]
    ELSE UNCHANGED <<flushArmed, cacheVars>>

\* The manager emits responseReceived.  A PDU that cannot be decoded is reported
\* and settles the request all the same.
Answered(s) ==
    /\ InEventLoop
    /\ s \in waiting
    /\ waiting' = waiting \ {s} /\ Release({s})
    /\ IF IsMine(s)
       THEN /\ NoteSettled(s)
            /\ \/ ApplyResponse(ticket[s].plan)
               \/ UNCHANGED <<flushArmed, cacheVars>>
       ELSE UNCHANGED <<outstanding, cycleHistory, pumping, flushArmed, cacheVars>>
    /\ UNCHANGED <<active, generation, plans, nextPlan, intervalArmed, expired, cycleParity>>

\* The timeout timer finds the requests in S exhausted.  A retransmission it
\* writes in the same call may fail and stop the engine before they are reported.
Expires(S) ==
    /\ InEventLoop
    /\ S # {}
    /\ expired' = S
    /\ \/ waiting' = waiting \ S /\ UNCHANGED <<active, timerVars, outstanding, ticket>>
       \/ active /\ StopEngine(S)
    /\ UNCHANGED <<generation, plans, nextPlan, cacheVars, pumping, historyVars>>

\* The manager emits requestFailed.
Failed(s) ==
    /\ pumping = "none"
    /\ s \in expired
    /\ expired' = expired \ {s} /\ Release({s})
    /\ IF IsMine(s) THEN NoteSettled(s) ELSE UNCHANGED <<outstanding, cycleHistory, pumping>>
    /\ UNCHANGED <<active, generation, plans, nextPlan, timerVars, cacheVars, waiting, cycleParity>>

-----------------------------------------------------------------------------
(* Timers, and the controller's one-shot requests.                         *)

IntervalFires ==
    /\ InEventLoop
    /\ intervalArmed
    /\ intervalArmed' = FALSE
    /\ UNCHANGED plans
    /\ IF active
       THEN BeginCycle("begin")
       ELSE UNCHANGED <<nextPlan, outstanding, cycleHistory, pumping>>
    /\ UNCHANGED <<active, generation, flushArmed, cacheVars, managerVars, cycleParity>>

\* flushPendingUpdates()
FlushFires ==
    /\ InEventLoop
    /\ flushArmed
    /\ flushArmed' = FALSE
    /\ dirty' = {}
    /\ UNCHANGED <<engineVars, intervalArmed, readFor, pumping, managerVars, historyVars>>

OneShots == {s \in waiting \cup expired : ticket[s] = OneShotTicket}

\* readRegisters(), writeSingleRegister(), writeSingleCoil()
SendOneShot ==
    /\ InEventLoop
    /\ Cardinality(OneShots) < MaxOneShots
    /\ \E s \in Slots :
          /\ FreeSlot(s)
          /\ waiting' = waiting \cup {s}
          /\ ticket' = [ticket EXCEPT ![s] = OneShotTicket]
    /\ UNCHANGED <<engineVars, timerVars, cacheVars, pumping, expired, historyVars>>

-----------------------------------------------------------------------------
Pump == PumpSend \/ PumpSendFails \/ PumpReturns \/ SettleReturns

User ==
    \/ \E config \in Configs : BeginPolling(config) \/ Recoalesce(config)
    \/ StopPolling
    \/ SendOneShot

Next ==
    \/ User
    \/ Pump
    \/ \E s \in waiting : Answered(s)
    \/ \E S \in SUBSET waiting : Expires(S)
    \/ \E s \in expired : Failed(s)
    \/ IntervalFires
    \/ FlushFires

\* Every request the manager waits for is answered or expires.
Settles(s) == Answered(s) \/ \E S \in SUBSET waiting : s \in S /\ Expires(S)

\* Calls run to completion, timers fire, and the manager settles each request.
Fairness ==
    /\ WF_vars(Pump)
    /\ WF_vars(\E s \in expired : Failed(s))
    /\ \A s \in Slots : SF_vars(s \in waiting /\ Settles(s))
    /\ SF_vars(IntervalFires)
    /\ SF_vars(FlushFires)

Spec == Init /\ [][Next]_vars /\ Fairness

-----------------------------------------------------------------------------
(* Properties.                                                             *)

\* Every variable stays in its domain, the count of requests within the window.
TypeOK ==
    /\ active \in BOOLEAN /\ generation \in 0 .. MaxGeneration
    /\ plans \in Configs \cup {<<>>}
    /\ nextPlan \in Nat \ {0} /\ outstanding \in 0 .. Window
    /\ intervalArmed \in BOOLEAN /\ flushArmed \in BOOLEAN
    /\ dirty \subseteq Targets /\ readFor \in [Targets -> 0 .. MaxGeneration]
    /\ pumping \in Callers
    /\ waiting \subseteq Slots /\ expired \subseteq Slots
    /\ ticket \in [Slots -> Tickets]
    /\ settledPlans \subseteq Nat /\ regrouped \in BOOLEAN /\ cycleParity \in BOOLEAN

\* The engine's requests the manager still has.
EngineRequests == {s \in waiting \cup expired : ticket[s] # OneShotTicket}

\* m_requestsOutstanding is a count kept by hand; between events it is the number
\* of polls really in flight, across retargets, stops, failures and the controller's
\* own requests.  At no moment are there more of them than the window allows (one for
\* RTU).  (A retarget to no targets at all leaves the old count behind; the next
\* cycle resets it.)
WindowRespected ==
    /\ Cardinality(EngineRequests) <= Window
    /\ pumping = "none" /\ active /\ plans # <<>> => outstanding = Cardinality(EngineRequests)

\* A running engine with something to poll is either between cycles, with the
\* interval timer armed, or inside exactly one cycle, with a request in flight:
\* it neither stalls nor starts a second cycle on top of the first.
OneCycleAtATime ==
    InEventLoop /\ active /\ plans # <<>> => (intervalArmed <=> EngineRequests = {})

\* When the interval timer is armed, every plan of the cycle has settled, if
\* setCoalescingOptions() has not made other plans of them meanwhile.
CyclesCoverEveryPlan == intervalArmed /\ ~regrouped => settledPlans = DOMAIN plans

\* What waits to be flushed was read for the targets of the present configuration.
DirtyDataIsCurrent ==
    \A t \in dirty : t \in CoveredBy(plans) /\ readFor[t] = generation

\* The plan an answer is applied to, found by its index, is the plan the request
\* was made for.  setCoalescingOptions() in mid-cycle breaks this, and nothing in
\* the program calls it there.
AnswersFitTheirPlan ==
    \A s \in EngineRequests :
        active /\ ~regrouped /\ ticket[s].gen = generation =>
            ticket[s].plan \in DOMAIN plans /\ ticket[s].covers = plans[ticket[s].plan]

\* What the properties above rest on, an invariant by induction.
\* The requests the manager has were made for the present targets, and those that
\* outlive a stop are on their way to be reported failed.
RequestsArePresent ==
    /\ \A s \in EngineRequests : ticket[s].gen = generation
    /\ EngineRequests # {} => plans # <<>>
    /\ ~active => EngineRequests \subseteq expired
    /\ active \/ pumping # "none" => generation > 0

\* The count kept by hand is the number of requests, and the window bounds it.
CountIsExact ==
    /\ Cardinality(EngineRequests) <= Window
    /\ active /\ plans # <<>> => outstanding = Cardinality(EngineRequests)

\* While pumpRequests() runs there is something to poll and no interval to wait for;
\* a cycle that begins has sent as many requests as it waits for, and no failure is
\* left to report.
PumpingInCycle ==
    /\ pumping # "none" => plans # <<>> /\ ~intervalArmed
    /\ pumping \in {"begin", "retarget"} =>
           expired = {} /\ (active => nextPlan = outstanding + 1)

\* The interval timer runs between cycles, and only then: whenever pumpRequests() has
\* returned and nothing is in flight, every plan sent.
IntervalBetweenCycles ==
    /\ intervalArmed => active /\ plans # <<>> /\ EngineRequests = {}
    /\ intervalArmed /\ ~regrouped => nextPlan > Len(plans)
    /\ pumping = "none" /\ active /\ plans # <<>> /\ EngineRequests = {} => intervalArmed

\* The plans sent so far in a cycle have settled or are in flight.
CycleAdvances ==
    active /\ plans # <<>> /\ ~regrouped =>
        /\ nextPlan <= Len(plans) + 1
        /\ settledPlans \cup {ticket[s].plan : s \in EngineRequests} = 1 .. nextPlan - 1

\* Whatever is dirty while the engine runs has a flush to wait for.
FlushScheduled ==
    /\ active /\ dirty # {} => flushArmed
    /\ pumping = "retarget" => dirty = {}

\* The bookkeeping as a whole, between any two steps of the engine.
CycleBooks ==
    /\ RequestsArePresent /\ CountIsExact
    /\ PumpingInCycle /\ IntervalBetweenCycles
    /\ CycleAdvances /\ AnswersFitTheirPlan
    /\ DirtyDataIsCurrent /\ FlushScheduled

\* While it runs, the engine completes cycle after cycle whatever the devices do,
\* until it is stopped or its targets change.
PollingGoesOn ==
    \A parity \in BOOLEAN :
        active /\ plans # <<>> /\ cycleParity = parity ~> ~active \/ cycleParity # parity

\* What has been read is shown, unless the engine is stopped first.
ReadingsReachTheView == dirty # {} ~> dirty = {} \/ ~active
=============================================================================

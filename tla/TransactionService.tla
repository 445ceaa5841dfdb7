------------------------- MODULE TransactionService -------------------------
(***************************************************************************)
(* What ModbusTransactionManager promises its callers, free of frames,     *)
(* timers and buffers: every request is issued once and is then answered,  *)
(* reported failed, or dropped without a report by cancelAll(), and after  *)
(* that nothing more is ever heard of it.                                  *)
(*                                                                         *)
(* Requests are numbered in the order in which sendRequest() is called.    *)
(***************************************************************************)
EXTENDS Integers

CONSTANT MaxRequests   \* bound: how many times sendRequest() is called

VARIABLE status        \* what the caller may still expect of each request

Requests == 1 .. MaxRequests

\* "expired": its last timeout has passed, the failure report is on its way.
Statuses == {"unsent", "outstanding", "expired", "answered", "failed", "cancelled"}

ServiceInit == status = [n \in Requests |-> "unsent"]

IsOutstanding(n) == status[n] = "outstanding"

\* sendRequest(): requests are issued in the order of their numbers.
Issue(n) ==
    /\ status[n] = "unsent"
    /\ \A m \in 1 .. n - 1 : status[m] # "unsent"
    /\ status' = [status EXCEPT ![n] = "outstanding"]

\* responseReceived(): only a request still waiting can be answered.
Answer(n) ==
    /\ IsOutstanding(n)
    /\ status' = [status EXCEPT ![n] = "answered"]

\* One expiry of the timeout timer may exhaust several requests at once.
Expire(S) ==
    /\ S # {}
    /\ \A n \in S : IsOutstanding(n)
    /\ status' = [n \in Requests |-> IF n \in S THEN "expired" ELSE status[n]]

\* requestFailed(): the report an exhausted request is owed.
Fail(n) ==
    /\ status[n] = "expired"
    /\ status' = [status EXCEPT ![n] = "failed"]

\* cancelAll(): every waiting request is dropped, and no other.
Cancel ==
    status' = [n \in Requests |-> IF IsOutstanding(n) THEN "cancelled" ELSE status[n]]

ServiceNext ==
    \/ \E n \in Requests : Issue(n) \/ Answer(n) \/ Fail(n)
    \/ \E S \in SUBSET Requests : Expire(S)
    \/ Cancel

ServiceSpec == ServiceInit /\ [][ServiceNext]_status
=============================================================================

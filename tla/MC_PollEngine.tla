--------------------------- MODULE MC_PollEngine ----------------------------
(* Model values for the poll engine.  A target larger than one request is  *)
(* covered by two plans, two neighbouring targets share a plan, and        *)
(* setCoalescingOptions() may merge all of them.                           *)
EXTENDS PollEngine

TwoTargets == {1, 2}
SplitAndShared == <<{1}, {1, 2}, {2}>>
Merged == <<{1, 2}>>
Alone == <<{1}>>
Nothing == <<>>

PlanLists == {SplitAndShared, Merged, Alone, Nothing}
=============================================================================

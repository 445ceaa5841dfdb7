SPECIFICATION Spec
CONSTANTS
    Targets <- TwoTargets
    Configs <- PlanLists
    Window = 2
    MaxOneShots = 1
    MaxGeneration = 2
INVARIANTS
    WindowRespected
    OneCycleAtATime
    CyclesCoverEveryPlan
    DirtyDataIsCurrent
    AnswersFitTheirPlan
PROPERTIES
    PollingGoesOn
    ReadingsReachTheView

SPECIFICATION Spec
CONSTANTS
    g1 = g1  r1 = r1  r2 = r2  n1 = n1  p1 = p1  p2 = p2
    Groups <- OneGroup
    Requisites <- TwoRequisites
    GroupOf <- SameGroup
    Number <- OneNumber
    Limits = {1}
    NewLimits = {2}
    Handlers <- TwoHandlers
    MaxOrders = 1
    MayFail = TRUE
SYMMETRY Symmetry
INVARIANTS
    OneActivePerNumber
    ActiveInLiveGroup
    OffStaysOff

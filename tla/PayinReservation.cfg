SPECIFICATION Spec
CONSTANTS
    o1 = o1  o2 = o2  o3 = o3  r1 = r1  t1 = t1
    a1 = a1  p1 = p1  p2 = p2
    None = None
    Requests <- ThreeRequests
    Requisites <- OneRequisite
    Traders <- OneTrader
    Owner <- OneOwner
    LimitOps <- TwoOps
    LimitAmount <- AmountThree
    OrderAmounts = {1, 2}
    ReportedAmounts = {1}
    Appeals <- OneAppeal
    Handlers <- OneHandler
    Operations = {"upload", "merchant", "page", "confirm", "cancel", "deactivate"}
    ProviderTier = TRUE
    MayFail = FALSE
    MaxConfirmed = 4
SYMMETRY Symmetry
INVARIANT UsageMatchesHolders

SPECIFICATION Spec
CONSTANTS
    o1 = o1  o2 = o2  o3 = o3  r1 = r1  t1 = t1
    a1 = a1  p1 = p1  p2 = p2
    None = None
    Requests <- OneRequest
    Requisites <- OneRequisite
    Traders <- OneTrader
    Owner <- OneOwner
    LimitOps <- OneOp
    LimitAmount <- AmountTwo
    OrderAmounts = {1}
    ReportedAmounts = {1, 2}
    Appeals <- OneAppeal
    Handlers <- TwoHandlers
    Operations = {"upload", "merchant", "page", "confirm", "cancel", "admin", "appeal", "close", "provider", "deactivate"}
    ProviderTier = TRUE
    MayFail = TRUE
    MaxConfirmed = 2
SYMMETRY Symmetry
INVARIANTS
    TypeOK
    LedgersMatchIncome
    UsageWithinLimits
    ActiveIffHeadroom
    PaidIsSettled
PROPERTY Settlement

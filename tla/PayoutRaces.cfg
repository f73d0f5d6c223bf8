SPECIFICATION Spec
CONSTANTS
    o1 = o1  o2 = o2  t1 = t1  t2 = t2  s1 = s1  p1 = p1  p2 = p2
    None = None
    Requests <- OneRequest
    Traders <- TwoTraders
    Specialists <- OneSpecialist
    Debit <- UnitDebit
    Deposit = 1
    Handlers <- TwoHandlers
    Operations = {"upload", "take", "assign", "start", "complete", "fail", "return", "deactivate", "settle"}
    PoolTimeout = TRUE
    MayFail = TRUE
    MaxRefunds = 2
    Withdrawals = {1}
    MaxWithdrawn = 2
SYMMETRY Symmetry
INVARIANTS
    AtMostOneAssignee
    BalanceMatchesBookings
    CompletedIsCredited
    FailedIsRefunded
PROPERTY NeverTaken

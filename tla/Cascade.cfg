SPECIFICATION FairSpec
CONSTANTS
    u1 = u1  u2 = u2  r1 = r1  r2 = r2  t1 = t1  x1 = x1
    None = None
    Uploads <- TwoUploads
    Requisites <- TwoRequisites
    Traders <- OneTrader
    Owner <- Owners
    Method <- Methods
    Amounts <- OneAmount
    Scale = 3
    Shares = {1, 2}
    MaxUploads = 2
    MaxUnforeseen = 1
    MaxRoom = 1
    MayFail = TRUE
    RedisMayFail = TRUE
INVARIANTS
    FairShare
    OvercommitBounded
    SameAmountOnce
PROPERTY UploadsEnd

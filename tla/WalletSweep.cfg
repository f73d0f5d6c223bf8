SPECIFICATION SweepSpec
CONSTANTS
    a = a  t1 = t1  s1 = s1  s2 = s2
    None = None
    Traders <- OneTrader
    Trc20 <- OneTron
    Erc20 <- NoTransfer
    Owner <- OwnerIsFirst
    TronScans <- TwoScans
    EthScans <- NoScan
    MinConf = 2
    Chunk = 1
    MaxBlock = 2
    Threshold = 1
    MaxSweeps = 2
    MayFail = TRUE
    LogsMayFail = FALSE
SYMMETRY Symmetry
CHECK_DEADLOCK FALSE
INVARIANTS
    OneSweepAtATime
    CreditedBeforeSwept
PROPERTY SweepsKeepDeposits

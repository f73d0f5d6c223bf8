SPECIFICATION Trc20FairSpec
CONSTANTS
    a = a  e = e  t1 = t1  t2 = t2  s1 = s1  g1 = g1
    None = None
    Traders <- TwoTraders
    Trc20 <- OneTron
    Erc20 <- OneEth
    Owner <- OwnerIsFirst
    TronScans <- OneScan
    EthScans <- OneEthScan
    MinConf = 2
    Chunk = 1
    MaxBlock = 2
    MayFail = TRUE
    LogsMayFail = FALSE
INVARIANTS
    BalanceMatchesSettlements
    CreditedIsDeep
    ScannedIsRecorded
PROPERTY Trc20IsCredited

SPECIFICATION FairMonitor
CONSTANTS
    t1 = t1 t2 = t2 t3 = t3
    a = a b = b
    Tx = {t1, t2, t3}
    Ref = {a, b}
    Scope = {}
    Unit = {}
    Reader = {}
    Slot = {1, 2}
    TopKey = 9
    None = None
    Absent = Absent
    LegacyRefs = {}
    TxIn <- MCTxIn
    TxOut <- MCTxOut
    ScopesOf <- Empty
    UnitsOf <- Empty
    Under <- NoUnits
    Ledger = Ledger
    Mempool = Mempool
    Writer = {Ledger, Mempool}
    SlotsOf <- MCSlotsOf
    InSeq <- MCInSeq
    OutSeq <- MCOutSeq
    MaxJobs = 12
    NoJob = NoJob
    Unread = Unread
    Deleted = Deleted
    Delay = 1
    RecentCap = 4
    FilterCap = 3
    ChannelCap = 1
    MaxBlocks = 2
    MaxRollbacks = 1
    MaxLag = 1
    Blocks <- MCBlocks
INVARIANTS SettledKept MempoolShown GivenBack
PROPERTIES EventuallyQuiet
CHECK_DEADLOCK FALSE

SPECIFICATION WritersSpec
CONSTANTS
    t1 = t1 t2 = t2 t3 = t3
    a = a b = b c = c d = d
    pay = pay ledger = ledger mempool = mempool
    Tx = {t1, t2, t3}
    Ref = {a, b, c, d}
    Scope = {pay}
    Unit = {u1}
    Reader = {q1}
    Slot = {1}
    TopKey = 9
    LegacyRefs = {}
    TxIn <- MCTxIn
    TxOut <- MCTxOut
    InSeq <- MCInSeq
    OutSeq <- MCOutSeq
    ScopesOf <- MCScopesOf
    UnitsOf <- MCUnitsOf
    Under <- MCUnder
    SlotsOf <- MCSlotsOf
    NoJob = NoJob Unread = Unread Deleted = Deleted
    None = None
    Absent = Absent
    u1 = u1 q1 = q1
    Writer = {ledger}
    MaxJobs = 4
INVARIANTS SpendSurvives
PROPERTIES AtomicSpec
CHECK_DEADLOCK FALSE

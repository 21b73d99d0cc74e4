SPECIFICATION Spec
CONSTANTS
    t1 = t1 t2 = t2 t3 = t3
    a = a b = b c = c g = g
    pay = pay stake = stake
    policy = policy asset = asset
    Tx = {t1, t2, t3}
    Ref = {a, b, c, g}
    Scope = {pay, stake}
    Unit = {policy, asset}
    TxIn <- MCTxIn
    TxOut <- MCTxOut
    ScopesOf <- MCScopesOf
    UnitsOf <- MCUnitsOf
    Under <- MCUnder
    None = None
    Absent = Absent
    q1 = q1
    Slot = {1, 2}
    TopKey = 9
    Reader = {q1}
    LegacyRefs = {}
INVARIANTS CredentialTables UnitCover UnitAnswerExact
PROPERTIES SpendSticks

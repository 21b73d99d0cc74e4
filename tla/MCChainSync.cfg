SPECIFICATION FairSpec
CONSTANTS
    g = g s = s a = a b = b c = c d = d b2 = b2 c2 = c2 d2 = d2 z1 = z1 z2 = z2 z3 = z3
    Origin = Origin NoTip = NoTip NotCached = NotCached NoReplay = NoReplay
    Block = {g, s, a, b, c, d, b2, c2, d2}
    Tx = {1, 2, 3, 4, 5, 6, 7}
    Path <- MCPath
    SlotOf <- MCSlotOf
    TxsOf <- MCTxsOf
    StartPoint = s
    NoRollbackUntil = 2
    ReplayFrom = s
    CrashAt = {"replay", "pull", "rollback", "apply"}
    MaxCrashes = 2
    ForksWhileDown = TRUE
    LinkBreaks = TRUE
INVARIANTS FollowsOneChain CaughtUp BeaconCoversRollback
PROPERTIES SyncedMeansCaughtUp EventuallySynced
CHECK_DEADLOCK FALSE

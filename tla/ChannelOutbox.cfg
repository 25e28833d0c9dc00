SPECIFICATION FairSpec
CONSTANTS
    Msgs = {m1, m2}
    NoMsg = NoMsg
    MaxAttempts = 2
    Batch = 2
    MaxLedger = 2
    Inputs = {"crash", "cancel", "purge", "disable", "unreadable", "fail", "echo fails", "no id"}
INVARIANTS TypeOK SentAtMostOnce RowTellsTruth AttemptsAreRequests OwnEchoIgnored
PROPERTY QueuedSettles
CHECK_DEADLOCK FALSE

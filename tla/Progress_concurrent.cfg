SPECIFICATION FairSpec
CONSTANTS
    AccumMetrics = {"trade_amount_accum"}
    Unparsable = Unparsable
    NoBiz = "none"
    NoEvent = NoEvent
    NoRow = NoRow
    x1 = x1
    x2 = x2
    a = a
    b = b
    c = c
    d = d
    trade1 = trade1
    trade1bad = trade1bad
    trade2 = trade2
    deposit = deposit
    Workers = {w1, w2}
    Execs = {x1, x2}
    Rows = {a, b, c, d}
    Events = {trade1, trade2, deposit}
    ExecInfo <- MCExecInfo
    RowInfo <- MCRowInfo
    EventInfo <- MCEventInfo
    Faults = {}
    MaxTries = 1
    MaxFaults = 0
INVARIANTS
    NoLostCompletion
    NoLostAnnouncement
    LastAnnouncementCountsAll
PROPERTIES
    RowsOnlyAdvance
    EveryEventIsCommitted
    SatisfiedIsAnnounced
CHECK_DEADLOCK FALSE

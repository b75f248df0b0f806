SPECIFICATION Spec
CONSTANTS
    AccumMetrics = {"trade_amount_accum"}
    Unparsable = Unparsable
    NoBiz = "none"
    NoEvent = NoEvent
    NoRow = NoRow
    x1 = x1
    x2 = x2
    a = a
    b = b
    c = c
    d = d
    trade1 = trade1
    trade1bad = trade1bad
    trade2 = trade2
    deposit = deposit
    Workers = {w1, w2}
    Execs = {x1, x2}
    Rows = {a, b, c}
    Events = {trade1, trade1bad, deposit}
    ExecInfo <- ShortExecInfo
    RowInfo <- MCRowInfo
    EventInfo <- MCEventInfo
    Faults = {"db", "publish", "commit", "crash"}
    MaxTries = 2
    MaxFaults = 2
SYMMETRY WorkerSymmetry
INVARIANTS
    TypeOK
    CompleteIsJustified
    AnnouncementIsJustified
    ClaimIsExclusive
    CountedOnceUnlessReleased
PROPERTIES
    ImplementsCompletion
CHECK_DEADLOCK FALSE

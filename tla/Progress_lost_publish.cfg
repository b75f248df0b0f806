SPECIFICATION Spec
CONSTANTS
    AccumMetrics = {"trade_amount_accum"}
    Unparsable = Unparsable
    NoBiz = "none"
    NoEvent = NoEvent
    NoRow = NoRow
    x1 = x1
    x2 = x2
    a = a
    b = b
    c = c
    d = d
    trade1 = trade1
    trade1bad = trade1bad
    trade2 = trade2
    deposit = deposit
    Workers = {w1}
    Execs = {x1, x2}
    Rows = {a, b, c, d}
    Events = {trade1}
    ExecInfo <- MCExecInfo
    RowInfo <- MCRowInfo
    EventInfo <- MCEventInfo
    Faults = {"publish"}
    MaxTries = 2
    MaxFaults = 1
INVARIANTS
    PublishIsRetried
CHECK_DEADLOCK FALSE

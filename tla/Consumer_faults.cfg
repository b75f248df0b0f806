SPECIFICATION Spec
CONSTANTS
    Members = {m1, m2}
    deposits = deposits
    kycs = kycs
    Partitions = {deposits, kycs}
    Log <- MCLog
    Nobody = Nobody
    NoRecord = NoRecord
    Faults = {"update", "release", "fetch", "commit", "cache", "crash", "rebalance"}
    MaxFaults = 2
SYMMETRY MemberSymmetry
INVARIANTS
    TypeOK
    HandledIsApplied
    CommittedIsAccountedFor
    AttemptedInOrder
CHECK_DEADLOCK FALSE

SPECIFICATION Spec
CONSTANTS
    Members = {m1}
    deposits = deposits
    kycs = kycs
    Partitions = {deposits, kycs}
    Log <- MCLog
    Nobody = Nobody
    NoRecord = NoRecord
    Faults = {"update"}
    MaxFaults = 1
INVARIANTS
    FailedRecordIsRetried
CHECK_DEADLOCK FALSE

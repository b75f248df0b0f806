SPECIFICATION FairSpec
CONSTANTS
    Members = {m1, m2}
    deposits = deposits
    kycs = kycs
    Partitions = {deposits, kycs}
    Log <- ParsingLog
    Nobody = Nobody
    NoRecord = NoRecord
    Faults = {"commit", "crash", "rebalance"}
    MaxFaults = 1
PROPERTIES
    EveryRecordIsHandled
CHECK_DEADLOCK FALSE

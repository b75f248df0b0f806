SPECIFICATION FairSpec
CONSTANTS
    KafkaConfigs <- MCKafkaConfigs
    NumRecords = 2
    MaxRows = 1
    MaxLives = 2
    Faults = {"config", "database", "listen", "load", "call", "kill"}
    MaxFaults = 1
INVARIANTS
    TypeOK
    EverythingIsTraced
    ConsumerAnnounces
    MetricStaysFound
    ClaimIsJustified
    AppliedAtMostOnce
PROPERTIES
    StartsOrEnds
    StopIsHonoured
    AddedRowIsFound
CHECK_DEADLOCK FALSE

SPECIFICATION ApiSpec
CONSTANTS
    Clients = {c1, c2}
    Groups = {g1}
    Tasks = {t1, t2}
    Users = {u1}
    Contents <- MCContents
    MaxSaves = 2
    MaxFaults = 1
    BelowOne = BelowOne
SYMMETRY Symmetry
INVARIANTS
    ApiTypeOK
    RefusedChangedNothing
    AnsweredOnce
    AcknowledgedWriteStays
    SettledDetailIsCurrent
    ListShowsWhatWasThere
CHECK_DEADLOCK FALSE

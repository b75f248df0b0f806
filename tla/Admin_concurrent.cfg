SPECIFICATION MCSpec
CONSTANTS
    Clients = {c1, c2, c3}
    Groups = {g1}
    Tasks = {t1, t2}
    Users = {u1}
    Contents <- MCContents
    MaxSaves = 2
    MaxFaults = 1
SYMMETRY Symmetry
INVARIANTS
    TypeOK
    EnrolmentIsOfOneSave
    SettledEnrolmentKeepsItsConditions
    StoredExpressionIsUsable
    AcceptedTextIsUsable
    DoublingChangesNothing
PROPERTIES
    SettledTaskIsFrozen
    SettledGroupIsFrozen
CHECK_DEADLOCK FALSE

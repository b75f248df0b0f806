SPECIFICATION MCSpec
CONSTANTS
    Clients = {c1, c2}
    Groups = {g1}
    Tasks = {t1}
    Users = {u1}
    Contents <- MCContents
    MaxSaves = 2
    MaxFaults = 0
PROPERTIES
    PublishedTaskIsNotModified
CHECK_DEADLOCK FALSE

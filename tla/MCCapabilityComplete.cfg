CONSTANTS
    i1 = i1
    i2 = i2
    i3 = i3
    a1 = a1
    a2 = a2
    a3 = a3
    b1 = b1
    Ids = {i1, i2, i3}
    NoId = NoId
    Places <- MCPlaces
    Space <- MCSpace
    Rights = {"GRANT", "READ"}
    Modes = {"CASUAL", "SECURE"}
    MaxEpoch = 2
SPECIFICATION Spec
SYMMETRY SamePlaces
CHECK_DEADLOCK FALSE
PROPERTY
    RevokeIsComplete

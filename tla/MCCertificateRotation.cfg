SPECIFICATION RotationSpec
CONSTANTS
    MaxServers = 3
    Path = {cert, key}
    MaxWrites = 2
CHECK_DEADLOCK FALSE
PROPERTY
    RotationTakesEffect

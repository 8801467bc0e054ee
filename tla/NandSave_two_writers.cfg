SPECIFICATION Spec
CONSTANTS
    i1 = i1
    i2 = i2
    Infos = {i1, i2}
    Worlds <- TwoWriters
    NumInodes = 4
    NumBlocks = 2
    MaxVersion = 2
    MaxOlder = 3
PROPERTIES
    FailedCloseLeavesOriginal
